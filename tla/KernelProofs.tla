----------------------------- MODULE KernelProofs -----------------------------
(***************************************************************************)
(* Kernels, for every number of blocks, threads and tokens.                *)
(*                                                                         *)
(* Split-K decoding attends the whole context, and replays compute with    *)
(* the kernel an eager decode computes with.  The argument has two halves. *)
(* The planning: a bucket holds the context it was chosen for, so a plan   *)
(* has as many partitions as the context needs and no more than the        *)
(* workspace has slots; and two positions share a graph variant only if    *)
(* their plans are equal.  The kernels: with such a plan, every block of   *)
(* the partition kernel whose share is not empty writes a slot of its own, *)
(* and the shares of the slots the merge kernel reads are the context.     *)
(*                                                                         *)
(* Grids: threads have floats of their own.  Where a thread writes is a    *)
(* number whose digits are the row, head and column the thread has, and a  *)
(* number has its digits but once; that it stays in its array is the bound *)
(* on those digits.  For that the shape must be valid and the chunk must   *)
(* fit, which the calls have checked whenever a kernel is pending.         *)
(*                                                                         *)
(* Attention: a call leaves what the reference makes.  The cache holds     *)
(* keys and values of the tokens before, and what every kernel leaves in   *)
(* its array is what the next one needs there.  The four ways to attend    *)
(* meet in the same mix: without stored logits, a row that was scanned in  *)
(* tiles or merged from warps ends with all its keys, and all its weights  *)
(* relative to the maximum over all of them.                               *)
(*                                                                         *)
(* Gated delta: a chunk leaves what the reference makes, token by token.   *)
(* What the k kernels that have run leave is said relative to the state    *)
(* the chunk started from: windows over the past and the chunk; vectors    *)
(* scaled in place, each by one block; columns of the state, each with one *)
(* thread that goes through the tokens; outputs.  However a kernel adds    *)
(* the terms of a column, in lanes by halves or one by one, it adds each   *)
(* of them once.                                                           *)
(***************************************************************************)
EXTENDS OnlineDecodeAttention, LayerKernels, BoundedSeqLemmas, FiniteSetTheorems, TLAPS

-----------------------------------------------------------------------------
(* Partitions *)

\* As many partitions as it takes.
LEMMA CeilDivFacts ==
  ASSUME NEW a \in Nat, NEW b \in Nat \ {0}
  PROVE  /\ CeilDiv(a, b) \in Nat
         /\ a <= CeilDiv(a, b) * b
         /\ \A k \in Nat : k * b < a <=> k < CeilDiv(a, b)
<1> DEFINE q == a \div b
           r == a % b
           c == CeilDiv(a, b)
<1>1. q \in Nat /\ r \in 0 .. b - 1 /\ a = b * q + r
  BY Division
<1>2. c = q + IF r = 0 THEN 0 ELSE 1
  BY DEF CeilDiv
<1> HIDE DEF q, r, c
<1>3. c \in Nat
  BY <1>1, <1>2
<1>4. b * q \in Nat /\ b * (q + 1) = b * q + b
  BY <1>1, SMT
<1>5. ASSUME NEW k \in Nat PROVE k * b < a <=> k < c
  <2>0. k * b = b * k /\ b * k \in Nat
    BY SMT
  <2>1. CASE k >= q + 1
    <3>1. b * (q + 1) <= b * k
      BY <1>1, <2>1, Grows
    <3> QED
      BY <1>1, <1>2, <1>4, <2>0, <2>1, <3>1
  <2>2. CASE k = q
    BY <1>1, <1>2, <1>4, <2>0, <2>2
  <2>3. CASE k < q
    <3>1. b * (k + 1) <= b * q /\ b * (k + 1) = b * k + b
      BY <1>1, <2>3, Grows, SMT
    <3> QED
      BY <1>1, <1>2, <1>4, <2>0, <2>3, <3>1
  <2> QED
    BY <1>1, <2>1, <2>2, <2>3
<1>6. a <= c * b
  <2>1. ~ (c * b < a)
    BY <1>3, <1>5
  <2>2. c * b \in Nat
    BY <1>3, SMT
  <2> QED
    BY <2>1, <2>2
<1> QED
  BY <1>3, <1>5, <1>6 DEF c

LEMMA CeilDivMonotone ==
  ASSUME NEW a \in Nat, NEW d \in Nat, NEW b \in Nat \ {0}, a <= d
  PROVE  CeilDiv(a, b) <= CeilDiv(d, b)
<1> SUFFICES ASSUME CeilDiv(d, b) < CeilDiv(a, b) PROVE FALSE
  BY CeilDivFacts
<1>1. CeilDiv(d, b) \in Nat /\ CeilDiv(a, b) \in Nat
  BY CeilDivFacts
<1>2. CeilDiv(d, b) * b < a
  BY <1>1, CeilDivFacts
<1>3. d <= CeilDiv(d, b) * b /\ CeilDiv(d, b) * b \in Nat
  BY <1>1, CeilDivFacts, SMT
<1> QED
  BY <1>2, <1>3

-----------------------------------------------------------------------------
(* Buckets *)

\* What the doubling loop does with a bucket, from each number on.
Doubles(context, grow) ==
  grow = [b \in Nat |-> IF b < context /\ b < MaxContext THEN grow[2 * b] ELSE b]

DoublesFrom(context, n, grow) ==
  \A b \in Nat : b >= n =>
    grow[b] = IF b < context /\ b < MaxContext THEN grow[2 * b] ELSE b

\* There is such a function: it is fixed from the longest context on, and
\* before a number by what it is after it.
LEMMA GrowExists ==
  ASSUME NEW context \in Nat
  PROVE  \E grow : Doubles(context, grow)
<1> DEFINE T == {n \in Nat : \E grow \in [Nat -> Nat] : DoublesFrom(context, n, grow)}
<1>1. MaxContext \in T
  <2> DEFINE grow == [b \in Nat |-> b]
  <2>1. grow \in [Nat -> Nat] /\ MaxContext \in Nat
    BY DecodePlanAssumption
  <2>2. DoublesFrom(context, MaxContext, grow)
    BY DecodePlanAssumption DEF DoublesFrom
  <2> QED
    BY <2>1, <2>2
<1>2. ASSUME NEW n \in Nat, n + 1 \in T PROVE n \in T
  <2>1. PICK g \in [Nat -> Nat] : DoublesFrom(context, n + 1, g)
    BY <1>2
  <2>2. CASE n < context /\ n < MaxContext
    <3> DEFINE grow == [g EXCEPT ![n] = g[2 * n]]
    <3>1. grow \in [Nat -> Nat]
      BY <2>1
    <3>2. ASSUME NEW b \in Nat, b >= n
          PROVE  grow[b] = IF b < context /\ b < MaxContext THEN grow[2 * b] ELSE b
      <4>1. CASE b = n
        <5>1. grow[b] = g[2 * n] /\ grow[2 * n] = g[2 * n]
          BY <2>1, <4>1
        <5> QED
          BY <2>2, <4>1, <5>1
      <4>2. CASE b # n
        <5>1. b >= n + 1 /\ 2 * b # n /\ 2 * b \in Nat
          BY <3>2, <4>2
        <5>2. g[b] = IF b < context /\ b < MaxContext THEN g[2 * b] ELSE b
          BY <2>1, <5>1 DEF DoublesFrom
        <5>3. grow[b] = g[b] /\ grow[2 * b] = g[2 * b]
          BY <2>1, <4>2, <5>1
        <5> QED
          BY <5>2, <5>3
      <4> QED
        BY <4>1, <4>2
    <3> HIDE DEF grow
    <3>3. DoublesFrom(context, n, grow)
      BY <3>2 DEF DoublesFrom
    <3> QED
      BY <3>1, <3>3
  <2>3. CASE ~(n < context /\ n < MaxContext)
    <3> DEFINE grow == [g EXCEPT ![n] = n]
    <3>1. grow \in [Nat -> Nat]
      BY <2>1
    <3>2. ASSUME NEW b \in Nat, b >= n
          PROVE  grow[b] = IF b < context /\ b < MaxContext THEN grow[2 * b] ELSE b
      <4>1. CASE b = n
        BY <2>1, <2>3, <4>1
      <4>2. CASE b # n
        <5>1. b >= n + 1 /\ 2 * b # n /\ 2 * b \in Nat
          BY <3>2, <4>2
        <5>2. g[b] = IF b < context /\ b < MaxContext THEN g[2 * b] ELSE b
          BY <2>1, <5>1 DEF DoublesFrom
        <5>3. grow[b] = g[b] /\ grow[2 * b] = g[2 * b]
          BY <2>1, <4>2, <5>1
        <5> QED
          BY <5>2, <5>3
      <4> QED
        BY <4>1, <4>2
    <3> HIDE DEF grow
    <3>3. DoublesFrom(context, n, grow)
      BY <3>2 DEF DoublesFrom
    <3> QED
      BY <3>1, <3>3
  <2> QED
    BY <2>2, <2>3
<1> HIDE DEF T
<1>3. T \in SUBSET Nat
  BY DEF T
<1>4. 0 \in T
  BY <1>1, <1>2, <1>3, DownTo
<1>5. PICK grow \in [Nat -> Nat] : DoublesFrom(context, 0, grow)
  BY <1>4 DEF T
<1>6. \A b \in Nat :
        grow[b] = IF b < context /\ b < MaxContext THEN grow[2 * b] ELSE b
  BY <1>5 DEF DoublesFrom
<1>7. Doubles(context, grow)
  BY <1>5, <1>6 DEF Doubles
<1> QED
  BY <1>7

\* A bucket that has stopped growing holds the context or the longest one.
LEMMA GrowStops ==
  ASSUME NEW context \in Nat, NEW grow, Doubles(context, grow), NEW n \in Nat \ {0}
  PROVE  /\ grow[n] \in Nat
         /\ grow[n] >= context \/ grow[n] >= MaxContext
<1> DEFINE Good(b) == grow[b] \in Nat /\ (grow[b] >= context \/ grow[b] >= MaxContext)
           T == {k \in Nat : \A b \in Nat \ {0} : b >= k => Good(b)}
<1>0. MaxContext \in Nat
  BY DecodePlanAssumption
<1>1. \A b \in Nat :
        grow[b] = IF b < context /\ b < MaxContext THEN grow[2 * b] ELSE b
  BY DEF Doubles
<1>2. MaxContext \in T
  BY <1>0, <1>1
<1>3. ASSUME NEW k \in Nat, k + 1 \in T PROVE k \in T
  <2> SUFFICES ASSUME NEW b \in Nat \ {0}, b >= k PROVE Good(b)
    OBVIOUS
  <2>1. CASE b >= k + 1
    BY <1>3, <2>1
  <2>2. CASE b = k
    <3>1. 2 * b \in Nat \ {0} /\ 2 * b >= k + 1
      BY <2>2
    <3>2. Good(2 * b)
      BY <1>3, <3>1
    <3>3. CASE b < context /\ b < MaxContext
      <4>1. grow[b] = grow[2 * b]
        BY <1>1, <3>3
      <4> QED
        BY <3>2, <4>1
    <3>4. CASE ~(b < context /\ b < MaxContext)
      BY <1>0, <1>1, <3>4
    <3> QED
      BY <3>3, <3>4
  <2> QED
    BY <2>1, <2>2
<1>4. T \in SUBSET Nat
  OBVIOUS
<1> HIDE DEF T
<1>5. 0 \in T
  BY <1>2, <1>3, <1>4, DownTo
<1> QED
  BY <1>5 DEF T

\* A bucket holds the context it is chosen for and is never longer than the
\* session's.
LEMMA BucketFacts ==
  ASSUME NEW context \in 1 .. MaxContext
  PROVE  ContextBucket(context) \in context .. MaxContext
<1> DEFINE grow == CHOOSE g : Doubles(context, g)
           bucket == grow[MinContextBucket]
<1>1. Doubles(context, grow)
  BY GrowExists, DecodePlanAssumption
<1>2. ContextBucket(context) = IF bucket < MaxContext THEN bucket ELSE MaxContext
  BY DEF ContextBucket, Doubles
<1> HIDE DEF grow
<1>3. bucket \in Nat /\ (bucket >= context \/ bucket >= MaxContext)
  BY <1>1, GrowStops, DecodePlanAssumption
<1> QED
  BY <1>2, <1>3, DecodePlanAssumption

-----------------------------------------------------------------------------
(* Plans and variants *)

\* A plan has the partitions its context needs, and slots for them.
LEMMA PlanFits ==
  ASSUME NEW p \in Position, Partition # 0
  PROVE  /\ EagerPlan(p).partition = Partition /\ EagerPlan(p).threshold = Partition
         /\ EagerPlan(p).capacity \in Nat \ {0} /\ MaxPartitions \in Nat
         /\ CeilDiv(p + 1, Partition) <= EagerPlan(p).capacity
         /\ EagerPlan(p).capacity <= MaxPartitions
<1> DEFINE bucket == ContextBucket(p + 1)
<1>1. p + 1 \in 1 .. MaxContext /\ Partition \in Nat \ {0} /\ MaxContext \in Nat
  BY DecodePlanAssumption DEF Position
<1>2. bucket \in p + 1 .. MaxContext /\ bucket \in Nat
  BY <1>1, BucketFacts
<1>3. /\ EagerPlan(p).partition = Partition /\ EagerPlan(p).threshold = Partition
      /\ EagerPlan(p).capacity = CeilDiv(bucket, Partition)
      /\ MaxPartitions = CeilDiv(MaxContext, Partition)
  BY DEF EagerPlan, OnlineDecodePlan, MaxPartitions
<1> HIDE DEF bucket
<1>4. /\ CeilDiv(p + 1, Partition) <= CeilDiv(bucket, Partition)
      /\ CeilDiv(bucket, Partition) <= CeilDiv(MaxContext, Partition)
  BY <1>1, <1>2, CeilDivMonotone
<1>5. /\ CeilDiv(bucket, Partition) \in Nat /\ CeilDiv(MaxContext, Partition) \in Nat
      /\ CeilDiv(p + 1, Partition) \in Nat
  <2>1. \A a \in Nat : CeilDiv(a, Partition) \in Nat
    BY <1>1, CeilDivFacts
  <2> QED
    BY <1>1, <1>2, <2>1
<1>6. 0 < CeilDiv(p + 1, Partition)
  <2>1. 0 \in Nat /\ 0 * Partition < p + 1 /\ p + 1 \in Nat
    BY <1>1, SMT
  <2> QED
    BY <1>1, <2>1, CeilDivFacts
<1> QED
  BY <1>3, <1>4, <1>5, <1>6

\* The positions at which a variant has been opened.
Opened(p) == {x \in 0 .. p : OpensVariant(x)}

LEMMA OpenedFacts ==
  ASSUME NEW p \in Nat
  PROVE  /\ IsFiniteSet(Opened(p)) /\ VariantIndex[p] = Cardinality(Opened(p))
         /\ VariantIndex[p] \in Nat
<1>1. IsFiniteSet(0 .. p)
  BY FS_Interval
<1>2. Opened(p) \in SUBSET (0 .. p)
  BY DEF Opened
<1>3. IsFiniteSet(Opened(p))
  BY <1>1, <1>2, FS_Subset
<1> QED
  BY <1>3, FS_CardinalityType DEF VariantIndex, Opened

\* Positions of one variant have one plan.
LEMMA VariantsShareAPlan ==
  ASSUME Partition # 0, NEW p \in Nat, NEW q \in Nat, FirstSplitPosition <= p, p <= q,
         VariantIndex[p] = VariantIndex[q]
  PROVE  EagerPlan(p) = EagerPlan(q)
<1>1. Opened(p) \in SUBSET Opened(q)
  BY DEF Opened
<1>2. Opened(p) = Opened(q)
  BY <1>1, OpenedFacts, FS_Subset
<1>0. FirstSplitPosition \in Nat
  BY DecodePlanAssumption DEF FirstSplitPosition
<1> DEFINE T == {k \in Nat : p + k <= q => EagerPlan(p + k) = EagerPlan(p)}
<1>3. 0 \in T
  OBVIOUS
<1>4. ASSUME NEW k \in T PROVE k + 1 \in T
  <2> SUFFICES ASSUME p + (k + 1) <= q PROVE EagerPlan(p + (k + 1)) = EagerPlan(p)
    OBVIOUS
  <2> DEFINE x == p + (k + 1)
  <2>1. x \in 0 .. q /\ x \notin 0 .. p /\ x - 1 = p + k /\ p + k <= q
    OBVIOUS
  <2>2. ~ OpensVariant(x)
    BY <1>2, <2>1 DEF Opened
  <2>3. x >= FirstSplitPosition /\ x > FirstSplitPosition
    BY <1>0
  <2>4. EagerPlan(x) = EagerPlan(x - 1)
    BY <2>2, <2>3 DEF OpensVariant
  <2> QED
    BY <2>1, <2>4
<1> HIDE DEF T
<1>5. T = Nat
  <2>1. T \in SUBSET Nat
    BY DEF T
  <2> QED
    BY <1>3, <1>4, <2>1, UpFrom
<1>6. q - p \in T /\ p + (q - p) = q
  BY <1>5
<1> QED
  BY <1>6 DEF T

\* The graph replayed at a position was created with the plan of that position,
\* or for a single block where an eager decode takes one.
LEMMA VariantServes ==
  ASSUME NEW q \in Position
  PROVE  VariantPlan(VariantIndex[q]) =
           IF Partition = 0 \/ q < FirstSplitPosition THEN OnlineDecodePlan(0, 1)
           ELSE EagerPlan(q)
<1>1. q \in Nat
  BY DecodePlanAssumption DEF Position
<1>2. ASSUME NEW p \in Nat
      PROVE  VariantIndex[p] = 0 <=> Partition = 0 \/ p < FirstSplitPosition
  <2>1. VariantIndex[p] = 0 <=> Opened(p) = {}
    BY OpenedFacts, FS_EmptySet
  <2>2. CASE Partition = 0 \/ p < FirstSplitPosition
    <3>1. \A x \in 0 .. p : ~ OpensVariant(x)
      BY <2>2, DecodePlanAssumption DEF OpensVariant, FirstSplitPosition
    <3>2. Opened(p) = {}
      BY <3>1 DEF Opened
    <3> QED
      BY <2>1, <2>2, <3>2
  <2>3. CASE ~(Partition = 0 \/ p < FirstSplitPosition)
    <3>1. FirstSplitPosition \in 0 .. p
      BY <2>3, DecodePlanAssumption DEF FirstSplitPosition
    <3>2. OpensVariant(FirstSplitPosition)
      BY <2>3, <3>1 DEF OpensVariant
    <3> QED
      BY <2>1, <2>3, <3>1, <3>2 DEF Opened
  <2> QED
    BY <2>2, <2>3
<1>3. CASE Partition = 0 \/ q < FirstSplitPosition
  BY <1>1, <1>2, <1>3 DEF VariantPlan
<1>4. CASE ~(Partition = 0 \/ q < FirstSplitPosition)
  <2> DEFINE v == VariantIndex[q]
             First(p) == /\ VariantIndex[p] = v
                         /\ \A r \in Position : VariantIndex[r] = v => p <= r
             T == {p \in Position : VariantIndex[p] = v}
  <2>1. v # 0
    BY <1>1, <1>2, <1>4
  <2>2. T \in SUBSET Nat /\ T # {}
    BY DecodePlanAssumption DEF Position
  <2>3. \E p \in Position : First(p)
    <3>1. PICK p \in T : \A r \in T : p <= r
      BY <2>2, LeastNatural
    <3> QED
      BY <3>1
  <2> DEFINE c == CHOOSE p \in Position : First(p)
  <2>4. c \in Position /\ First(c)
    BY <2>3
  <2>5. VariantPlan(v) = EagerPlan(c)
    BY <2>1 DEF VariantPlan
  <2> HIDE DEF c
  <2>6. c \in Nat /\ c <= q /\ VariantIndex[c] = v
    BY <2>4, DecodePlanAssumption DEF Position
  <2>7. Partition # 0 /\ FirstSplitPosition <= c
    BY <1>2, <1>4, <2>1, <2>6, DecodePlanAssumption DEF FirstSplitPosition
  <2>8. EagerPlan(c) = EagerPlan(q)
    BY <1>1, <2>6, <2>7, VariantsShareAPlan
  <2> QED
    BY <1>4, <2>5, <2>8
<1> QED
  BY <1>3, <1>4

-----------------------------------------------------------------------------
(* The invariant of a launch *)

\* The step at position q is one of the partition and merge kernels.
Splits(q) == Partition # 0 /\ q + 1 >= Partition

\* What the kernels need of the plan they run with at position q.
GoodPlan(p, q) ==
  /\ p.capacity \in Nat \ {0} /\ p.threshold \in Nat
  /\ Splits(q) => /\ p.partition = Partition /\ p.threshold = Partition
                  /\ CeilDiv(q + 1, Partition) <= p.capacity
                  /\ p.capacity <= MaxPartitions
  /\ ~ Splits(q) => /\ p.threshold = 0 \/ q + 1 < p.threshold
                    /\ p.partition # 0 => q + 1 < p.threshold

Share(part) ==
  [tokens |-> part * Partition .. PartitionEnd(part * Partition) - 1, fresh |-> TRUE]

WholeContext == [h \in Heads |-> 0 .. position]

AttentionTypeOK ==
  /\ position \in 0 .. MaxContext
  /\ pc \in {"idle", "append", "model", "partition", "merge", "done"}
  /\ pending \subseteq 0 .. QueryHeads * plan.capacity - 1
  /\ pc # "partition" => pending = {}
  /\ partial \in [Slot -> [tokens : SUBSET Nat, fresh : BOOLEAN]]

\* A launch is at a position with room, with a plan that serves it.
LaunchOK ==
  /\ pc # "idle" => position < MaxContext /\ GoodPlan(plan, position)
  /\ pc \in {"partition", "merge"} => plan.partition # 0

CacheOK ==
  /\ \A t \in Nat : t < position => t \in cache
  /\ pc \in {"model", "partition", "merge", "done"} => position \in cache

\* The blocks that have run have written the shares that are not empty.
SharesOK ==
  pc \in {"partition", "merge"} /\ Splits(position) =>
    \A h \in Heads : \A part \in 0 .. plan.capacity - 1 :
      h * plan.capacity + part \notin pending /\ part * Partition < Context
        => partial[h * MaxPartitions + part] = Share(part)

OutputOK ==
  /\ pc \in {"partition", "merge"} /\ ~ Splits(position) =>
       writer = "model" /\ covered = WholeContext
  /\ pc = "done" => /\ covered = WholeContext
                    /\ writer = IF Splits(position) THEN "merge" ELSE "model"

AttentionInv == AttentionTypeOK /\ LaunchOK /\ CacheOK /\ SharesOK /\ OutputOK

LEMMA InvInit == Init => AttentionInv
<1> SUFFICES ASSUME Init PROVE AttentionInv
  OBVIOUS
<1>1. AttentionTypeOK
  BY DecodePlanAssumption DEF Init, AttentionTypeOK
<1>2. LaunchOK /\ CacheOK /\ SharesOK /\ OutputOK
  BY DEF Init, LaunchOK, CacheOK, SharesOK, OutputOK
<1> QED
  BY <1>1, <1>2 DEF AttentionInv

\* The plan of an eager launch and the plan of the mapped graph both serve.
LEMMA PlansServe ==
  ASSUME position \in Position
  PROVE  /\ GoodPlan(EagerPlan(position), position)
         /\ GoodPlan(VariantPlan(VariantIndex[position]), position)
<1>1. position \in Nat /\ position + 1 \in 1 .. MaxContext
  BY DecodePlanAssumption DEF Position
<1>2. GoodPlan(EagerPlan(position), position)
  <2>1. CASE Partition # 0
    <3>1. EagerPlan(position).partition = Partition /\ EagerPlan(position).threshold = Partition
      BY DEF EagerPlan, OnlineDecodePlan
    <3> QED
      BY <1>1, <2>1, <3>1, PlanFits, DecodePlanAssumption DEF GoodPlan, Splits
  <2>2. CASE Partition = 0
    BY <2>2 DEF GoodPlan, Splits, EagerPlan, OnlineDecodePlan
  <2> QED
    BY <2>1, <2>2
<1>3. CASE Partition = 0 \/ position < FirstSplitPosition
  <2>1. ~ Splits(position)
    BY <1>1, <1>3, DecodePlanAssumption DEF Splits, FirstSplitPosition
  <2>2. GoodPlan(OnlineDecodePlan(0, 1), position)
    BY <2>1 DEF GoodPlan, OnlineDecodePlan
  <2> QED
    BY <1>2, <1>3, <2>2, VariantServes
<1>4. CASE ~(Partition = 0 \/ position < FirstSplitPosition)
  BY <1>2, <1>4, VariantServes
<1> QED
  BY <1>3, <1>4

LEMMA LaunchStep ==
  ASSUME AttentionInv, LaunchEager \/ LaunchGraph
  PROVE  AttentionInv'
<1>1. /\ pc = "idle" /\ pc' = "append" /\ position < MaxContext /\ position \in 0 .. MaxContext
      /\ pending = {}
      /\ partial \in [Slot -> [tokens : SUBSET Nat, fresh : BOOLEAN]]
  BY DEF LaunchEager, LaunchGraph, Launch, AttentionInv, AttentionTypeOK
<1>2. UNCHANGED <<position, pending, cache>>
  BY DEF LaunchEager, LaunchGraph, Launch
<1>3. partial' = [s \in Slot |-> [partial[s] EXCEPT !.fresh = FALSE]]
  BY DEF LaunchEager, LaunchGraph, Launch
<1>4. position \in Position
  BY <1>1, DecodePlanAssumption DEF Position
<1>5. GoodPlan(plan', position)
  BY <1>4, PlansServe DEF LaunchEager, LaunchGraph, Launch
<1>6. AttentionTypeOK'
  BY <1>1, <1>2, <1>3 DEF AttentionTypeOK
<1>7. LaunchOK'
  BY <1>1, <1>2, <1>5 DEF LaunchOK, GoodPlan, Splits
<1>8. CacheOK' /\ SharesOK' /\ OutputOK'
  BY <1>1, <1>2 DEF AttentionInv, CacheOK, SharesOK, OutputOK
<1> QED
  BY <1>6, <1>7, <1>8 DEF AttentionInv

LEMMA AppendStep ==
  ASSUME AttentionInv, AppendCache
  PROVE  AttentionInv'
<1>1. AttentionTypeOK'
  BY DEF AttentionInv, AttentionTypeOK, AppendCache
<1>2. LaunchOK'
  BY DEF AttentionInv, LaunchOK, AppendCache, GoodPlan, Splits
<1>3. CacheOK'
  BY DEF AttentionInv, CacheOK, AppendCache
<1>4. SharesOK' /\ OutputOK'
  BY DEF SharesOK, OutputOK, AppendCache
<1> QED
  BY <1>1, <1>2, <1>3, <1>4 DEF AttentionInv

LEMMA BlockNumbers ==
  ASSUME NEW m \in Nat \ {0}, NEW h \in Heads, NEW part \in 0 .. m - 1
  PROVE  h * m + part \in 0 .. QueryHeads * m - 1
<1>1. h \in Nat /\ QueryHeads \in Nat /\ h + 1 <= QueryHeads
  BY QueryHeadsAssumption DEF Heads
<1>2. m * (h + 1) <= m * QueryHeads
  BY <1>1, Grows
<1>3. m * (h + 1) = h * m + m /\ m * QueryHeads = QueryHeads * m
      /\ h * m \in Nat /\ QueryHeads * m \in Nat
  BY <1>1, SMT
<1> QED
  BY <1>2, <1>3

LEMMA ModelStep ==
  ASSUME AttentionInv, ModelKernel
  PROVE  AttentionInv'
<1>1. /\ pc = "model" /\ position \in Nat /\ position < MaxContext
      /\ GoodPlan(plan, position)
      /\ UNCHANGED <<position, plan, cache, partial>>
  BY DecodePlanAssumption DEF AttentionInv, AttentionTypeOK, LaunchOK, ModelKernel
<1>2. /\ plan.partition = 0 => pc' = "done" /\ pending' = pending
      /\ plan.partition # 0 =>
           pc' = "partition" /\ pending' = 0 .. QueryHeads * plan.capacity - 1
  BY DEF ModelKernel
<1>3. SingleBlockServes <=> ~ Splits(position)
  <2>1. CASE Splits(position)
    BY <1>1, <2>1, DecodePlanAssumption DEF GoodPlan, Splits, SingleBlockServes, Context
  <2>2. CASE ~ Splits(position)
    BY <1>1, <2>2 DEF GoodPlan, SingleBlockServes, Context
  <2> QED
    BY <2>1, <2>2
<1>4. ~ Splits(position) => writer' = "model" /\ covered' = WholeContext'
  BY <1>1, <1>3 DEF ModelKernel, WholeContext
<1>5. Splits(position) => plan.partition # 0
  BY <1>1 DEF GoodPlan, Splits
<1>6. AttentionTypeOK'
  BY <1>1, <1>2 DEF AttentionInv, AttentionTypeOK
<1>7. LaunchOK'
  BY <1>1, <1>2 DEF LaunchOK, GoodPlan, Splits
<1>8. CacheOK'
  BY <1>1, <1>2 DEF AttentionInv, CacheOK
<1>9. SharesOK'
  <2> SUFFICES ASSUME plan.partition # 0, NEW h \in Heads,
                      NEW part \in 0 .. plan.capacity - 1
               PROVE  h * plan.capacity + part \in pending'
    BY <1>1, <1>2 DEF SharesOK
  <2>1. plan.capacity \in Nat \ {0}
    BY <1>1 DEF GoodPlan
  <2> QED
    BY <1>2, <2>1, BlockNumbers
<1>10. OutputOK'
  <2>1. Splits(position)' = Splits(position)
    BY <1>1 DEF Splits
  <2> QED
    BY <1>2, <1>4, <1>5, <2>1 DEF OutputOK
<1> QED
  BY <1>6, <1>7, <1>8, <1>9, <1>10 DEF AttentionInv

\* A block of the partition kernel where the step is split.
LEMMA SplitBlock ==
  ASSUME AttentionInv, Splits(position), NEW block \in pending, PartitionBlock(block)
  PROVE  /\ partial' \in [Slot -> [tokens : SUBSET Nat, fresh : BOOLEAN]]
         /\ \A h \in Heads : \A part \in 0 .. plan.capacity - 1 :
              h * plan.capacity + part \notin pending' /\ part * Partition < Context
                => partial'[h * MaxPartitions + part] = Share(part)
<1> DEFINE n == plan.capacity
           M == MaxPartitions
           head == block \div n
           part0 == block % n
           slot == head * M + part0
<1>1. /\ pc = "partition" /\ position \in Position /\ Partition \in Nat \ {0}
      /\ block \in pending /\ pending' = pending \ {block}
      /\ UNCHANGED <<position, plan>>
  BY DecodePlanAssumption DEF PartitionBlock, AttentionInv, AttentionTypeOK, LaunchOK,
     Position, Splits
<1>2. /\ n \in Nat \ {0} /\ plan.partition = Partition /\ plan.threshold = Partition
      /\ n <= M
  BY <1>1 DEF AttentionInv, LaunchOK, GoodPlan
<1>3. M \in Nat \ {0} /\ QueryHeads \in Nat \ {0}
  BY <1>1, <1>2, PlanFits, QueryHeadsAssumption
<1>4. block \in 0 .. QueryHeads * n - 1
  BY <1>1 DEF AttentionInv, AttentionTypeOK
<1>5. QueryHeads * n \in Nat
  BY <1>2, <1>3, SMT
<1>6. block \in Nat /\ head \in Nat /\ part0 \in 0 .. n - 1 /\ block = n * head + part0
  <2>1. block \in Nat
    BY <1>4, <1>5
  <2> QED
    BY <1>2, <2>1, Division
<1>7. partial \in [Slot -> [tokens : SUBSET Nat, fresh : BOOLEAN]]
  BY DEF AttentionInv, AttentionTypeOK
<1>8. IF part0 * Partition >= Context THEN partial' = partial
      ELSE partial' = [partial EXCEPT ![slot] = Share(part0)]
  <2>1. ~(Context < plan.threshold)
    BY <1>1, <1>2, DecodePlanAssumption DEF Splits, Context, Position
  <2> QED
    BY <1>2, <2>1 DEF PartitionBlock, ShareIsEmpty, Share
<1> HIDE DEF n, head, part0, slot, M
<1>9. head \in Heads
  <2> SUFFICES ASSUME head >= QueryHeads PROVE FALSE
    BY <1>3, <1>6 DEF Heads
  <2>1. n * QueryHeads <= n * head /\ n * head \in Nat
    BY <1>2, <1>3, <1>6, Grows
  <2>2. n * QueryHeads = QueryHeads * n
    BY <1>2, <1>3, SMT
  <2> QED
    BY <1>4, <1>5, <1>6, <2>1, <2>2
<1>10. \A h \in Heads : \A part \in 0 .. n - 1 : h * M + part \in Slot
  <2>1. \A part \in 0 .. n - 1 : part \in 0 .. M - 1
    BY <1>2, <1>3
  <2> QED
    BY <1>3, <2>1, BlockNumbers DEF Slot, M
<1>11. part0 * Partition \in Nat /\ Context \in Nat
  BY <1>1, <1>2, <1>6, DecodePlanAssumption, SMT DEF Context, Position
<1>12. Share(part0) \in [tokens : SUBSET Nat, fresh : BOOLEAN]
  <2>1. part0 * Partition .. PartitionEnd(part0 * Partition) - 1 \in SUBSET Nat
    <3> DEFINE b == part0 * Partition
    <3>1. b \in Nat
      BY <1>11
    <3> HIDE DEF b
    <3>2. PartitionEnd(b) \in Nat
      BY <1>1, <1>2, <1>11, <3>1 DEF PartitionEnd
    <3>3. b .. PartitionEnd(b) - 1 \in SUBSET Nat
      BY <3>1, <3>2
    <3> QED
      BY <3>3 DEF b
  <2> QED
    BY <2>1 DEF Share
<1>13. partial' \in [Slot -> [tokens : SUBSET Nat, fresh : BOOLEAN]]
  BY <1>7, <1>8, <1>12
<1>14. ASSUME NEW h \in Heads, NEW part \in 0 .. n - 1,
              h * n + part \notin pending', part * Partition < Context
       PROVE  partial'[h * M + part] = Share(part)
  <2>0. h \in Nat /\ slot \in Slot /\ h * M + part \in Slot
    BY <1>6, <1>9, <1>10, QueryHeadsAssumption DEF Heads, slot
  <2>1. CASE h * n + part = block
    <3>1. h = head /\ part = part0
      BY <1>2, <2>0, <2>1, DivisionUnique DEF head, part0
    <3> QED
      BY <1>7, <1>8, <1>11, <1>14, <2>0, <3>1 DEF slot
  <2>2. CASE h * n + part # block
    <3>1. h * n + part \notin pending
      BY <1>1, <1>14, <2>2
    <3>2. partial[h * M + part] = Share(part)
      BY <1>1, <1>14, <3>1 DEF AttentionInv, SharesOK, n, M
    <3>3. h * M + part # slot
      <4> SUFFICES ASSUME h * M + part = slot PROVE FALSE
        OBVIOUS
      <4>1. part \in 0 .. M - 1 /\ part0 \in 0 .. M - 1
        BY <1>2, <1>3, <1>6
      <4>2. h = slot \div M /\ part = slot % M
        BY <1>3, <2>0, <4>1, DivisionUnique
      <4>3. head = slot \div M /\ part0 = slot % M
        BY <1>3, <1>6, <4>1, DivisionUnique DEF slot
      <4>4. h * n + part = n * head + part0
        <5>1. h = head /\ part = part0
          BY <4>2, <4>3
        <5>2. h * n = n * h
          BY <1>2, <2>0, SMT
        <5> QED
          BY <5>1, <5>2
      <4> QED
        BY <1>6, <2>2, <4>4
    <3> QED
      BY <1>7, <1>8, <2>0, <3>2, <3>3
  <2> QED
    BY <2>1, <2>2
<1> QED
  BY <1>13, <1>14 DEF n, M

LEMMA BlockStep ==
  ASSUME AttentionInv, NEW block \in pending, PartitionBlock(block)
  PROVE  AttentionInv'
<1>1. /\ pc = "partition" /\ pending' = pending \ {block}
      /\ position \in 0 .. MaxContext /\ position < MaxContext
      /\ UNCHANGED <<position, plan, pc, cache, covered, writer>>
      /\ GoodPlan(plan, position)
  BY DEF PartitionBlock, AttentionInv, AttentionTypeOK, LaunchOK
<1>2. ~ Splits(position) => partial' = partial
  <2> SUFFICES ASSUME ~ Splits(position) PROVE partial' = partial
    OBVIOUS
  <2>1. plan.partition # 0
    BY <1>1 DEF AttentionInv, LaunchOK
  <2>2. Context < plan.threshold
    BY <1>1, <2>1 DEF GoodPlan, Context
  <2> QED
    BY <2>2 DEF PartitionBlock
<1>3. partial' \in [Slot -> [tokens : SUBSET Nat, fresh : BOOLEAN]]
  <2>1. CASE Splits(position)
    BY <2>1, SplitBlock
  <2>2. CASE ~ Splits(position)
    BY <1>2, <2>2 DEF AttentionInv, AttentionTypeOK
  <2> QED
    BY <2>1, <2>2
<1>4. AttentionTypeOK'
  BY <1>1, <1>3 DEF AttentionInv, AttentionTypeOK
<1>5. LaunchOK' /\ CacheOK'
  BY <1>1 DEF AttentionInv, LaunchOK, CacheOK, GoodPlan, Splits
<1>6. SharesOK'
  <2> SUFFICES ASSUME Splits(position) PROVE SharesOK'
    BY <1>1 DEF SharesOK, Splits
  <2>1. Context' = Context /\ \A part : Share(part)' = Share(part)
    BY <1>1 DEF Context, Share, PartitionEnd
  <2>2. \A h \in Heads : \A part \in 0 .. plan.capacity - 1 :
          h * plan.capacity + part \notin pending' /\ part * Partition < Context
            => partial'[h * MaxPartitions + part] = Share(part)
    BY SplitBlock
  <2> QED
    BY <1>1, <2>1, <2>2 DEF SharesOK
<1>7. OutputOK'
  <2>1. Splits(position)' = Splits(position) /\ WholeContext' = WholeContext
    BY <1>1 DEF Splits, WholeContext
  <2> QED
    BY <1>1, <2>1 DEF AttentionInv, OutputOK
<1> QED
  BY <1>4, <1>5, <1>6, <1>7 DEF AttentionInv

LEMMA PartitionDoneStep ==
  ASSUME AttentionInv, PartitionDone
  PROVE  AttentionInv'
<1>1. /\ pc = "partition" /\ pc' = "merge" /\ pending = {}
      /\ UNCHANGED <<position, plan, pending, cache, partial, covered, writer>>
  BY DEF PartitionDone
<1>2. AttentionTypeOK' /\ LaunchOK' /\ CacheOK'
  BY <1>1 DEF AttentionInv, AttentionTypeOK, LaunchOK, CacheOK, GoodPlan, Splits
<1>3. SharesOK'
  <2>1. Context' = Context /\ \A part : Share(part)' = Share(part)
    BY <1>1 DEF Context, Share, PartitionEnd
  <2> QED
    BY <1>1, <2>1 DEF AttentionInv, SharesOK, Splits
<1>4. OutputOK'
  BY <1>1 DEF AttentionInv, OutputOK, Splits, WholeContext
<1> QED
  BY <1>2, <1>3, <1>4 DEF AttentionInv

\* The slots the merge kernel reads are written, and cover the context.
LEMMA MergeReads ==
  ASSUME AttentionInv, pc = "merge", Splits(position)
  PROVE  /\ plan.partition = Partition /\ plan.threshold = Partition
         /\ ActivePartitions <= plan.capacity /\ ~(Context < plan.threshold)
         /\ ActivePartitions \in Nat /\ plan.capacity \in Nat
         /\ \A h \in Heads : \A s \in HeadSlots(h) : partial[s].fresh
         /\ \A h \in Heads : UNION {partial[s].tokens : s \in HeadSlots(h)} = 0 .. position
<1>1. /\ position \in Nat /\ Partition \in Nat \ {0} /\ position + 1 >= Partition
      /\ pending = {}
  BY DecodePlanAssumption DEF AttentionInv, AttentionTypeOK, Splits
<1>2. /\ plan.capacity \in Nat /\ plan.partition = Partition /\ plan.threshold = Partition
      /\ ActivePartitions <= plan.capacity
  BY DEF AttentionInv, LaunchOK, GoodPlan, ActivePartitions, Context
<1> DEFINE n == ActivePartitions
<1>3. /\ n \in Nat /\ Context \in Nat /\ Context = position + 1
      /\ \A k \in Nat : k * Partition < Context <=> k < n
  BY <1>1, <1>2, CeilDivFacts DEF ActivePartitions, Context
<1> HIDE DEF n
<1>4. ASSUME NEW h \in Heads, NEW part \in 0 .. n - 1
      PROVE  partial[h * MaxPartitions + part] = Share(part)
  <2>1. part \in 0 .. plan.capacity - 1 /\ part \in Nat
    BY <1>2, <1>3 DEF n
  <2>2. part * Partition < Context
    BY <1>3, <2>1
  <2> QED
    BY <1>1, <2>1, <2>2 DEF AttentionInv, SharesOK
<1>5. \A h \in Heads : HeadSlots(h) = {h * MaxPartitions + part : part \in 0 .. n - 1}
  BY DEF HeadSlots, n
<1>6. \A h \in Heads : \A s \in HeadSlots(h) : partial[s].fresh
  <2> TAKE h \in Heads
  <2> TAKE s \in HeadSlots(h)
  <2>1. PICK part \in 0 .. n - 1 : s = h * MaxPartitions + part
    BY <1>5
  <2>2. partial[s] = Share(part)
    BY <1>4, <2>1
  <2>3. Share(part).fresh
    BY DEF Share
  <2> QED
    BY ONLY <2>2, <2>3, Zenon
<1>7. \A part \in 0 .. n - 1 :
        Share(part).tokens =
          {t \in Nat : part * Partition <= t /\ t < part * Partition + Partition
                       /\ t < Context}
  <2> TAKE part \in 0 .. n - 1
  <2> DEFINE b == part * Partition
  <2>1. part \in Nat /\ b \in Nat
    BY <1>1, <1>3, SMT
  <2> HIDE DEF b
  <2>2. PartitionEnd(b) = IF Context < b + Partition THEN Context ELSE b + Partition
    BY <1>2 DEF PartitionEnd
  <2>3. b .. PartitionEnd(b) - 1 = {t \in Nat : b <= t /\ t < b + Partition /\ t < Context}
    BY <1>1, <1>3, <2>1, <2>2
  <2>4. Share(part).tokens = b .. PartitionEnd(b) - 1
    BY DEF Share, b
  <2> QED
    BY <2>3, <2>4 DEF b
<1>8. ASSUME NEW h \in Heads, NEW t \in 0 .. position
      PROVE  \E s \in HeadSlots(h) : t \in partial[s].tokens
  <2> DEFINE part == t \div Partition
             r == t % Partition
  <2>1. t \in Nat /\ t < Context
    BY <1>1, <1>3
  <2>2. part \in Nat /\ r \in 0 .. Partition - 1 /\ t = Partition * part + r
    BY <1>1, <2>1, Division
  <2> HIDE DEF part, r
  <2>3. Partition * part = part * Partition /\ part * Partition \in Nat
    BY <1>1, <2>2, SMT
  <2>4. part * Partition <= t /\ t < part * Partition + Partition
    BY <1>1, <2>2, <2>3
  <2>5. part * Partition < Context
    BY <1>3, <2>1, <2>3, <2>4
  <2>6. part \in 0 .. n - 1
    BY <1>3, <2>2, <2>5
  <2>7. t \in Share(part).tokens
    BY <1>7, <2>1, <2>4, <2>6
  <2>8. h * MaxPartitions + part \in HeadSlots(h)
    BY <1>5, <2>6
  <2> QED
    BY <1>4, <2>6, <2>7, <2>8
<1>9. ASSUME NEW h \in Heads, NEW s \in HeadSlots(h), NEW t \in partial[s].tokens
      PROVE  t \in 0 .. position
  <2>1. PICK part \in 0 .. n - 1 : s = h * MaxPartitions + part
    BY <1>5
  <2>2. t \in Share(part).tokens
    BY <1>4, <1>9, <2>1
  <2> QED
    BY <1>1, <1>3, <1>7, <2>2
<1>10. \A h \in Heads : UNION {partial[s].tokens : s \in HeadSlots(h)} = 0 .. position
  BY <1>8, <1>9
<1>11. ~(Context < plan.threshold)
  BY <1>1, <1>2, <1>3
<1> QED
  BY <1>2, <1>3, <1>6, <1>10, <1>11 DEF n

LEMMA MergeStep ==
  ASSUME AttentionInv, MergeKernel
  PROVE  AttentionInv'
<1>1. /\ pc = "merge" /\ pending = {}
      /\ UNCHANGED <<position, plan, pending, cache, partial>>
  BY DEF MergeKernel, AttentionInv, AttentionTypeOK
<1>2. /\ pc' = "done"
      /\ covered' = WholeContext
      /\ writer' = IF Splits(position) THEN "merge" ELSE "model"
  <2>1. CASE Splits(position)
    <3>1. /\ ~(Context < plan.threshold) /\ ~(ActivePartitions > plan.capacity)
          /\ \A h \in Heads :
               UNION {partial[s].tokens : s \in HeadSlots(h)} = 0 .. position
      BY <1>1, <2>1, MergeReads
    <3>2. /\ pc' = "done" /\ writer' = "merge"
          /\ covered' = [h \in Heads |-> UNION {partial[s].tokens : s \in HeadSlots(h)}]
      BY <3>1 DEF MergeKernel
    <3> QED
      BY <2>1, <3>1, <3>2 DEF WholeContext
  <2>2. CASE ~ Splits(position)
    <3>1. plan.partition # 0 /\ GoodPlan(plan, position)
      BY <1>1 DEF AttentionInv, LaunchOK
    <3>2. Context < plan.threshold
      BY <2>2, <3>1 DEF GoodPlan, Context
    <3>3. pc' = "done" /\ covered' = covered /\ writer' = writer
      BY <3>2 DEF MergeKernel
    <3> QED
      BY <1>1, <2>2, <3>3 DEF AttentionInv, OutputOK
  <2> QED
    BY <2>1, <2>2
<1>3. AttentionTypeOK' /\ LaunchOK' /\ CacheOK'
  BY <1>1, <1>2 DEF AttentionInv, AttentionTypeOK, LaunchOK, CacheOK, GoodPlan, Splits
<1>4. SharesOK'
  BY <1>2 DEF SharesOK
<1>5. OutputOK'
  BY <1>1, <1>2 DEF OutputOK, Splits, WholeContext
<1> QED
  BY <1>3, <1>4, <1>5 DEF AttentionInv

LEMMA BetweenStep ==
  ASSUME AttentionInv, NextPosition \/ Reset
  PROVE  AttentionInv'
<1>1. CASE NextPosition
  <2>1. /\ pc = "done" /\ pc' = "idle" /\ position' = position + 1 /\ pending = {}
        /\ position \in Nat /\ position < MaxContext
        /\ UNCHANGED <<plan, pending, cache, partial, covered, writer>>
    BY <1>1, DecodePlanAssumption DEF NextPosition, AttentionInv, AttentionTypeOK, LaunchOK
  <2>2. AttentionTypeOK'
    BY <2>1, DecodePlanAssumption DEF AttentionInv, AttentionTypeOK
  <2>3. CacheOK'
    BY <2>1 DEF AttentionInv, CacheOK
  <2>4. LaunchOK' /\ SharesOK' /\ OutputOK'
    BY <2>1 DEF LaunchOK, SharesOK, OutputOK
  <2> QED
    BY <2>2, <2>3, <2>4 DEF AttentionInv
<1>2. CASE Reset
  <2>1. /\ pc = "idle" /\ pc' = "idle" /\ position' = 0 /\ cache' = {}
        /\ UNCHANGED <<plan, pc, pending, partial, covered, writer>>
    BY <1>2 DEF Reset
  <2>2. AttentionTypeOK'
    BY <2>1, DecodePlanAssumption DEF AttentionInv, AttentionTypeOK
  <2>3. LaunchOK' /\ CacheOK' /\ SharesOK' /\ OutputOK'
    BY <2>1 DEF LaunchOK, CacheOK, SharesOK, OutputOK
  <2> QED
    BY <2>2, <2>3 DEF AttentionInv
<1> QED
  BY <1>1, <1>2

-----------------------------------------------------------------------------
(* The theorems *)

\* The invariant of a launch, for every context, bucket, partition size and
\* number of heads: in particular the merge kernel never traps.
THEOREM AttentionInvariant == Spec => []AttentionInv
<1>1. AttentionInv /\ [Next]_vars => AttentionInv'
  <2> SUFFICES ASSUME AttentionInv, [Next]_vars PROVE AttentionInv'
    OBVIOUS
  <2>1. CASE UNCHANGED vars
    <3>1. /\ AttentionTypeOK' = AttentionTypeOK /\ LaunchOK' = LaunchOK
          /\ CacheOK' = CacheOK /\ OutputOK' = OutputOK
      BY <2>1 DEF vars, AttentionTypeOK, LaunchOK, CacheOK, OutputOK, GoodPlan, Splits,
         WholeContext
    <3>2. SharesOK' = SharesOK
      BY <2>1 DEF vars, SharesOK, Splits, Share, PartitionEnd, Context
    <3> QED
      BY <3>1, <3>2 DEF AttentionInv
  <2> QED
    BY <2>1, LaunchStep, AppendStep, ModelStep, BlockStep, PartitionDoneStep, MergeStep,
       BetweenStep DEF Next
<1> QED
  BY InvInit, <1>1, PTL DEF Spec

\* Whatever the lengths, the attention of a decode step is computed from the
\* whole context and from nothing else, and the merge kernel combines partial
\* results of its own launch only, though earlier ones stay in the workspace.
THEOREM WholeContextAttended == Spec => []AttendsWholeContext
<1>1. AttentionInv => AttendsWholeContext
  <2> SUFFICES ASSUME AttentionInv PROVE AttendsWholeContext
    OBVIOUS
  <2>1. ASSUME pc = "done"
        PROVE  (\A h \in Heads : covered[h] = 0 .. position) /\ 0 .. position \subseteq cache
    <3>1. covered = WholeContext /\ position \in Nat
      BY <2>1, DecodePlanAssumption DEF AttentionInv, OutputOK, AttentionTypeOK
    <3>2. \A t \in 0 .. position : t \in cache
      BY <2>1, <3>1 DEF AttentionInv, CacheOK
    <3> QED
      BY <3>1, <3>2 DEF WholeContext
  <2>2. ASSUME pc = "merge", Context >= plan.threshold
        PROVE  \A h \in Heads : \A s \in HeadSlots(h) : partial[s].fresh
    <3>1. CASE Splits(position)
      BY <2>2, <3>1, MergeReads
    <3>2. CASE ~ Splits(position)
      <4>1. plan.partition # 0 /\ GoodPlan(plan, position) /\ position \in Nat
        BY <2>2, DecodePlanAssumption DEF AttentionInv, LaunchOK, AttentionTypeOK
      <4>2. Context < plan.threshold /\ plan.threshold \in Nat /\ Context \in Nat
        BY <3>2, <4>1 DEF GoodPlan, Context
      <4> QED
        BY <2>2, <4>2
    <3> QED
      BY <3>1, <3>2
  <2> QED
    BY <2>1, <2>2 DEF AttendsWholeContext
<1> QED
  BY AttentionInvariant, <1>1, PTL

\* A replay computes its attention with the kernel an eager decode at the same
\* position computes it with.
THEOREM ReplayComputesAsEager == Spec => []SameKernelAsEager
<1>1. AttentionInv => SameKernelAsEager
  BY DEF AttentionInv, OutputOK, SameKernelAsEager, Splits, Context
<1> QED
  BY AttentionInvariant, <1>1, PTL

-----------------------------------------------------------------------------
(* Grids: the floats of a thread *)

\* A number of two digits, the second below b.
LEMMA Digits ==
  ASSUME NEW n \in Nat, NEW b \in Nat, NEW q \in 0..(n - 1), NEW r \in 0..(b - 1)
  PROVE  /\ q \in Nat /\ r \in Nat /\ n \in Nat \ {0} /\ b \in Nat \ {0}
         /\ q * b \in Nat /\ n * b \in Nat
         /\ q * b + r \in Nat /\ q * b + r < n * b
<1>1. q \in Nat /\ r \in Nat /\ q + 1 \in Nat /\ q + 1 <= n /\ n > 0 /\ b > 0
  OBVIOUS
<1>2. b * (q + 1) <= b * n /\ b * n \in Nat
  BY <1>1, Grows
<1>3. b * (q + 1) = q * b + b /\ b * n = n * b /\ q * b \in Nat
  BY <1>1, SMT
<1> QED
  BY <1>1, <1>2, <1>3

\* Its digits are the only ones.
LEMMA DigitsApart ==
  ASSUME NEW b \in Nat, NEW q \in Nat, NEW p \in Nat, NEW r \in 0..(b - 1), NEW s \in 0..(b - 1),
         q * b + r = p * b + s
  PROVE  q = p /\ r = s
<1>1. b \in Nat \ {0}
  OBVIOUS
<1>2. (q * b + r) \div b = q /\ (q * b + r) % b = r
  BY <1>1, DivisionUnique
<1>3. (p * b + s) \div b = p /\ (p * b + s) % b = s
  BY <1>1, DivisionUnique
<1> QED
  BY <1>2, <1>3

\* A number below n * b has a first digit below n and a second below b.
LEMMA DigitsOf ==
  ASSUME NEW n \in Nat, NEW b \in Nat \ {0}, NEW x \in Nat, x < n * b
  PROVE  x \div b \in 0..(n - 1) /\ x % b \in 0..(b - 1) /\ x = ((x \div b) * b) + (x % b)
<1> DEFINE q == x \div b
           r == x % b
<1>1. q \in Nat /\ r \in 0..(b - 1) /\ x = b * q + r
  BY Division
<1> HIDE DEF q, r
<1>2. b * q = q * b /\ q * b \in Nat /\ b * n = n * b /\ n * b \in Nat
  BY <1>1, SMT
<1>3. q < n
  <2> SUFFICES ASSUME n <= q PROVE FALSE
    BY <1>1
  <2>1. b * n <= b * q
    BY <1>1, Grows
  <2> QED BY <1>1, <1>2, <2>1
<1>4. x = q * b + r /\ q \in 0..(n - 1)
  BY <1>1, <1>2, <1>3
<1> QED
  BY <1>1, <1>4 DEF q, r

-----------------------------------------------------------------------------
(* The gated delta kernels *)

\* What Init grants of the shape of a delta layer.
DeltaFields(a) ==
  /\ {a.hidden, a.keyHeads, a.valueHeads, a.keyDim, a.valueDim, a.width} \subseteq Nat
  /\ Delta!ValidArgs(a)

\* The sizes of a valid shape are products of its fields, and none is zero.
LEMMA DeltaShapeFacts ==
  ASSUME NEW a, DeltaFields(a)
  PROVE  /\ a.hidden \in Nat \ {0} /\ a.keyHeads \in Nat \ {0} /\ a.valueHeads \in Nat \ {0}
         /\ a.keyDim \in Nat \ {0} /\ a.valueDim \in Nat \ {0} /\ a.width \in Nat \ {0}
         /\ Delta!KeySize(a) \in Nat /\ Delta!ValueSize(a) \in Nat
         /\ Delta!ValueSize(a) = a.valueHeads * a.valueDim
         /\ Delta!KeySize(a) = a.keyHeads * a.keyDim
         /\ Delta!ValueSize(a) = a.hidden
         /\ Delta!ConvDim(a) = 2 * Delta!KeySize(a) + Delta!ValueSize(a)
         /\ Delta!ConvDim(a) \in Nat
<1>1. /\ a.hidden \in Nat \ {0} /\ a.keyHeads \in Nat \ {0} /\ a.valueHeads \in Nat \ {0}
      /\ a.keyDim \in Nat \ {0} /\ a.valueDim \in Nat \ {0} /\ a.width \in Nat \ {0}
      /\ Delta!ValueSize(a) = a.hidden
  BY DEF DeltaFields, Delta!ValidArgs
<1>2. Delta!ValueSize(a) = a.valueHeads * a.valueDim /\ Delta!KeySize(a) = a.keyHeads * a.keyDim
  BY DEF Delta!ValueSize, Delta!KeySize
<1>3. a.keyHeads * a.keyDim \in Nat
  BY <1>1, SMT
<1>4. Delta!ConvDim(a) = 2 * Delta!KeySize(a) + Delta!ValueSize(a)
  BY DEF Delta!ConvDim
<1> QED
  BY <1>1, <1>2, <1>3, <1>4

\* Nothing the first thread writes is written or read by the second.
Apart(kernel_, a, p, n, t, u) ==
  Delta!Writes(kernel_, a, p, n, t) \cap
    (Delta!Writes(kernel_, a, p, n, u) \cup Delta!Reads(kernel_, a, p, n, u)) = {}

\* The floats a caller owes a kernel in an array.
Floats(a, n, array_) ==
  CASE array_ = "work" -> n * (Delta!ConvDim(a) + a.hidden)
    [] array_ = "output" -> n * a.hidden
    [] array_ = "history" -> Delta!ConvDim(a) * (a.width - 1)
    [] array_ = "recurrent" -> Delta!ValueSize(a) * a.keyDim

\* What a thread touches is in those.
Within(kernel_, a, p, n, t) ==
  \A cell \in Delta!Writes(kernel_, a, p, n, t) \cup Delta!Reads(kernel_, a, p, n, t) :
    cell[2] < Floats(a, n, cell[1])

\* What the threads of each kernel write and read.
LEMMA DeltaFloats ==
  ASSUME NEW a, NEW p, NEW n, NEW t
  PROVE  /\ Delta!Reads("convolution", a, p, n, t) =
              {<<"history", t * (a.width - 1) + h>> : h \in 0..(a.width - 2)}
         /\ Delta!Writes("convolution", a, p, n, t) =
              {<<"work", Delta!Conv(a, j, t)>> : j \in 0..(n - 1)} \cup
              Delta!Reads("convolution", a, p, n, t)
         /\ Delta!Writes("normalize", a, p, n, t) =
              {<<"work", Delta!VectorBase(a, t) + d>> : d \in 0..(a.keyDim - 1)}
         /\ Delta!Reads("normalize", a, p, n, t) = Delta!Writes("normalize", a, p, n, t)
         /\ Delta!Writes("output", a, p, n, t) =
              {<<"output", t * a.valueDim + v>> : v \in 0..(a.valueDim - 1)}
         /\ Delta!Reads("output", a, p, n, t) =
              {<<"work", Delta!RawCell(a, n, t \div a.valueHeads, t % a.valueHeads, v)>> :
                 v \in 0..(a.valueDim - 1)}
<1>1. Delta!Reads("convolution", a, p, n, t) =
        {<<"history", t * (a.width - 1) + h>> : h \in 0..(a.width - 2)}
  BY DEF Delta!Reads, Delta!Recurrent
<1>2. Delta!Writes("convolution", a, p, n, t) =
        {<<"work", Delta!Conv(a, j, t)>> : j \in 0..(n - 1)} \cup
        {<<"history", t * (a.width - 1) + h>> : h \in 0..(a.width - 2)}
  BY DEF Delta!Writes, Delta!Recurrent
<1>3. Delta!Writes("normalize", a, p, n, t) =
        {<<"work", Delta!VectorBase(a, t) + d>> : d \in 0..(a.keyDim - 1)}
  BY DEF Delta!Writes, Delta!Recurrent
<1>4. Delta!Reads("normalize", a, p, n, t) = Delta!Writes("normalize", a, p, n, t)
  BY DEF Delta!Reads, Delta!Recurrent
<1>5. Delta!Writes("output", a, p, n, t) =
        {<<"output", t * a.valueDim + v>> : v \in 0..(a.valueDim - 1)}
  BY DEF Delta!Writes, Delta!Recurrent
<1>6. Delta!Reads("output", a, p, n, t) =
        {<<"work", Delta!RawCell(a, n, t \div a.valueHeads, t % a.valueHeads, v)>> :
           v \in 0..(a.valueDim - 1)}
  BY DEF Delta!Reads, Delta!Recurrent
<1> QED
  BY ONLY <1>1, <1>2, <1>3, <1>4, <1>5, <1>6

\* And those of the recurrence, by the column a thread has.
LEMMA RecurrentFloats ==
  ASSUME NEW k_ \in Delta!Recurrent, NEW a, NEW p, NEW n, NEW t, NEW c, c = Delta!ColumnOf(k_, a, t)
  PROVE  /\ Delta!Writes(k_, a, p, n, t) =
              {<<"recurrent", Delta!StateCell(a, c.head, k, c.v)>> : k \in 0..(a.keyDim - 1)} \cup
              {<<"work", Delta!RawCell(a, n, j, c.head, c.v)>> : j \in 0..(Delta!Steps(p, n) - 1)}
         /\ \A cell \in Delta!Reads(k_, a, p, n, t) :
              \E j \in 0..(Delta!Steps(p, n) - 1), k \in 0..(a.keyDim - 1) :
                cell \in {<<"work", Delta!QueryCell(a, j, c.head, k)>>,
                          <<"work", Delta!KeyCell(a, j, c.head, k)>>,
                          <<"work", Delta!ValueCell(a, j, c.head, c.v)>>,
                          <<"recurrent", Delta!StateCell(a, c.head, k, c.v)>>}
<1>1. k_ \in {"tiled", "register", "register_128"}
  BY DEF Delta!Recurrent
<1>2. Delta!Writes(k_, a, p, n, t) =
        {<<"recurrent", Delta!StateCell(a, c.head, k, c.v)>> : k \in 0..(a.keyDim - 1)} \cup
        {<<"work", Delta!RawCell(a, n, j, c.head, c.v)>> : j \in 0..(Delta!Steps(p, n) - 1)}
  BY <1>1 DEF Delta!Writes, Delta!Recurrent
<1>3. Delta!Reads(k_, a, p, n, t) =
        UNION {{<<"work", Delta!QueryCell(a, j, c.head, k)>>,
                <<"work", Delta!KeyCell(a, j, c.head, k)>>,
                <<"work", Delta!ValueCell(a, j, c.head, c.v)>>,
                <<"recurrent", Delta!StateCell(a, c.head, k, c.v)>>} :
                  j \in 0..(Delta!Steps(p, n) - 1), k \in 0..(a.keyDim - 1)}
  BY <1>1 DEF Delta!Reads, Delta!Recurrent
<1> QED
  BY ONLY <1>2, <1>3

\* The threads of a grid that covers m numbers.
LEMMA BlocksCover ==
  ASSUME NEW m \in Nat \ {0}, NEW b \in Nat \ {0}
  PROVE  Delta!Blocks(m, b) \in Nat \ {0}
<1>1. m \div b \in Nat /\ m % b \in 0..(b - 1) /\ m = b * (m \div b) + (m % b)
  BY Division
<1>2. CASE m % b = 0
  <2>1. m \div b # 0
    BY <1>1, <1>2
  <2> QED BY <1>1, <1>2, <2>1 DEF Delta!Blocks
<1>3. CASE m % b # 0
  BY <1>1, <1>3 DEF Delta!Blocks
<1> QED
  BY <1>2, <1>3

\* A thread of the convolution has a channel of its own.
LEMMA ConvolutionApart ==
  ASSUME NEW a, DeltaFields(a), NEW p, NEW n \in Nat,
         NEW t \in Delta!Threads("convolution", a, n)
  PROVE  /\ Within("convolution", a, p, n, t)
         /\ \A u \in Delta!Threads("convolution", a, n) :
              t # u => Apart("convolution", a, p, n, t, u)
<1> DEFINE D == Delta!ConvDim(a)
           w == a.width - 1
           C == "convolution"
<1>1. D \in Nat /\ w \in Nat /\ a.hidden \in Nat /\ a.width - 2 = w - 1
  BY DeltaShapeFacts
<1>2. \A u \in Delta!Threads(C, a, n) : u \in 0..(D - 1)
  <2> SUFFICES ASSUME NEW u \in Delta!Threads(C, a, n) PROVE u \in 0..(D - 1)
    OBVIOUS
  <2>1. u \in {c \in 0..(Delta!Blocks(D, ConvolutionBlock) * ConvolutionBlock - 1) : c < D}
    BY DEF Delta!Threads
  <2> QED BY <1>1, <2>1
<1>4. /\ \A x : Delta!Reads(C, a, p, n, x) = {<<"history", x * w + h>> : h \in 0..(w - 1)}
      /\ \A x : Delta!Writes(C, a, p, n, x) =
           {<<"work", Delta!Conv(a, j, x)>> : j \in 0..(n - 1)} \cup Delta!Reads(C, a, p, n, x)
  BY <1>1, DeltaFloats
<1> HIDE DEF D, w
<1>3. \A j \in 0..(n - 1) : \A u \in 0..(D - 1) : Delta!Conv(a, j, u) = j * D + u
  BY DEF Delta!Conv, D
<1>5. Within(C, a, p, n, t)
  <2>1. ASSUME NEW j \in 0..(n - 1) PROVE Delta!Conv(a, j, t) < n * (D + a.hidden)
    <3>1. j * D + t < n * D /\ n * D \in Nat
      BY <1>1, <1>2, Digits
    <3>2. n * (D + a.hidden) = n * D + n * a.hidden /\ n * a.hidden \in Nat /\ j * D \in Nat
      BY <1>1, SMT
    <3> QED BY <1>1, <1>2, <1>3, <3>1, <3>2
  <2>2. ASSUME NEW h \in 0..(w - 1) PROVE t * w + h < D * w
    BY <1>1, <1>2, Digits
  <2>3. \A cell \in Delta!Reads(C, a, p, n, t) : cell[1] = "history" /\ cell[2] < D * w
    BY <2>2, <1>4
  <2>4. \A cell \in Delta!Writes(C, a, p, n, t) :
          \/ cell[1] = "history" /\ cell[2] < D * w
          \/ cell[1] = "work" /\ cell[2] < n * (D + a.hidden)
    BY <2>1, <2>3, <1>4
  <2> QED BY <2>3, <2>4 DEF Within, Floats, D, w
<1>6. ASSUME NEW u \in Delta!Threads(C, a, n), t # u PROVE Apart(C, a, p, n, t, u)
  <2>1. ASSUME NEW j \in 0..(n - 1), NEW i \in 0..(n - 1) PROVE Delta!Conv(a, j, t) # Delta!Conv(a, i, u)
    <3>1. j \in Nat /\ i \in Nat /\ t \in 0..(D - 1) /\ u \in 0..(D - 1)
      BY <1>2
    <3>2. j * D + t # i * D + u
      BY ONLY <3>1, <1>1, <1>6, DigitsApart
    <3> QED BY <3>1, <3>2, <1>3
  <2>2. ASSUME NEW h \in 0..(w - 1), NEW g \in 0..(w - 1) PROVE t * w + h # u * w + g
    <3>1. t \in Nat /\ u \in Nat
      BY <1>1, <1>2
    <3> QED BY ONLY <3>1, <1>1, <1>6, <2>2, DigitsApart
  <2> QED BY <2>1, <2>2, <1>4 DEF Apart
<1> QED
  BY <1>5, <1>6

\* Products of naturals commute and are natural.
LEMMA Multiplied ==
  ASSUME NEW x \in Int, NEW y \in Int, NEW z \in Int
  PROVE  /\ (x * y) * z = x * (y * z) /\ x * y = y * x /\ x * (y + z) = x * y + x * z
         /\ x * (y - z) = x * y - x * z /\ x * y \in Int
BY SMT

\* The vectors of all tokens are rows of one array, queries before keys.
LEMMA VectorCells ==
  ASSUME NEW a, DeltaFields(a), NEW n \in Nat, NEW b \in 0..(n * 2 * a.keyHeads - 1),
         NEW d \in 0..(a.keyDim - 1),
         NEW token, token = b \div (2 * a.keyHeads), NEW vector, vector = b % (2 * a.keyHeads)
  PROVE  /\ token \in 0..(n - 1) /\ vector \in 0..(2 * a.keyHeads - 1)
         /\ b = token * (2 * a.keyHeads) + vector
         /\ vector * a.keyDim + d \in 0..(Delta!ConvDim(a) - 1)
         /\ Delta!VectorBase(a, b) + d = token * Delta!ConvDim(a) + (vector * a.keyDim + d)
<1> DEFINE m == 2 * a.keyHeads
           D == Delta!ConvDim(a)
           K == Delta!KeySize(a)
           e == vector * a.keyDim
<1>1. /\ m \in Nat \ {0} /\ a.keyDim \in Nat \ {0} /\ a.keyHeads \in Nat \ {0}
      /\ D \in Nat /\ K \in Nat /\ K = a.keyHeads * a.keyDim /\ 2 * K <= D
  BY DeltaShapeFacts
<1>2. b \in Nat /\ b < n * m
  <2>1. n * 2 * a.keyHeads = n * m
    BY <1>1, Multiplied
  <2>2. n * m \in Nat
    BY <1>1, SMT
  <2> QED BY <2>1, <2>2
<1>3. token = b \div m /\ vector = b % m
  OBVIOUS
<1>4. Delta!VectorBase(a, b) =
        Delta!Conv(a, token, IF vector < a.keyHeads THEN e ELSE K + (vector - a.keyHeads) * a.keyDim)
  BY DEF Delta!VectorBase
<1>5. \A c : Delta!Conv(a, token, c) = token * D + c
  BY DEF Delta!Conv
<1>6. m * a.keyDim = 2 * K
  BY <1>1, Multiplied
<1> HIDE DEF m, D, K, e
<1>7. token \in 0..(n - 1) /\ vector \in 0..(m - 1) /\ b = token * m + vector
  BY ONLY <1>1, <1>2, <1>3, n \in Nat, DigitsOf
<1>8. e \in Nat /\ e + d < 2 * K
  BY <1>1, <1>6, <1>7, Digits DEF e
<1>9. K + (vector - a.keyHeads) * a.keyDim = e
  <2>1. vector \in Int /\ a.keyHeads \in Int /\ a.keyDim \in Int /\ vector - a.keyHeads \in Int
    BY <1>1, <1>7
  <2>2. /\ (vector - a.keyHeads) * a.keyDim = a.keyDim * (vector - a.keyHeads)
        /\ a.keyDim * (vector - a.keyHeads) = a.keyDim * vector - a.keyDim * a.keyHeads
        /\ a.keyDim * vector = vector * a.keyDim /\ a.keyDim * a.keyHeads = a.keyHeads * a.keyDim
    BY <2>1, Multiplied
  <2> QED BY <1>1, <1>8, <2>2 DEF e
<1>10. token * D \in Nat
  BY <1>1, <1>7, SMT
<1>11. Delta!VectorBase(a, b) = token * D + e
  BY <1>4, <1>5, <1>9
<1>12. e + d \in 0..(D - 1) /\ (token * D + e) + d = token * D + (e + d)
  BY <1>1, <1>8, <1>10
<1> QED
  BY <1>7, <1>11, <1>12 DEF m, D, e

\* A block of the normalization has a vector of its own, of queries or of keys.
LEMMA NormalizeApart ==
  ASSUME NEW a, DeltaFields(a), NEW p, NEW n \in Nat,
         NEW t \in Delta!Threads("normalize", a, n)
  PROVE  /\ Within("normalize", a, p, n, t)
         /\ \A u \in Delta!Threads("normalize", a, n) :
              t # u => Apart("normalize", a, p, n, t, u)
<1> DEFINE D == Delta!ConvDim(a)
           m == 2 * a.keyHeads
           B == Delta!VectorBase(a, t)
<1>1. D \in Nat /\ m \in Nat \ {0} /\ a.hidden \in Nat /\ a.keyDim \in Nat
  BY DeltaShapeFacts
<1>2. Delta!Threads("normalize", a, n) = 0..(n * 2 * a.keyHeads - 1)
  BY DEF Delta!Threads
<1>3. Within("normalize", a, p, n, t)
  <2>1. ASSUME NEW d \in 0..(a.keyDim - 1) PROVE B + d < n * (D + a.hidden)
    <3> DEFINE token == t \div m
               within == (t % m) * a.keyDim + d
    <3>1. token \in 0..(n - 1) /\ within \in 0..(D - 1) /\ B + d = token * D + within
      <4>1. t \in 0..(n * 2 * a.keyHeads - 1)
        BY <1>2
      <4> QED BY ONLY <4>1, <2>1, DeltaFields(a), n \in Nat, VectorCells
    <3> HIDE DEF token, within, D, B
    <3>2. token * D + within < n * D /\ n * D \in Nat /\ token * D + within \in Nat
      BY <1>1, <3>1, Digits
    <3>3. n * (D + a.hidden) = n * D + n * a.hidden /\ n * a.hidden \in Nat
      BY <1>1, SMT
    <3> QED BY <3>1, <3>2, <3>3
  <2>2. \A cell \in Delta!Writes("normalize", a, p, n, t) \cup Delta!Reads("normalize", a, p, n, t) :
          \E d \in 0..(a.keyDim - 1) : cell = <<"work", B + d>>
    BY DeltaFloats
  <2>3. \A cell \in Delta!Writes("normalize", a, p, n, t) \cup Delta!Reads("normalize", a, p, n, t) :
          cell[1] = "work" /\ cell[2] < n * (D + a.hidden)
    BY <2>1, <2>2
  <2> QED BY <2>3 DEF Within, Floats
<1>4. ASSUME NEW u \in Delta!Threads("normalize", a, n), t # u PROVE Apart("normalize", a, p, n, t, u)
  <2> DEFINE C == Delta!VectorBase(a, u)
  <2>1. ASSUME NEW d \in 0..(a.keyDim - 1), NEW e \in 0..(a.keyDim - 1) PROVE B + d # C + e
    <3> DEFINE q == t \div m
               r == t % m
               x == u \div m
               y == u % m
    <3>1. /\ q \in 0..(n - 1) /\ r \in 0..(m - 1) /\ t = q * m + r
          /\ r * a.keyDim + d \in 0..(D - 1) /\ B + d = q * D + (r * a.keyDim + d)
      <4>1. t \in 0..(n * 2 * a.keyHeads - 1)
        BY <1>2
      <4> QED BY ONLY <4>1, <2>1, DeltaFields(a), n \in Nat, VectorCells
    <3>2. /\ x \in 0..(n - 1) /\ y \in 0..(m - 1) /\ u = x * m + y
          /\ y * a.keyDim + e \in 0..(D - 1) /\ C + e = x * D + (y * a.keyDim + e)
      <4>1. u \in 0..(n * 2 * a.keyHeads - 1)
        BY <1>2
      <4> QED BY ONLY <4>1, <2>1, DeltaFields(a), n \in Nat, VectorCells
    <3> HIDE DEF q, r, x, y, D, B, C
    <3>3. q # x \/ r # y
      BY ONLY <1>4, <3>1, <3>2
    <3>4. q \in Nat /\ x \in Nat /\ r \in Nat /\ y \in Nat
      BY <3>1, <3>2
    <3>5. r * a.keyDim + d # y * a.keyDim + e \/ r = y
      BY ONLY <1>1, <2>1, <3>4, DigitsApart
    <3>6. q * D + (r * a.keyDim + d) # x * D + (y * a.keyDim + e)
      <4> DEFINE f == r * a.keyDim + d
                 g == y * a.keyDim + e
      <4>1. (f # g \/ r = y) /\ f \in 0..(D - 1) /\ g \in 0..(D - 1)
        BY <3>1, <3>2, <3>5
      <4> HIDE DEF f, g
      <4>2. q * D + f = x * D + g => q = x /\ f = g
        BY ONLY <1>1, <3>4, <4>1, DigitsApart
      <4>3. q * D + f # x * D + g
        BY ONLY <4>1, <4>2, <3>3
      <4> QED BY <4>3 DEF f, g
    <3> QED BY ONLY <3>1, <3>2, <3>6
  <2>2. /\ Delta!Writes("normalize", a, p, n, t) = {<<"work", B + d>> : d \in 0..(a.keyDim - 1)}
        /\ Delta!Writes("normalize", a, p, n, u) = {<<"work", C + d>> : d \in 0..(a.keyDim - 1)}
        /\ Delta!Reads("normalize", a, p, n, u) = Delta!Writes("normalize", a, p, n, u)
    BY DeltaFloats
  <2> HIDE DEF B, C
  <2> QED BY <2>1, <2>2 DEF Apart
<1> QED
  BY <1>3, <1>4

\* Raw outputs lie behind the convolved tokens, in rows of their own.
LEMMA RawCells ==
  ASSUME NEW a, DeltaFields(a), NEW n \in Nat, NEW j \in 0..(n - 1),
         NEW head \in 0..(a.valueHeads - 1), NEW v \in 0..(a.valueDim - 1)
  PROVE  /\ head * a.valueDim + v \in 0..(Delta!ValueSize(a) - 1)
         /\ n * Delta!ConvDim(a) \in Nat /\ j * Delta!ValueSize(a) \in Nat
         /\ Delta!RawCell(a, n, j, head, v) =
              n * Delta!ConvDim(a) + (j * Delta!ValueSize(a) + (head * a.valueDim + v))
         /\ Delta!RawCell(a, n, j, head, v) < n * (Delta!ConvDim(a) + a.hidden)
         /\ Delta!RawCell(a, n, j, head, v) >= n * Delta!ConvDim(a)
<1> DEFINE D == Delta!ConvDim(a)
           V == Delta!ValueSize(a)
           c == head * a.valueDim + v
<1>1. /\ D \in Nat /\ V \in Nat /\ V = a.valueHeads * a.valueDim /\ V = a.hidden
      /\ a.valueHeads \in Nat /\ a.valueDim \in Nat
  BY DeltaShapeFacts
<1>2. c \in 0..(V - 1) /\ head * a.valueDim \in Nat /\ v \in Nat
  BY <1>1, Digits
<1>3. n * D \in Nat /\ j \in Nat /\ j * V \in Nat /\ n * V \in Nat
  BY <1>1, SMT
<1>4. Delta!RawCell(a, n, j, head, v) = n * D + (j * V + c)
  BY <1>2, <1>3 DEF Delta!RawCell
<1> HIDE DEF D, V, c
<1>5. j * V + c < n * V /\ j * V + c \in Nat
  BY <1>1, <1>2, Digits
<1>6. n * (D + a.hidden) = n * D + n * V
  BY <1>1, Multiplied
<1>7. Delta!RawCell(a, n, j, head, v) < n * (D + a.hidden) /\ Delta!RawCell(a, n, j, head, v) >= n * D
  BY <1>3, <1>4, <1>5, <1>6
<1> QED
  BY <1>2, <1>3, <1>4, <1>7 DEF D, V, c

\* A block of the output has a head of a token of its own, and reads what no block writes.
LEMMA OutputApart ==
  ASSUME NEW a, DeltaFields(a), NEW p, NEW n \in Nat,
         NEW t \in Delta!Threads("output", a, n)
  PROVE  /\ Within("output", a, p, n, t)
         /\ \A u \in Delta!Threads("output", a, n) :
              t # u => Apart("output", a, p, n, t, u)
<1> DEFINE q == t \div a.valueHeads
           r == t % a.valueHeads
<1>1. /\ a.valueHeads \in Nat \ {0} /\ a.valueDim \in Nat \ {0} /\ a.hidden \in Nat
      /\ a.hidden = a.valueHeads * a.valueDim
  BY DeltaShapeFacts
<1>2. Delta!Threads("output", a, n) = 0..(n * a.valueHeads - 1) /\ n * a.valueHeads \in Nat
  BY <1>1, SMT DEF Delta!Threads
<1>3. Within("output", a, p, n, t)
  <2>1. t \in Nat /\ t < n * a.valueHeads
    BY <1>2
  <2>2. q \in 0..(n - 1) /\ r \in 0..(a.valueHeads - 1)
    BY <1>1, <2>1, DigitsOf
  <2>3. ASSUME NEW v \in 0..(a.valueDim - 1) PROVE t * a.valueDim + v < n * a.hidden
    <3>1. t * a.valueDim + v < (n * a.valueHeads) * a.valueDim
      BY ONLY <1>1, <1>2, <2>3, t \in Delta!Threads("output", a, n), Digits
    <3>2. (n * a.valueHeads) * a.valueDim = n * a.hidden
      BY <1>1, Multiplied
    <3> QED BY <3>1, <3>2
  <2>4. ASSUME NEW v \in 0..(a.valueDim - 1)
        PROVE  Delta!RawCell(a, n, q, r, v) < n * (Delta!ConvDim(a) + a.hidden)
    BY <2>2, RawCells
  <2> HIDE DEF q, r
  <2>5. \A cell \in Delta!Writes("output", a, p, n, t) : cell[1] = "output" /\ cell[2] < n * a.hidden
    BY <2>3, DeltaFloats
  <2>6. \A cell \in Delta!Reads("output", a, p, n, t) :
          cell[1] = "work" /\ cell[2] < n * (Delta!ConvDim(a) + a.hidden)
    BY <2>4, DeltaFloats DEF q, r
  <2> QED BY <2>5, <2>6 DEF Within, Floats
<1>4. ASSUME NEW u \in Delta!Threads("output", a, n), t # u PROVE Apart("output", a, p, n, t, u)
  <2>1. ASSUME NEW v \in 0..(a.valueDim - 1), NEW w \in 0..(a.valueDim - 1)
        PROVE  t * a.valueDim + v # u * a.valueDim + w
    <3>1. t \in Nat /\ u \in Nat
      BY <1>2
    <3> QED BY ONLY <1>1, <1>4, <2>1, <3>1, DigitsApart
  <2>2. /\ Delta!Writes("output", a, p, n, t) = {<<"output", t * a.valueDim + v>> : v \in 0..(a.valueDim - 1)}
        /\ Delta!Writes("output", a, p, n, u) = {<<"output", u * a.valueDim + v>> : v \in 0..(a.valueDim - 1)}
        /\ \A cell \in Delta!Reads("output", a, p, n, u) : cell[1] = "work"
    BY DeltaFloats
  <2>3. \A cell \in Delta!Writes("output", a, p, n, t) : cell \notin Delta!Writes("output", a, p, n, u)
    BY <2>1, <2>2
  <2>4. \A cell \in Delta!Writes("output", a, p, n, t) : cell[1] = "output"
    BY <2>2
  <2> QED BY <2>2, <2>3, <2>4 DEF Apart
<1> QED
  BY <1>3, <1>4

\* A thread of the recurrence has a column of a head, and no other has that.
LEMMA ColumnFacts ==
  ASSUME NEW a, DeltaFields(a), NEW n \in Nat, NEW k_ \in Delta!Recurrent,
         NEW t \in Delta!Threads(k_, a, n)
  PROVE  /\ Delta!ColumnOf(k_, a, t).head \in 0..(a.valueHeads - 1)
         /\ Delta!ColumnOf(k_, a, t).v \in 0..(a.valueDim - 1)
         /\ \A u \in Delta!Threads(k_, a, n) :
              t # u => \/ Delta!ColumnOf(k_, a, t).head # Delta!ColumnOf(k_, a, u).head
                       \/ Delta!ColumnOf(k_, a, t).v # Delta!ColumnOf(k_, a, u).v
<1>1. /\ a.valueHeads \in Nat \ {0} /\ a.valueDim \in Nat \ {0}
      /\ ValueTile \in Nat \ {0} /\ Columns \in Nat \ {0}
  BY DeltaShapeFacts, KernelAssumption DEF Delta!GridAssumption
<1>2. CASE k_ = "tiled"
  <2> DEFINE m == Delta!Blocks(a.valueDim, ValueTile)
             Head_(x) == x[1] \div m
             Tile(x) == x[1] % m
             Col(x) == Tile(x) * ValueTile + x[2]
             T == Delta!Threads(k_, a, n)
  <2>1. m \in Nat \ {0}
    BY <1>1, BlocksCover
  <2>2. \A x : Delta!ColumnOf(k_, a, x).head = Head_(x) /\ Delta!ColumnOf(k_, a, x).v = Col(x)
    BY <1>2 DEF Delta!ColumnOf, Delta!TileColumn
  <2>3. T = {x \in (0..(a.valueHeads * m - 1)) \X (0..(ValueTile - 1)) :
               Delta!ColumnOf(k_, a, x).v < a.valueDim}
    BY <1>2 DEF Delta!Threads
  <2> HIDE DEF m
  <2>4. ASSUME NEW x \in T
        PROVE  /\ x = <<x[1], x[2]>> /\ x[1] \in Nat /\ x[2] \in 0..(ValueTile - 1)
               /\ Head_(x) \in 0..(a.valueHeads - 1) /\ Tile(x) \in 0..(m - 1)
               /\ x[1] = Head_(x) * m + Tile(x)
               /\ Col(x) \in 0..(a.valueDim - 1)
    <3>1. /\ x = <<x[1], x[2]>> /\ x[1] \in 0..(a.valueHeads * m - 1) /\ x[2] \in 0..(ValueTile - 1)
          /\ Delta!ColumnOf(k_, a, x).v < a.valueDim
      BY <2>3
    <3>2. x[1] \in Nat /\ x[1] < a.valueHeads * m
      <4>1. a.valueHeads * m \in Nat
        BY <1>1, <2>1, SMT
      <4> QED BY <3>1, <4>1
    <3>3. Head_(x) \in 0..(a.valueHeads - 1) /\ Tile(x) \in 0..(m - 1) /\ x[1] = (Head_(x) * m) + Tile(x)
      BY <1>1, <2>1, <3>2, DigitsOf
    <3> HIDE DEF Head_, Tile
    <3>4. Tile(x) * ValueTile \in Nat /\ x[2] \in Nat
      BY <1>1, <3>1, <3>3, SMT
    <3>5. Col(x) < a.valueDim
      BY <2>2, <3>1
    <3>6. Col(x) \in 0..(a.valueDim - 1)
      BY <1>1, <3>4, <3>5
    <3> QED BY <3>1, <3>2, <3>3, <3>6
  <2>5. ASSUME NEW u \in T, Head_(t) = Head_(u), Col(t) = Col(u) PROVE t = u
    <3>1. /\ t = <<t[1], t[2]>> /\ t[2] \in 0..(ValueTile - 1)
          /\ Tile(t) \in 0..(m - 1) /\ t[1] = Head_(t) * m + Tile(t)
      BY <2>4
    <3>2. /\ u = <<u[1], u[2]>> /\ u[2] \in 0..(ValueTile - 1)
          /\ Tile(u) \in 0..(m - 1) /\ u[1] = Head_(u) * m + Tile(u)
      BY <2>4
    <3>3. Tile(t) * ValueTile + t[2] = Tile(u) * ValueTile + u[2]
      BY <2>5
    <3> HIDE DEF Head_, Tile
    <3>4. Tile(t) \in Nat /\ Tile(u) \in Nat /\ ValueTile \in Nat
      BY <1>1, <3>1, <3>2
    <3>5. Tile(t) = Tile(u) /\ t[2] = u[2]
      BY ONLY <3>1, <3>2, <3>3, <3>4, DigitsApart
    <3>6. t[1] = u[1]
      BY <2>5, <3>1, <3>2, <3>5
    <3> QED BY <3>1, <3>2, <3>5, <3>6
  <2>6. Head_(t) \in 0..(a.valueHeads - 1) /\ Col(t) \in 0..(a.valueDim - 1)
    BY <2>4
  <2> HIDE DEF Head_, Col, T
  <2>7. \A u \in T : t # u => Head_(t) # Head_(u) \/ Col(t) # Col(u)
    BY <2>5
  <2> QED BY <2>2, <2>6, <2>7 DEF T
<1>3. CASE k_ \in {"register", "register_128"}
  <2> DEFINE Col(x) == x[2] * Columns + x[3]
             T == Delta!Threads(k_, a, n)
  <2>1. \A x : Delta!ColumnOf(k_, a, x).head = x[1] /\ Delta!ColumnOf(k_, a, x).v = Col(x)
    BY <1>3 DEF Delta!ColumnOf
  <2>2. T = {x \in (0..(a.valueHeads - 1)) \X (0..(Delta!Blocks(a.valueDim, Columns) - 1))
                   \X (0..(Columns - 1)) : Delta!ColumnOf(k_, a, x).v < a.valueDim}
    BY <1>3 DEF Delta!Threads
  <2>3. ASSUME NEW x \in T
        PROVE  /\ x = <<x[1], x[2], x[3]>> /\ x[1] \in 0..(a.valueHeads - 1) /\ x[2] \in Nat
               /\ x[3] \in 0..(Columns - 1) /\ Col(x) \in 0..(a.valueDim - 1)
    <3>1. /\ x = <<x[1], x[2], x[3]>> /\ x[1] \in 0..(a.valueHeads - 1) /\ x[2] \in Nat
          /\ x[3] \in 0..(Columns - 1) /\ Delta!ColumnOf(k_, a, x).v < a.valueDim
      BY <2>2
    <3>2. x[2] * Columns \in Nat /\ x[3] \in Nat
      BY <1>1, <3>1, SMT
    <3>3. Col(x) < a.valueDim
      BY <2>1, <3>1
    <3> QED BY <1>1, <3>1, <3>2, <3>3
  <2>4. ASSUME NEW u \in T, t[1] = u[1], Col(t) = Col(u) PROVE t = u
    <3>1. t = <<t[1], t[2], t[3]>> /\ t[2] \in Nat /\ t[3] \in 0..(Columns - 1)
      BY <2>3
    <3>2. u = <<u[1], u[2], u[3]>> /\ u[2] \in Nat /\ u[3] \in 0..(Columns - 1)
      BY <2>3
    <3>3. t[2] * Columns + t[3] = u[2] * Columns + u[3] /\ Columns \in Nat
      BY <1>1, <2>4
    <3>4. t[2] = u[2] /\ t[3] = u[3]
      BY ONLY <3>1, <3>2, <3>3, DigitsApart
    <3> QED BY <2>4, <3>1, <3>2, <3>4
  <2>5. t[1] \in 0..(a.valueHeads - 1) /\ Col(t) \in 0..(a.valueDim - 1)
    BY <2>3
  <2> HIDE DEF Col, T
  <2>6. \A u \in T : t # u => t[1] # u[1] \/ Col(t) # Col(u)
    BY <2>4
  <2> QED BY <2>1, <2>5, <2>6 DEF T
<1> QED
  BY <1>2, <1>3 DEF Delta!Recurrent

\* The state of a head, row by row.
LEMMA StateCells ==
  ASSUME NEW a, DeltaFields(a), NEW head \in 0..(a.valueHeads - 1),
         NEW k \in 0..(a.keyDim - 1), NEW v \in 0..(a.valueDim - 1)
  PROVE  /\ head * a.keyDim + k \in Nat
         /\ Delta!StateCell(a, head, k, v) = (head * a.keyDim + k) * a.valueDim + v
         /\ Delta!StateCell(a, head, k, v) < Delta!ValueSize(a) * a.keyDim
<1> DEFINE r == head * a.keyDim + k
<1>1. /\ a.valueHeads \in Nat /\ a.keyDim \in Nat /\ a.valueDim \in Nat
      /\ Delta!ValueSize(a) = a.valueHeads * a.valueDim
  BY DeltaShapeFacts
<1>2. r \in Nat /\ r < a.valueHeads * a.keyDim /\ head * a.keyDim \in Nat
      /\ a.valueHeads * a.keyDim \in Nat
  BY <1>1, Digits
<1>3. r * a.valueDim = head * a.keyDim * a.valueDim + k * a.valueDim
  BY <1>1, SMT
<1>4. Delta!StateCell(a, head, k, v) = r * a.valueDim + v
  BY <1>3 DEF Delta!StateCell
<1> HIDE DEF r
<1>5. r * a.valueDim + v < (a.valueHeads * a.keyDim) * a.valueDim
  BY <1>1, <1>2, Digits
<1>6. (a.valueHeads * a.keyDim) * a.valueDim = Delta!ValueSize(a) * a.keyDim
  <2>1. /\ (a.valueHeads * a.keyDim) * a.valueDim = a.valueHeads * (a.keyDim * a.valueDim)
        /\ a.keyDim * a.valueDim = a.valueDim * a.keyDim
        /\ (a.valueHeads * a.valueDim) * a.keyDim = a.valueHeads * (a.valueDim * a.keyDim)
    BY <1>1, Multiplied
  <2> QED BY <1>1, <2>1
<1> QED
  BY <1>2, <1>4, <1>5, <1>6 DEF r

\* What a column reads of the convolved tokens stays in front of the raw outputs.
LEMMA ConvolvedCells ==
  ASSUME NEW a, DeltaFields(a), NEW n \in Nat, NEW j \in 0..(n - 1),
         NEW head \in 0..(a.valueHeads - 1), NEW k \in 0..(a.keyDim - 1), NEW v \in 0..(a.valueDim - 1)
  PROVE  /\ Delta!QueryCell(a, j, head, k) < n * Delta!ConvDim(a)
         /\ Delta!KeyCell(a, j, head, k) < n * Delta!ConvDim(a)
         /\ Delta!ValueCell(a, j, head, v) < n * Delta!ConvDim(a)
<1> DEFINE D == Delta!ConvDim(a)
           K == Delta!KeySize(a)
           V == Delta!ValueSize(a)
           h == head % a.keyHeads
           x == h * a.keyDim
           y == head * a.valueDim
<1>1. /\ a.keyHeads \in Nat \ {0} /\ a.keyDim \in Nat /\ a.valueDim \in Nat /\ a.valueHeads \in Nat
      /\ K \in Nat /\ V \in Nat /\ D \in Nat /\ D = 2 * K + V
      /\ K = a.keyHeads * a.keyDim /\ V = a.valueHeads * a.valueDim
  BY DeltaShapeFacts
<1>2. h \in 0..(a.keyHeads - 1)
  <2>1. head \in Nat
    BY <1>1
  <2> QED BY ONLY <1>1, <2>1, Division
<1>3. /\ Delta!QueryCell(a, j, head, k) = j * D + (x + k)
      /\ Delta!KeyCell(a, j, head, k) = j * D + (K + x + k)
      /\ Delta!ValueCell(a, j, head, v) = j * D + (2 * K + y + v)
  BY DEF Delta!QueryCell, Delta!KeyCell, Delta!ValueCell, Delta!Conv, Delta!KeyHead
<1> HIDE DEF D, K, V, h
<1>4. x \in Nat /\ k \in Nat /\ x + k < K
  BY <1>1, <1>2, Digits
<1>5. y \in Nat /\ v \in Nat /\ y + v < V
  BY <1>1, Digits
<1> HIDE DEF x, y
<1>6. x + k \in 0..(D - 1) /\ K + x + k \in 0..(D - 1) /\ 2 * K + y + v \in 0..(D - 1)
  BY <1>1, <1>4, <1>5
<1>7. ASSUME NEW c \in 0..(D - 1) PROVE j * D + c < n * D
  BY <1>1, Digits
<1> QED
  BY <1>3, <1>6, <1>7 DEF D

\* A thread of the recurrence has the column of its state and of its raw outputs.
LEMMA RecurrenceApart ==
  ASSUME NEW a, DeltaFields(a), NEW p, NEW n \in Nat \ {0}, NEW k_ \in Delta!Recurrent,
         NEW t \in Delta!Threads(k_, a, n)
  PROVE  /\ Within(k_, a, p, n, t)
         /\ \A u \in Delta!Threads(k_, a, n) : t # u => Apart(k_, a, p, n, t, u)
<1> DEFINE D == Delta!ConvDim(a)
           V == Delta!ValueSize(a)
           S == Delta!Steps(p, n)
           c == Delta!ColumnOf(k_, a, t)
           Q(x, cell) ==
             \E j \in 0..(S - 1), k \in 0..(a.keyDim - 1) :
               cell \in {<<"work", Delta!QueryCell(a, j, x.head, k)>>,
                         <<"work", Delta!KeyCell(a, j, x.head, k)>>,
                         <<"work", Delta!ValueCell(a, j, x.head, x.v)>>,
                         <<"recurrent", Delta!StateCell(a, x.head, k, x.v)>>}
           W(x) == {<<"recurrent", Delta!StateCell(a, x.head, k, x.v)>> : k \in 0..(a.keyDim - 1)} \cup
                   {<<"work", Delta!RawCell(a, n, j, x.head, x.v)>> : j \in 0..(S - 1)}
<1>1. /\ D \in Nat /\ V \in Nat /\ a.hidden \in Nat /\ a.valueDim \in Nat /\ a.keyDim \in Nat
      /\ a.valueHeads \in Nat
  BY DeltaShapeFacts
<1>2. 0..(S - 1) \subseteq 0..(n - 1)
  BY DEF Delta!Steps
<1>3. c.head \in 0..(a.valueHeads - 1) /\ c.v \in 0..(a.valueDim - 1)
  BY ColumnFacts
<1>4. n * D \in Nat /\ n * (D + a.hidden) >= n * D /\ n * (D + a.hidden) \in Nat
  <2>1. n * (D + a.hidden) = n * D + n * a.hidden /\ n * a.hidden \in Nat /\ n * D \in Nat
    BY <1>1, SMT
  <2> QED BY <2>1
<1>5. Within(k_, a, p, n, t)
  <2>1. \A k \in 0..(a.keyDim - 1) : Delta!StateCell(a, c.head, k, c.v) < V * a.keyDim
    BY <1>3, StateCells
  <2>2. \A j \in 0..(S - 1) : Delta!RawCell(a, n, j, c.head, c.v) < n * (D + a.hidden)
    BY <1>2, <1>3, RawCells
  <2>3. ASSUME NEW j \in 0..(S - 1), NEW k \in 0..(a.keyDim - 1)
        PROVE  /\ Delta!QueryCell(a, j, c.head, k) < n * D
               /\ Delta!KeyCell(a, j, c.head, k) < n * D
               /\ Delta!ValueCell(a, j, c.head, c.v) < n * D
    <3>1. j \in 0..(n - 1)
      BY <1>2
    <3> QED BY ONLY <3>1, <1>3, <2>3, DeltaFields(a), n \in Nat, ConvolvedCells
  <2> DEFINE X(cell) == \/ cell[1] = "recurrent" /\ cell[2] < V * a.keyDim
                        \/ cell[1] = "work" /\ cell[2] < n * (D + a.hidden)
  <2>4. \A cell \in W(c) : X(cell)
    BY <2>1, <2>2
  <2>5. Delta!Writes(k_, a, p, n, t) = W(c) /\ \A cell \in Delta!Reads(k_, a, p, n, t) : Q(c, cell)
    BY RecurrentFloats
  <2>6. ASSUME NEW j \in 0..(S - 1), NEW k \in 0..(a.keyDim - 1),
               NEW cell \in {<<"work", Delta!QueryCell(a, j, c.head, k)>>,
                             <<"work", Delta!KeyCell(a, j, c.head, k)>>,
                             <<"work", Delta!ValueCell(a, j, c.head, c.v)>>,
                             <<"recurrent", Delta!StateCell(a, c.head, k, c.v)>>}
        PROVE  X(cell)
    <3> DEFINE x == Delta!QueryCell(a, j, c.head, k)
               y == Delta!KeyCell(a, j, c.head, k)
               z == Delta!ValueCell(a, j, c.head, c.v)
               s == Delta!StateCell(a, c.head, k, c.v)
    <3>1. x < n * D /\ y < n * D /\ z < n * D /\ s < V * a.keyDim
      BY <2>1, <2>3
    <3>2. x \in Int /\ y \in Int /\ z \in Int
      <4>1. j \in Nat /\ k \in Nat /\ c.head \in Nat /\ c.v \in Nat
        BY <1>1, <1>3
      <4>2. c.head % a.keyHeads \in Nat /\ a.keyHeads \in Nat /\ Delta!KeySize(a) \in Nat
        <5>1. a.keyHeads \in Nat \ {0} /\ Delta!KeySize(a) \in Nat
          BY DeltaShapeFacts
        <5>2. c.head % a.keyHeads \in 0..(a.keyHeads - 1)
          BY ONLY <4>1, <5>1, Division
        <5> QED BY <5>1, <5>2
      <4> QED
        BY <1>1, <4>1, <4>2, Multiplied
          DEF Delta!QueryCell, Delta!KeyCell, Delta!ValueCell, Delta!Conv, Delta!KeyHead
    <3> HIDE DEF x, y, z, s, D
    <3>3. x < n * (D + a.hidden) /\ y < n * (D + a.hidden) /\ z < n * (D + a.hidden)
      BY <1>4, <3>1, <3>2
    <3>4. cell \in {<<"work", x>>, <<"work", y>>, <<"work", z>>, <<"recurrent", s>>}
      BY <2>6 DEF x, y, z, s
    <3> QED BY <3>1, <3>3, <3>4
  <2>7. \A cell \in Delta!Reads(k_, a, p, n, t) : X(cell)
    <3> SUFFICES ASSUME NEW cell \in Delta!Reads(k_, a, p, n, t) PROVE X(cell)
      OBVIOUS
    <3>1. Q(c, cell)
      BY <2>5
    <3> HIDE DEF X
    <3>2. PICK j \in 0..(S - 1), k \in 0..(a.keyDim - 1) :
             cell \in {<<"work", Delta!QueryCell(a, j, c.head, k)>>,
                       <<"work", Delta!KeyCell(a, j, c.head, k)>>,
                       <<"work", Delta!ValueCell(a, j, c.head, c.v)>>,
                       <<"recurrent", Delta!StateCell(a, c.head, k, c.v)>>}
      BY <3>1
    <3> QED BY <3>2, <2>6
  <2>8. \A cell \in Delta!Writes(k_, a, p, n, t) \cup Delta!Reads(k_, a, p, n, t) : X(cell)
    <3> HIDE DEF X
    <3> QED BY <2>4, <2>5, <2>7
  <2> HIDE DEF W, Q
  <2> QED BY <2>8 DEF Within, Floats
<1>6. ASSUME NEW u \in Delta!Threads(k_, a, n), t # u PROVE Apart(k_, a, p, n, t, u)
  <2> DEFINE d == Delta!ColumnOf(k_, a, u)
  <2>1. d.head \in 0..(a.valueHeads - 1) /\ d.v \in 0..(a.valueDim - 1)
        /\ (c.head # d.head \/ c.v # d.v)
    BY <1>6, ColumnFacts
  <2>2. ASSUME NEW j \in 0..(a.keyDim - 1), NEW k \in 0..(a.keyDim - 1)
        PROVE  Delta!StateCell(a, c.head, j, c.v) # Delta!StateCell(a, d.head, k, d.v)
    <3> DEFINE x == c.head * a.keyDim + j
               y == d.head * a.keyDim + k
    <3>1. x \in Nat /\ Delta!StateCell(a, c.head, j, c.v) = x * a.valueDim + c.v
      BY <1>3, StateCells
    <3>2. y \in Nat /\ Delta!StateCell(a, d.head, k, d.v) = y * a.valueDim + d.v
      BY <2>1, StateCells
    <3>3. c.head \in Nat /\ d.head \in Nat
      BY <1>1, <1>3, <2>1
    <3>4. x = y => c.head = d.head
      BY ONLY <1>1, <2>2, <3>3, DigitsApart
    <3> HIDE DEF x, y
    <3>5. x * a.valueDim + c.v = y * a.valueDim + d.v => x = y /\ c.v = d.v
      <4> SUFFICES ASSUME x * a.valueDim + c.v = y * a.valueDim + d.v PROVE x = y /\ c.v = d.v
        OBVIOUS
      <4>1. x \in Nat /\ y \in Nat /\ a.valueDim \in Nat
        BY <1>1, <3>1, <3>2
      <4>2. c.v \in 0..(a.valueDim - 1) /\ d.v \in 0..(a.valueDim - 1)
        BY <1>3, <2>1
      <4>3. PICK v, w : v = c.v /\ w = d.v
        OBVIOUS
      <4>4. v \in 0..(a.valueDim - 1) /\ w \in 0..(a.valueDim - 1)
            /\ x * a.valueDim + v = y * a.valueDim + w
        BY <4>2, <4>3
      <4>5. x = y /\ v = w
        BY ONLY <4>1, <4>4, DigitsApart
      <4> QED BY <4>3, <4>5
    <3> QED BY ONLY <2>1, <3>1, <3>2, <3>4, <3>5
  <2>3. ASSUME NEW j \in 0..(S - 1), NEW i \in 0..(S - 1)
        PROVE  Delta!RawCell(a, n, j, c.head, c.v) # Delta!RawCell(a, n, i, d.head, d.v)
    <3> DEFINE x == c.head * a.valueDim + c.v
               y == d.head * a.valueDim + d.v
    <3>1. j \in 0..(n - 1) /\ i \in 0..(n - 1) /\ n \in Nat
      BY <1>2
    <3>2. /\ x \in 0..(V - 1) /\ Delta!RawCell(a, n, j, c.head, c.v) = n * D + (j * V + x)
          /\ j * V \in Nat
      BY ONLY <1>3, <3>1, DeltaFields(a), RawCells
    <3>3. /\ y \in 0..(V - 1) /\ Delta!RawCell(a, n, i, d.head, d.v) = n * D + (i * V + y)
          /\ i * V \in Nat
      BY ONLY <2>1, <3>1, DeltaFields(a), RawCells
    <3>4. c.head \in Nat /\ d.head \in Nat /\ i \in Nat /\ j \in Nat
      BY <1>1, <1>3, <2>1, <3>1
    <3>5. x = y => c.head = d.head /\ c.v = d.v
      <4> SUFFICES ASSUME c.head * a.valueDim + c.v = d.head * a.valueDim + d.v
                   PROVE  c.head = d.head /\ c.v = d.v
        OBVIOUS
      <4>1. c.v \in 0..(a.valueDim - 1) /\ d.v \in 0..(a.valueDim - 1) /\ a.valueDim \in Nat
        BY <1>1, <1>3, <2>1
      <4>2. PICK v, w, h, g : v = c.v /\ w = d.v /\ h = c.head /\ g = d.head
        OBVIOUS
      <4>3. v \in 0..(a.valueDim - 1) /\ w \in 0..(a.valueDim - 1) /\ h \in Nat /\ g \in Nat
            /\ h * a.valueDim + v = g * a.valueDim + w
        BY <3>4, <4>1, <4>2
      <4>4. h = g /\ v = w
        BY ONLY <4>1, <4>3, DigitsApart
      <4> QED BY <4>2, <4>4
    <3> HIDE DEF x, y, D, V
    <3>6. j * V + x = i * V + y => x = y
      BY ONLY <1>1, <3>2, <3>3, <3>4, DigitsApart
    <3>7. j * V + x # i * V + y
      BY ONLY <2>1, <3>5, <3>6
    <3>8. j * V + x \in Int /\ i * V + y \in Int
      BY <3>2, <3>3
    <3> QED BY ONLY <1>4, <3>2, <3>3, <3>7, <3>8
  <2>4. ASSUME NEW i \in 0..(S - 1)
        PROVE  Delta!RawCell(a, n, i, c.head, c.v) >= n * D
    <3>1. i \in 0..(n - 1)
      BY <1>2
    <3> QED BY <1>3, <3>1, RawCells
  <2>5. ASSUME NEW i \in 0..(S - 1), NEW j \in 0..(S - 1), NEW k \in 0..(a.keyDim - 1)
        PROVE  Delta!RawCell(a, n, i, c.head, c.v) \notin
                 {Delta!QueryCell(a, j, d.head, k), Delta!KeyCell(a, j, d.head, k),
                  Delta!ValueCell(a, j, d.head, d.v)}
    <3> DEFINE x == Delta!RawCell(a, n, i, c.head, c.v)
    <3>1. j \in 0..(n - 1) /\ i \in 0..(n - 1)
      BY <1>2
    <3>2. /\ Delta!QueryCell(a, j, d.head, k) < n * D
          /\ Delta!KeyCell(a, j, d.head, k) < n * D
          /\ Delta!ValueCell(a, j, d.head, d.v) < n * D
      BY ONLY <3>1, <2>1, <2>5, DeltaFields(a), n \in Nat, ConvolvedCells
    <3>3. x >= n * D /\ x \in Int
      <4>1. x = n * D + (i * V + (c.head * a.valueDim + c.v)) /\ i * V \in Nat
            /\ c.head * a.valueDim + c.v \in 0..(V - 1)
        BY <1>3, <3>1, RawCells
      <4> HIDE DEF D, V, x
      <4> QED BY <1>1, <1>4, <4>1
    <3> HIDE DEF x, D
    <3>4. x # Delta!QueryCell(a, j, d.head, k) /\ x # Delta!KeyCell(a, j, d.head, k)
          /\ x # Delta!ValueCell(a, j, d.head, d.v)
      BY ONLY <1>4, <3>2, <3>3
    <3> QED BY <3>4 DEF x
  <2> HIDE DEF D, V
  <2>6. /\ Delta!Writes(k_, a, p, n, t) = W(c) /\ Delta!Writes(k_, a, p, n, u) = W(d)
        /\ \A cell \in Delta!Reads(k_, a, p, n, u) : Q(d, cell)
    BY RecurrentFloats
  <2> HIDE DEF c, d, S
  <2>7. \A cell \in W(c) : cell \notin W(d)
    BY <2>2, <2>3
  <2>8. ASSUME NEW cell \in W(c), Q(d, cell) PROVE FALSE
    <3>1. PICK j \in 0..(S - 1), k \in 0..(a.keyDim - 1) :
             cell \in {<<"work", Delta!QueryCell(a, j, d.head, k)>>,
                       <<"work", Delta!KeyCell(a, j, d.head, k)>>,
                       <<"work", Delta!ValueCell(a, j, d.head, d.v)>>,
                       <<"recurrent", Delta!StateCell(a, d.head, k, d.v)>>}
      BY <2>8
    <3>2. CASE \E i \in 0..(a.keyDim - 1) : cell = <<"recurrent", Delta!StateCell(a, c.head, i, c.v)>>
      BY <2>2, <3>1, <3>2
    <3>3. CASE \E i \in 0..(S - 1) : cell = <<"work", Delta!RawCell(a, n, i, c.head, c.v)>>
      BY <2>5, <3>1, <3>3
    <3> QED BY <2>8, <3>2, <3>3
  <2> HIDE DEF W, Q
  <2> QED BY <2>6, <2>7, <2>8 DEF Apart
<1> QED
  BY <1>5, <1>6

-----------------------------------------------------------------------------
(* The append and the logits *)

\* What Init grants of the shape of an attention layer.
AttentionFields(a) ==
  /\ {a.queryHeads, a.kvHeads, a.headDim, a.rotary} \subseteq Nat
  /\ Attention!Valid(a)

\* What a call of a delta layer has at any of its kernels.
DeltaCallOK ==
  /\ DeltaFields(shape)
  /\ tokens \in Nat
  /\ kernels \in Seq({"convolution", "normalize", "output"} \cup Delta!Recurrent)
  /\ kernels # <<>> => tokens # 0

\* And what an attention call has: the chunk fits behind the past.
AttentionCallOK ==
  /\ AttentionFields(shape)
  /\ tokens \in Nat /\ past \in Nat
  /\ tokens <= AttentionTokens /\ past + tokens <= AttentionContext

\* The unit at work is in a call its checks let through.
GridInv == (unit = "delta" => DeltaCallOK) /\ (unit = "attention" => AttentionCallOK)

\* Before the first call nothing is pending.
LEMMA GridStarts == KernelsInit => GridInv
<1> SUFFICES ASSUME KernelsInit PROVE GridInv
  OBVIOUS
<1>1. CASE unit = "delta"
  <2>1. Delta!Init
    BY <1>1 DEF KernelsInit
  <2>2. shape \in DeltaShapes /\ Delta!ValidArgs(shape) /\ tokens = 0 /\ kernels = <<>>
    BY <2>1 DEF Delta!Init
  <2>3. DeltaFields(shape)
    BY <2>2, KernelAssumption DEF DeltaFields, Delta!ShapeAssumption
  <2> QED BY <1>1, <2>2, <2>3 DEF GridInv, DeltaCallOK
<1>2. CASE unit = "attention"
  <2>1. Attention!Init
    BY <1>2 DEF KernelsInit
  <2>2. shape \in AttentionShapes /\ Attention!Valid(shape) /\ tokens = 0 /\ past = 0
    BY <2>1 DEF Attention!Init
  <2>3. AttentionFields(shape)
    BY <2>2, KernelAssumption DEF AttentionFields, Attention!ShapeAssumption
  <2>4. AttentionTokens \in Nat /\ AttentionContext \in Nat
    BY KernelAssumption DEF Attention!ContextAssumption
  <2> QED BY <1>2, <2>2, <2>3, <2>4 DEF GridInv, AttentionCallOK
<1> QED
  BY <1>1, <1>2 DEF GridInv

\* A call is checked before its kernels are pending.
LEMMA DeltaCallKeeps ==
  ASSUME DeltaCallOK, Delta!Next
  PROVE  DeltaCallOK'
<1> DEFINE K == {"convolution", "normalize", "output"} \cup Delta!Recurrent
<1>1. CASE Delta!Call
  <2>1. PICK n \in 1..DeltaTokens, p \in DeltaPolicies :
           tokens' = n /\ kernels' = Delta!Kernels(p, shape) /\ shape' = shape
    BY <1>1 DEF Delta!Call
  <2>2. Delta!Kernels(p, shape) \in Seq(K)
    <3>1. (IF Delta!Registers(p) THEN "register"
           ELSE IF shape.keyDim = LargeDim THEN "register_128" ELSE "tiled") \in K
      BY DEF Delta!Recurrent
    <3> QED BY <3>1 DEF Delta!Kernels
  <2>3. n \in Nat /\ n # 0
    BY KernelAssumption DEF Delta!TokensAssumption
  <2> QED BY <2>1, <2>2, <2>3 DEF DeltaCallOK
<1>2. CASE Delta!Launch
  <2>1. kernels # <<>> /\ kernels' = Tail(kernels) /\ tokens' = tokens /\ shape' = shape
    BY <1>2 DEF Delta!Launch
  <2>2. kernels \in Seq(K) /\ tokens # 0
    BY <2>1 DEF DeltaCallOK
  <2>3. kernels' \in Seq(K)
    BY <2>1, <2>2
  <2> QED BY <2>1, <2>2, <2>3 DEF DeltaCallOK
<1>3. CASE Delta!LaunchFails
  BY <1>3 DEF Delta!LaunchFails, DeltaCallOK
<1>4. CASE Delta!Return
  BY <1>4 DEF Delta!Return, DeltaCallOK
<1>5. CASE Delta!Reset
  <2>1. shape' = shape /\ tokens' = 0 /\ kernels' = <<>>
    BY <1>5 DEF Delta!Reset
  <2> QED BY <2>1 DEF DeltaCallOK
<1> QED
  BY <1>1, <1>2, <1>3, <1>4, <1>5 DEF Delta!Next

\* A chunk that does not fit is refused, and the past grows by what was appended.
LEMMA AttentionCallKeeps ==
  ASSUME AttentionCallOK, Attention!Next
  PROVE  AttentionCallOK'
<1>0. AttentionTokens \in Nat /\ AttentionContext \in Nat
  BY KernelAssumption DEF Attention!ContextAssumption
<1>1. CASE Attention!Call
  <2>1. PICK n \in 1..AttentionTokens :
           past + n <= AttentionContext /\ tokens' = n /\ shape' = shape /\ past' = past
    BY <1>1 DEF Attention!Call
  <2> QED BY <1>0, <2>1 DEF AttentionCallOK
<1>2. CASE Attention!Launch
  BY <1>2 DEF Attention!Launch, AttentionCallOK
<1>3. CASE Attention!LaunchFails
  <2>1. tokens' = 0 /\ shape' = shape /\ past' = past
    BY <1>3 DEF Attention!LaunchFails
  <2> QED BY <1>0, <2>1 DEF AttentionCallOK
<1>4. CASE Attention!Return
  <2>1. tokens' = 0 /\ shape' = shape /\ past' = past + tokens
    BY <1>4 DEF Attention!Return, Attention!Context
  <2> QED BY <1>0, <2>1 DEF AttentionCallOK
<1>5. CASE Attention!Reset
  <2>1. tokens' = tokens /\ shape' = shape /\ past' = 0
    BY <1>5 DEF Attention!Reset
  <2> QED BY <1>0, <2>1 DEF AttentionCallOK
<1> QED
  BY <1>1, <1>2, <1>3, <1>4, <1>5 DEF Attention!Next

\* A step is one of the unit at work, or leaves that unit as it was.
LEMMA GridKeeps ==
  ASSUME GridInv, [KernelsNext]_kernelsVars
  PROVE  GridInv'
<1>1. CASE UNCHANGED kernelsVars
  <2>1. UNCHANGED <<unit, shape, tokens, kernels, past>>
    BY <1>1 DEF kernelsVars, layersOnly
  <2> QED BY <2>1 DEF GridInv, DeltaCallOK, AttentionCallOK
<1>2. CASE KernelsNext
  <2>1. unit' = unit
    BY <1>2 DEF KernelsNext
  <2>2. CASE unit = "delta"
    <3>1. Delta!Next
      BY <1>2, <2>2 DEF KernelsNext
    <3> QED BY <2>1, <2>2, <3>1, DeltaCallKeeps DEF GridInv
  <2>3. CASE unit = "attention"
    <3>1. Attention!Next
      BY <1>2, <2>3 DEF KernelsNext
    <3> QED BY <2>1, <2>3, <3>1, AttentionCallKeeps DEF GridInv
  <2> QED BY <2>1, <2>2, <2>3 DEF GridInv
<1> QED
  BY <1>1, <1>2

\* The four kernels together.
LEMMA DeltaThreadsApart ==
  ASSUME DeltaCallOK
  PROVE  Delta!NoRace /\ Delta!StaysInside
<1> SUFFICES ASSUME kernels # <<>> PROVE Delta!NoRace /\ Delta!StaysInside
  BY DEF Delta!NoRace, Delta!StaysInside
<1> DEFINE k_ == Head(kernels)
           T == Delta!Threads(k_, shape, tokens)
<1>1. DeltaFields(shape) /\ tokens \in Nat \ {0}
  BY DEF DeltaCallOK
<1>2. k_ \in {"convolution", "normalize", "output"} \cup Delta!Recurrent
  BY DEF DeltaCallOK
<1> HIDE DEF k_
<1>3. ASSUME NEW t \in T
      PROVE  /\ Within(k_, shape, policy, tokens, t)
             /\ \A u \in T : t # u => Apart(k_, shape, policy, tokens, t, u)
  BY <1>1, <1>2, ConvolutionApart, NormalizeApart, OutputApart, RecurrenceApart
<1>4. Delta!NoRace
  BY <1>3 DEF Delta!NoRace, Apart, k_
<1>5. Delta!StaysInside
  <2> DEFINE F == [work |-> Delta!WorkspaceFloats(shape, tokens), output |-> tokens * shape.hidden,
                   history |-> Delta!ConvDim(shape) * (shape.width - 1),
                   recurrent |-> Delta!ValueSize(shape) * shape.keyDim]
  <2>1. \A x \in {"work", "output", "history", "recurrent"} : F[x] = Floats(shape, tokens, x)
    BY DEF Floats, Delta!WorkspaceFloats
  <2>2. ASSUME NEW t \in T, NEW cell \in Delta!Writes(k_, shape, policy, tokens, t) \cup
                                         Delta!Reads(k_, shape, policy, tokens, t)
        PROVE  cell[2] < F[cell[1]]
    <3>1. cell[2] < Floats(shape, tokens, cell[1])
      BY <1>3, <2>2 DEF Within
    <3>2. cell[1] \in {"work", "output", "history", "recurrent"}
      <4>1. CASE k_ \in Delta!Recurrent
        <5>1. PICK c : c = Delta!ColumnOf(k_, shape, t)
          OBVIOUS
        <5>2. /\ \A e \in Delta!Writes(k_, shape, policy, tokens, t) : e[1] \in {"work", "recurrent"}
              /\ \A e \in Delta!Reads(k_, shape, policy, tokens, t) : e[1] \in {"work", "recurrent"}
          BY <4>1, <5>1, RecurrentFloats
        <5> QED BY <5>2
      <4>2. CASE k_ \in {"convolution", "normalize", "output"}
        BY <4>2, DeltaFloats
      <4> QED BY <1>2, <4>1, <4>2
    <3> HIDE DEF F
    <3> QED BY <2>1, <3>1, <3>2
  <2> QED BY <2>2 DEF Delta!StaysInside, k_
<1> QED
  BY <1>4, <1>5

\* The sizes of a valid shape are products of its fields, and none is zero.
LEMMA AttentionShapeFacts ==
  ASSUME NEW a, AttentionFields(a)
  PROVE  /\ a.queryHeads \in Nat \ {0} /\ a.kvHeads \in Nat \ {0} /\ a.headDim \in Nat \ {0}
         /\ Attention!KvSize(a) = a.kvHeads * a.headDim
         /\ Attention!KvSize(a) \in Nat \ {0}
<1>1. a.queryHeads \in Nat \ {0} /\ a.kvHeads \in Nat \ {0} /\ a.headDim \in Nat \ {0}
  BY DEF AttentionFields, Attention!Valid, Attention!ValidFull
<1>2. Attention!KvSize(a) = a.kvHeads * a.headDim
  BY DEF Attention!KvSize
<1>3. a.kvHeads * a.headDim \in Nat /\ a.kvHeads * a.headDim # 0
  BY <1>1, SMT
<1> QED
  BY <1>1, <1>2, <1>3

\* The rows of the cache, in either layout.
CacheRow(token, head) ==
  IF policy.layout = "token_major" THEN token * shape.kvHeads + head
  ELSE head * AttentionContext + token

\* Two heads of two tokens have rows of their own, in either layout.
LEMMA CacheRows ==
  ASSUME AttentionCallOK, NEW t \in 0..(AttentionContext - 1), NEW h \in 0..(shape.kvHeads - 1)
  PROVE  /\ CacheRow(t, h) \in Nat /\ CacheRow(t, h) < AttentionContext * shape.kvHeads
         /\ \A i : Attention!CacheIndex(t, h, i) = CacheRow(t, h) * shape.headDim + i
         /\ \A u \in 0..(AttentionContext - 1), g \in 0..(shape.kvHeads - 1) :
              CacheRow(t, h) = CacheRow(u, g) => t = u /\ h = g
<1>1. shape.kvHeads \in Nat /\ AttentionContext \in Nat
  BY AttentionShapeFacts, KernelAssumption DEF AttentionCallOK, Attention!ContextAssumption
<1>2. \A i : Attention!CacheIndex(t, h, i) = CacheRow(t, h) * shape.headDim + i
  BY DEF Attention!CacheIndex, CacheRow
<1>3. CASE policy.layout = "token_major"
  <2>1. t * shape.kvHeads + h \in Nat /\ t * shape.kvHeads + h < AttentionContext * shape.kvHeads
    BY <1>1, Digits
  <2>2. ASSUME NEW u \in 0..(AttentionContext - 1), NEW g \in 0..(shape.kvHeads - 1),
               t * shape.kvHeads + h = u * shape.kvHeads + g
        PROVE  t = u /\ h = g
    <3>1. t \in Nat /\ u \in Nat
      BY <1>1
    <3> QED BY ONLY <1>1, <2>2, <3>1, h \in 0..(shape.kvHeads - 1), DigitsApart
  <2> QED BY <1>2, <1>3, <2>1, <2>2 DEF CacheRow
<1>4. CASE policy.layout # "token_major"
  <2>1. h * AttentionContext + t \in Nat /\ h * AttentionContext + t < shape.kvHeads * AttentionContext
    BY <1>1, Digits
  <2>2. shape.kvHeads * AttentionContext = AttentionContext * shape.kvHeads
    BY <1>1, Multiplied
  <2>3. ASSUME NEW u \in 0..(AttentionContext - 1), NEW g \in 0..(shape.kvHeads - 1),
               h * AttentionContext + t = g * AttentionContext + u
        PROVE  t = u /\ h = g
    <3>1. h \in Nat /\ g \in Nat
      BY <1>1
    <3> QED BY ONLY <1>1, <2>3, <3>1, t \in 0..(AttentionContext - 1), DigitsApart
  <2> QED BY <1>2, <1>4, <2>1, <2>2, <2>3 DEF CacheRow
<1> QED
  BY <1>3, <1>4

\* The cells of the keys, and that they are those of the plane of keys.
LEMMA CacheCells ==
  ASSUME AttentionCallOK, NEW t \in 0..(AttentionContext - 1), NEW h \in 0..(shape.kvHeads - 1),
         NEW i \in 0..(shape.headDim - 1)
  PROVE  /\ Attention!CacheIndex(t, h, i) \in Nat
         /\ Attention!CacheIndex(t, h, i) < Attention!Plane
         /\ Attention!CacheIndex(t, h, i) = CacheRow(t, h) * shape.headDim + i
         /\ \A u \in 0..(AttentionContext - 1), g \in 0..(shape.kvHeads - 1), j \in 0..(shape.headDim - 1) :
              Attention!CacheIndex(t, h, i) = Attention!CacheIndex(u, g, j) => t = u /\ h = g /\ i = j
<1>1. /\ shape.kvHeads \in Nat /\ shape.headDim \in Nat /\ AttentionContext \in Nat
      /\ Attention!KvSize(shape) = shape.kvHeads * shape.headDim
  BY AttentionShapeFacts, KernelAssumption DEF AttentionCallOK, Attention!ContextAssumption
<1> DEFINE R == CacheRow(t, h)
           n == AttentionContext * shape.kvHeads
<1>2. R \in Nat /\ R < n /\ Attention!CacheIndex(t, h, i) = R * shape.headDim + i /\ n \in Nat
  <2>1. n \in Nat
    BY <1>1, SMT
  <2> QED BY <2>1, CacheRows
<1>3. Attention!Plane = n * shape.headDim
  BY <1>1, Multiplied DEF Attention!Plane
<1> HIDE DEF R, n
<1>4. R * shape.headDim + i \in Nat /\ R * shape.headDim + i < n * shape.headDim
  BY <1>1, <1>2, Digits
<1>5. ASSUME NEW u \in 0..(AttentionContext - 1), NEW g \in 0..(shape.kvHeads - 1),
             NEW j \in 0..(shape.headDim - 1),
             Attention!CacheIndex(t, h, i) = Attention!CacheIndex(u, g, j)
      PROVE  t = u /\ h = g /\ i = j
  <2> DEFINE Q == CacheRow(u, g)
  <2>1. Q \in Nat /\ Attention!CacheIndex(u, g, j) = Q * shape.headDim + j
    BY CacheRows
  <2>2. R * shape.headDim + i = Q * shape.headDim + j
    BY <1>2, <1>5, <2>1
  <2> HIDE DEF Q
  <2>3. R = Q /\ i = j
    BY ONLY <1>1, <1>2, <2>1, <2>2, i \in 0..(shape.headDim - 1), j \in 0..(shape.headDim - 1), DigitsApart
  <2>4. t = u /\ h = g
    BY <2>3, CacheRows DEF Q, R
  <2> QED BY <2>3, <2>4
<1> QED
  BY <1>2, <1>3, <1>4, <1>5 DEF R

\* The token, head and place in it of an element of a chunk.
IsElement(e, t, h, i) ==
  /\ t \in 0..(tokens - 1) /\ h \in 0..(shape.kvHeads - 1) /\ i \in 0..(shape.headDim - 1)
  /\ e = (t * shape.kvHeads + h) * shape.headDim + i

\* An element of a chunk is in one token, head and place, and finds its key there.
LEMMA ElementPlace ==
  ASSUME AttentionCallOK, NEW e, NEW t, NEW h, NEW i, IsElement(e, t, h, i)
  PROVE  /\ e \in Attention!Elements /\ e \in Nat /\ e % shape.headDim = i
         /\ Attention!KeyCell(e) = Attention!CacheIndex(past + t, h, i)
         /\ past + t \in 0..(AttentionContext - 1)
<1> DEFINE kv == shape.kvHeads
           hd == shape.headDim
           K == Attention!KvSize(shape)
           r == t * kv + h
           w == h * hd + i
<1>1. kv \in Nat \ {0} /\ hd \in Nat \ {0} /\ K \in Nat \ {0} /\ K = kv * hd /\ tokens \in Nat /\ past \in Nat
  BY AttentionShapeFacts DEF AttentionCallOK
<1>2. /\ t \in 0..(tokens - 1) /\ h \in 0..(kv - 1) /\ i \in 0..(hd - 1) /\ t \in Nat /\ h \in Nat
      /\ e = r * hd + i
  BY <1>1 DEF IsElement
<1> HIDE DEF K, kv, hd
<1>3. r \in Nat /\ r < tokens * kv /\ tokens * kv \in Nat /\ t * kv \in Nat
  BY <1>1, <1>2, Digits
<1>4. w \in 0..(K - 1) /\ h * hd \in Nat /\ i \in Nat
  <2>1. w \in Nat /\ w < kv * hd /\ h * hd \in Nat
    BY <1>1, <1>2, Digits
  <2> QED BY <1>1, <1>2, <2>1
<1>5. e = t * K + w
  <2>1. hd * (t * kv + h) = hd * (t * kv) + hd * h
    BY <1>1, <1>2, <1>3, Multiplied
  <2>2. hd * (t * kv) = (t * kv) * hd /\ (t * kv) * hd = t * (kv * hd) /\ hd * h = h * hd
        /\ r * hd = hd * (t * kv + h) /\ t * (kv * hd) \in Int
    BY <1>1, <1>2, <1>3, Multiplied
  <2> QED BY <1>1, <1>2, <1>4, <2>1, <2>2
<1> HIDE DEF r
<1>6. e % hd = i
  BY ONLY <1>1, <1>2, <1>3, DivisionUnique
<1>7. w \div hd = h /\ w % hd = i
  BY <1>1, <1>2, DivisionUnique
<1> HIDE DEF w
<1>8. e \div K = t /\ e % K = w
  <2>1. (t * K + w) \div K = t /\ (t * K + w) % K = w
    BY ONLY <1>1, <1>2, <1>4, DivisionUnique
  <2> QED BY <1>5, <2>1
<1>9. e \in 0..(tokens * K - 1)
  <2>1. t * K + w \in Nat /\ t * K + w < tokens * K /\ tokens * K \in Nat
    BY ONLY <1>1, <1>2, <1>4, Digits
  <2> QED BY <1>5, <2>1
<1>10. Attention!KeyCell(e) = Attention!CacheIndex(past + t, h, i)
  BY <1>7, <1>8 DEF Attention!KeyCell, Attention!Row, K, hd
<1>11. past + t \in 0..(AttentionContext - 1)
  <2>1. AttentionContext \in Nat /\ past + tokens <= AttentionContext
    BY KernelAssumption DEF Attention!ContextAssumption, AttentionCallOK
  <2> QED BY <1>1, <1>2, <2>1
<1> QED
  BY <1>6, <1>9, <1>10, <1>11 DEF Attention!Elements, Attention!Range0, K, hd

\* Every element of a chunk has such a place.
LEMMA ElementParts ==
  ASSUME AttentionCallOK, NEW e \in Attention!Elements
  PROVE  \E t, h, i : IsElement(e, t, h, i)
<1> DEFINE kv == shape.kvHeads
           hd == shape.headDim
           r == e \div hd
           i == e % hd
           t == r \div kv
           h == r % kv
<1>1. /\ kv \in Nat \ {0} /\ hd \in Nat \ {0} /\ tokens \in Nat
      /\ Attention!KvSize(shape) = kv * hd
  BY AttentionShapeFacts DEF AttentionCallOK
<1>2. e \in Nat /\ e < (tokens * kv) * hd /\ tokens * kv \in Nat
  <2>1. tokens * kv \in Nat /\ tokens * (kv * hd) \in Nat /\ (tokens * kv) * hd = tokens * (kv * hd)
    BY <1>1, SMT
  <2>2. e \in 0..(tokens * (kv * hd) - 1)
    BY <1>1 DEF Attention!Elements, Attention!Range0
  <2> QED BY <2>1, <2>2
<1> HIDE DEF kv, hd
<1>3. r \in 0..(tokens * kv - 1) /\ i \in 0..(hd - 1) /\ e = (r * hd) + i
  BY ONLY <1>1, <1>2, DigitsOf
<1> HIDE DEF r, i
<1>4. r \in Nat /\ r < tokens * kv
  BY <1>2, <1>3
<1>5. t \in 0..(tokens - 1) /\ h \in 0..(kv - 1) /\ r = (t * kv) + h
  BY ONLY <1>1, <1>4, DigitsOf
<1> HIDE DEF t, h
<1>6. IsElement(e, t, h, i)
  BY <1>3, <1>5 DEF IsElement, kv, hd
<1> QED
  BY <1>6

\* Odd and even numbers alternate.
LEMMA Parity ==
  ASSUME NEW x \in Nat
  PROVE  (x % 2 = 0 => (x + 1) % 2 = 1) /\ (x % 2 = 1 => (x - 1) % 2 = 0)
BY SMT

\* Neighbours that share a store: whatever the parities, every cell is stored, once.
LEMMA StoredOnce ==
  ASSUME NEW E \in SUBSET Nat, NEW dest \in [E -> Nat], shape.headDim \in Nat \ {0},
         \A e, f \in E : dest[e] = dest[f] => e = f,
         \A e \in E : e % shape.headDim \in Nat,
         \A e \in E : (e % shape.headDim) + 1 < shape.headDim =>
           e + 1 \in E /\ (e + 1) % shape.headDim = (e % shape.headDim) + 1 /\ dest[e + 1] = dest[e] + 1,
         \A e \in E : e % shape.headDim > 0 =>
           e - 1 \in E /\ (e - 1) % shape.headDim = (e % shape.headDim) - 1 /\ dest[e - 1] = dest[e] - 1,
         \A e \in E : e % shape.headDim < shape.headDim
  PROVE  /\ \A e \in E : \A x \in Attention!Stored(e, dest[e], e % shape.headDim) :
              \E f \in E : x = dest[f]
         /\ \A e \in E : \E f \in E : dest[e] \in Attention!Stored(f, dest[f], f % shape.headDim)
         /\ \A e, f \in E : e # f =>
              Attention!Stored(e, dest[e], e % shape.headDim) \cap
                Attention!Stored(f, dest[f], f % shape.headDim) = {}
<1> DEFINE hd == shape.headDim
           I(e) == e % hd
           P(e) == I(e) + 1 < hd /\ I(e) % 2 = 0 /\ e % 2 = 0 /\ dest[e] % 2 = 0
           N(e) == I(e) % 2 = 1 /\ e % 2 = 1 /\ dest[e] % 2 = 1
           S(e) == Attention!Stored(e, dest[e], e % shape.headDim)
<1>1. \A e \in E : dest[e] \in Nat /\ e \in Nat
  OBVIOUS
<1>2. CASE policy.cache = "f32"
  <2>1. \A e : S(e) = {dest[e]}
    BY <1>2 DEF Attention!Stored
  <2> HIDE DEF S
  <2>2. /\ \A e \in E : \A x \in S(e) : \E f \in E : x = dest[f]
        /\ \A e \in E : \E f \in E : dest[e] \in S(f)
        /\ \A e, f \in E : e # f => S(e) \cap S(f) = {}
    BY <2>1
  <2> QED BY <2>2 DEF S
<1>3. CASE policy.cache # "f32"
  <2>1. \A e : S(e) = IF P(e) THEN {dest[e], dest[e] + 1} ELSE IF N(e) THEN {} ELSE {dest[e]}
    BY <1>3 DEF Attention!Stored, Attention!Pairs, Attention!Skips
  <2>2. \A e \in E : I(e) \in Nat /\ (I(e) + 1 < hd => e + 1 \in E /\ I(e + 1) = I(e) + 1 /\ dest[e + 1] = dest[e] + 1)
    OBVIOUS
  <2>3. \A e \in E : I(e) > 0 => e - 1 \in E /\ I(e - 1) = I(e) - 1 /\ dest[e - 1] = dest[e] - 1
    OBVIOUS
  <2>4. \A e \in E : I(e) < hd
    OBVIOUS
  <2>5. hd \in Nat
    OBVIOUS
  <2> HIDE DEF S, I, hd
  <2>6. ASSUME NEW e \in E, P(e) PROVE e + 1 \in E /\ dest[e + 1] = dest[e] + 1 /\ N(e + 1) /\ ~P(e + 1)
    <3>1. e + 1 \in E /\ I(e + 1) = I(e) + 1 /\ dest[e + 1] = dest[e] + 1
      BY <2>2, <2>6
    <3>2. I(e) \in Nat /\ e \in Nat /\ dest[e] \in Nat /\ I(e) % 2 = 0 /\ e % 2 = 0 /\ dest[e] % 2 = 0
      BY <1>1, <2>2, <2>6
    <3>3. (I(e) + 1) % 2 = 1 /\ (e + 1) % 2 = 1 /\ (dest[e] + 1) % 2 = 1
      BY <3>2, Parity
    <3> QED BY <3>1, <3>3
  <2>7. ASSUME NEW e \in E, N(e) PROVE e - 1 \in E /\ dest[e] = dest[e - 1] + 1 /\ P(e - 1)
    <3>1. I(e) \in Nat /\ e \in Nat /\ dest[e] \in Nat /\ I(e) % 2 = 1 /\ e % 2 = 1 /\ dest[e] % 2 = 1
      BY <1>1, <2>2, <2>7
    <3>2. I(e) > 0
      BY <3>1
    <3>3. e - 1 \in E /\ I(e - 1) = I(e) - 1 /\ dest[e - 1] = dest[e] - 1
      BY <2>3, <3>2
    <3>4. (I(e) - 1) % 2 = 0 /\ (e - 1) % 2 = 0 /\ (dest[e] - 1) % 2 = 0
      BY <3>1, Parity
    <3>5. I(e - 1) + 1 < hd
      BY <2>4, <2>5, <3>1, <3>3
    <3> QED BY <3>1, <3>3, <3>4, <3>5
  <2>8. ASSUME NEW e \in E, NEW x \in S(e)
        PROVE  \/ x = dest[e] /\ ~N(e)
               \/ P(e) /\ x = dest[e] + 1
    <3>1. P(e) => ~N(e)
      BY <1>1, <2>2
    <3> HIDE DEF P, N
    <3> QED BY <2>1, <2>8, <3>1
  <2>9. \A e \in E : \A x \in S(e) : \E f \in E : x = dest[f]
    <3> HIDE DEF P, N
    <3> QED BY <2>6, <2>8
  <2>10. \A e \in E : \E f \in E : dest[e] \in S(f)
    <3> HIDE DEF P, N
    <3> QED BY <2>1, <2>7
  <2>11. ASSUME NEW e \in E, NEW f \in E, e # f, NEW x \in S(e), x \in S(f) PROVE FALSE
    <3>1. \A g \in E : P(g) => g + 1 \in E /\ dest[g + 1] = dest[g] + 1 /\ N(g + 1)
      BY <2>6
    <3>2. dest[e] # dest[f]
      BY <2>11
    <3> HIDE DEF P, N
    <3>3. (x = dest[e] /\ ~N(e)) \/ (P(e) /\ x = dest[e] + 1)
      BY <2>8, <2>11
    <3>4. (x = dest[f] /\ ~N(f)) \/ (P(f) /\ x = dest[f] + 1)
      BY <2>8, <2>11
    <3>5. CASE x = dest[e] /\ ~N(e) /\ P(f) /\ x = dest[f] + 1
      <4>1. f + 1 \in E /\ dest[f + 1] = dest[e] /\ N(f + 1)
        BY <3>1, <3>5
      <4>2. f + 1 = e
        BY <4>1
      <4> QED BY <3>5, <4>1, <4>2
    <3>6. CASE x = dest[f] /\ ~N(f) /\ P(e) /\ x = dest[e] + 1
      <4>1. e + 1 \in E /\ dest[e + 1] = dest[f] /\ N(e + 1)
        BY <3>1, <3>6
      <4>2. e + 1 = f
        BY <4>1
      <4> QED BY <3>6, <4>1, <4>2
    <3>7. CASE x = dest[e] /\ x = dest[f]
      BY <3>2, <3>7
    <3>8. CASE x = dest[e] + 1 /\ x = dest[f] + 1
      <4>1. dest[e] \in Nat /\ dest[f] \in Nat
        BY <1>1
      <4> QED BY ONLY <3>2, <3>8, <4>1
    <3> QED BY ONLY <3>3, <3>4, <3>5, <3>6, <3>7, <3>8
  <2>12. \A e, f \in E : e # f => S(e) \cap S(f) = {}
    BY <2>11
  <2> QED BY <2>9, <2>10, <2>12 DEF S
<1> QED
  BY <1>2, <1>3

\* Where the threads of a chunk find their keys: neighbours beside neighbours.
LEMMA ElementNext ==
  ASSUME AttentionCallOK, NEW e \in Attention!Elements
  PROVE  /\ e \in Nat /\ e % shape.headDim \in Nat /\ e % shape.headDim < shape.headDim
         /\ Attention!KeyCell(e) \in Nat /\ Attention!KeyCell(e) < Attention!Plane
         /\ \A f \in Attention!Elements : Attention!KeyCell(e) = Attention!KeyCell(f) => e = f
         /\ (e % shape.headDim) + 1 < shape.headDim =>
              /\ e + 1 \in Attention!Elements
              /\ (e + 1) % shape.headDim = (e % shape.headDim) + 1
              /\ Attention!KeyCell(e + 1) = Attention!KeyCell(e) + 1
         /\ e % shape.headDim > 0 =>
              /\ e - 1 \in Attention!Elements
              /\ (e - 1) % shape.headDim = (e % shape.headDim) - 1
              /\ Attention!KeyCell(e - 1) = Attention!KeyCell(e) - 1
<1> DEFINE hd == shape.headDim
           n == AttentionContext - 1
<1>1. PICK t, h, i : IsElement(e, t, h, i)
  BY ElementParts
<1>2. /\ e \in Nat /\ e % hd = i /\ Attention!KeyCell(e) = Attention!CacheIndex(past + t, h, i)
      /\ past + t \in 0..n
  BY <1>1, ElementPlace
<1>3. /\ h \in 0..(shape.kvHeads - 1) /\ i \in 0..(hd - 1) /\ t \in 0..(tokens - 1)
      /\ e = (t * shape.kvHeads + h) * hd + i
  BY <1>1 DEF IsElement
<1>4. hd \in Nat \ {0} /\ tokens \in Nat /\ past \in Nat /\ shape.kvHeads \in Nat
  BY AttentionShapeFacts DEF AttentionCallOK
<1>5. /\ Attention!CacheIndex(past + t, h, i) \in Nat
      /\ Attention!CacheIndex(past + t, h, i) < Attention!Plane
      /\ Attention!CacheIndex(past + t, h, i) = CacheRow(past + t, h) * hd + i
  BY <1>2, <1>3, CacheCells
<1>6. ASSUME NEW f \in Attention!Elements, Attention!KeyCell(e) = Attention!KeyCell(f) PROVE e = f
  <2>1. PICK u, g, j : IsElement(f, u, g, j)
    BY <1>6, ElementParts
  <2>2. Attention!KeyCell(f) = Attention!CacheIndex(past + u, g, j) /\ past + u \in 0..n
    BY <2>1, ElementPlace
  <2>3. /\ g \in 0..(shape.kvHeads - 1) /\ j \in 0..(hd - 1) /\ u \in 0..(tokens - 1)
        /\ f = (u * shape.kvHeads + g) * hd + j
    BY <2>1 DEF IsElement
  <2>4. Attention!CacheIndex(past + t, h, i) = Attention!CacheIndex(past + u, g, j)
    BY <1>2, <1>6, <2>2
  <2>5. past + t = past + u /\ h = g /\ i = j
    BY <1>2, <1>3, <2>2, <2>3, <2>4, CacheCells
  <2>6. t = u
    BY <1>3, <1>4, <2>3, <2>5
  <2> QED BY ONLY <1>3, <2>3, <2>5, <2>6
<1> DEFINE r == (t * shape.kvHeads + h) * hd
           R == CacheRow(past + t, h) * hd
<1>7. r \in Int /\ R \in Int
  <2>1. CacheRow(past + t, h) \in Nat
    BY <1>2, <1>3, CacheRows
  <2>2. t * shape.kvHeads + h \in Int
    BY <1>3, <1>4, Multiplied
  <2> QED BY <1>4, <2>1, <2>2, Multiplied
<1>8. ASSUME NEW j \in 0..(hd - 1)
      PROVE  /\ r + j \in Attention!Elements /\ (r + j) % hd = j
             /\ Attention!KeyCell(r + j) = R + j
  <2>1. IsElement(r + j, t, h, j)
    BY <1>3 DEF IsElement
  <2>2. /\ r + j \in Attention!Elements /\ (r + j) % hd = j
        /\ Attention!KeyCell(r + j) = Attention!CacheIndex(past + t, h, j)
    BY <2>1, ElementPlace
  <2>3. Attention!CacheIndex(past + t, h, j) = R + j
    BY <1>2, <1>3, <1>8, CacheCells
  <2> QED BY <2>2, <2>3
<1>9. e = r + i /\ Attention!KeyCell(e) = R + i
  BY <1>2, <1>3, <1>5
<1> HIDE DEF r, R, hd
<1>10. ASSUME i + 1 < hd
       PROVE  /\ e + 1 \in Attention!Elements /\ (e + 1) % hd = i + 1
              /\ Attention!KeyCell(e + 1) = Attention!KeyCell(e) + 1
  <2>1. i + 1 \in 0..(hd - 1)
    BY <1>3, <1>4, <1>10
  <2>2. e + 1 = r + (i + 1) /\ Attention!KeyCell(e) + 1 = R + (i + 1)
    BY <1>3, <1>7, <1>9
  <2> QED BY <1>8, <2>1, <2>2
<1>11. ASSUME i > 0
       PROVE  /\ e - 1 \in Attention!Elements /\ (e - 1) % hd = i - 1
              /\ Attention!KeyCell(e - 1) = Attention!KeyCell(e) - 1
  <2>1. i - 1 \in 0..(hd - 1)
    BY <1>3, <1>4, <1>11
  <2>2. e - 1 = r + (i - 1) /\ Attention!KeyCell(e) - 1 = R + (i - 1)
    BY <1>3, <1>7, <1>9
  <2> QED BY <1>8, <2>1, <2>2
<1>12. i \in Nat /\ i < hd
  BY <1>3, <1>4
<1> QED
  BY <1>2, <1>5, <1>6, <1>10, <1>11, <1>12 DEF hd

\* The cells in which an element of the chunk, or it and the next, are stored.
KeyCells(e) == Attention!Stored(e, Attention!KeyCell(e), e % shape.headDim)
ValueCells(e) == Attention!Stored(e, Attention!Plane + Attention!KeyCell(e), e % shape.headDim)

\* Keys are stored in their cells, values a plane on, each cell once.
LEMMA AppendCells ==
  ASSUME AttentionCallOK
  PROVE  /\ \A e \in Attention!Elements :
              /\ e \in Nat /\ Attention!KeyCell(e) \in Nat /\ Attention!KeyCell(e) < Attention!Plane
              /\ \A x \in KeyCells(e) : \E f \in Attention!Elements : x = Attention!KeyCell(f)
              /\ \E f \in Attention!Elements : Attention!KeyCell(e) \in KeyCells(f)
              /\ \A x \in ValueCells(e) :
                   \E f \in Attention!Elements : x = Attention!Plane + Attention!KeyCell(f)
              /\ \E f \in Attention!Elements : Attention!Plane + Attention!KeyCell(e) \in ValueCells(f)
         /\ \A e, f \in Attention!Elements : e # f =>
              KeyCells(e) \cap KeyCells(f) = {} /\ ValueCells(e) \cap ValueCells(f) = {}
         /\ Attention!Plane \in Nat
<1> DEFINE E == Attention!Elements
           hd == shape.headDim
           K(e) == Attention!Stored(e, Attention!KeyCell(e), e % hd)
           V(e) == Attention!Stored(e, Attention!Plane + Attention!KeyCell(e), e % hd)
           keyCell == [e \in E |-> Attention!KeyCell(e)]
           valueCell == [e \in E |-> Attention!Plane + Attention!KeyCell(e)]
<1>1. hd \in Nat \ {0} /\ AttentionContext \in Nat /\ Attention!Plane \in Nat
  <2>1. hd \in Nat \ {0} /\ AttentionContext \in Nat /\ Attention!KvSize(shape) \in Nat
    BY AttentionShapeFacts, KernelAssumption DEF AttentionCallOK, Attention!ContextAssumption
  <2>2. Attention!Plane = AttentionContext * Attention!KvSize(shape)
    BY DEF Attention!Plane
  <2> QED BY <2>1, <2>2, SMT
<1>2. /\ \A e \in E : e \in Nat /\ Attention!KeyCell(e) \in Nat /\ Attention!KeyCell(e) < Attention!Plane
                      /\ e % hd \in Nat /\ e % hd < hd
      /\ \A e, f \in E : Attention!KeyCell(e) = Attention!KeyCell(f) => e = f
      /\ \A e \in E : (e % hd) + 1 < hd =>
           e + 1 \in E /\ (e + 1) % hd = (e % hd) + 1 /\ Attention!KeyCell(e + 1) = Attention!KeyCell(e) + 1
      /\ \A e \in E : e % hd > 0 =>
           e - 1 \in E /\ (e - 1) % hd = (e % hd) - 1 /\ Attention!KeyCell(e - 1) = Attention!KeyCell(e) - 1
  BY ElementNext
<1> HIDE DEF E
<1>3. E \in SUBSET Nat /\ keyCell \in [E -> Nat] /\ valueCell \in [E -> Nat]
  BY <1>1, <1>2
<1>4. /\ \A e \in E : \A x \in K(e) : \E f \in E : x = Attention!KeyCell(f)
      /\ \A e \in E : \E f \in E : Attention!KeyCell(e) \in K(f)
      /\ \A e, f \in E : e # f => K(e) \cap K(f) = {}
  <2>1. /\ \A e, f \in E : keyCell[e] = keyCell[f] => e = f
        /\ \A e \in E : (e % hd) + 1 < hd =>
             e + 1 \in E /\ (e + 1) % hd = (e % hd) + 1 /\ keyCell[e + 1] = keyCell[e] + 1
        /\ \A e \in E : e % hd > 0 =>
             e - 1 \in E /\ (e - 1) % hd = (e % hd) - 1 /\ keyCell[e - 1] = keyCell[e] - 1
    BY <1>2
  <2>2. \A e \in E : e % hd \in Nat /\ e % hd < hd
    BY <1>2
  <2>3. \A e \in E : keyCell[e] = Attention!KeyCell(e)
    OBVIOUS
  <2> HIDE DEF keyCell
  <2>4. /\ \A e \in E : \A x \in Attention!Stored(e, keyCell[e], e % hd) : \E f \in E : x = keyCell[f]
        /\ \A e \in E : \E f \in E : keyCell[e] \in Attention!Stored(f, keyCell[f], f % hd)
        /\ \A e, f \in E : e # f =>
             Attention!Stored(e, keyCell[e], e % hd) \cap Attention!Stored(f, keyCell[f], f % hd) = {}
    BY ONLY <1>1, <1>3, <2>1, <2>2, StoredOnce
  <2>5. \A e \in E : Attention!Stored(e, keyCell[e], e % hd) = K(e)
    BY ONLY <2>3
  <2> HIDE DEF K
  <2>6. ASSUME NEW e \in E, NEW x \in K(e) PROVE \E f \in E : x = Attention!KeyCell(f)
    <3>1. PICK f \in E : x = keyCell[f]
      BY <2>4, <2>5
    <3> QED BY <2>3, <3>1
  <2>7. ASSUME NEW e \in E PROVE \E f \in E : Attention!KeyCell(e) \in K(f)
    <3>1. PICK f \in E : keyCell[e] \in Attention!Stored(f, keyCell[f], f % hd)
      BY <2>4
    <3> QED BY <2>3, <2>5, <3>1
  <2>8. ASSUME NEW e \in E, NEW f \in E, e # f PROVE K(e) \cap K(f) = {}
    BY <2>4, <2>5, <2>8
  <2> QED BY ONLY <2>6, <2>7, <2>8
<1>5. /\ \A e \in E : \A x \in V(e) : \E f \in E : x = Attention!Plane + Attention!KeyCell(f)
      /\ \A e \in E : \E f \in E : Attention!Plane + Attention!KeyCell(e) \in V(f)
      /\ \A e, f \in E : e # f => V(e) \cap V(f) = {}
  <2>1. \A e \in E : valueCell[e] = Attention!Plane + Attention!KeyCell(e)
    OBVIOUS
  <2> HIDE DEF valueCell
  <2>2. ASSUME NEW e \in E, NEW f \in E, valueCell[e] = valueCell[f] PROVE e = f
    <3>1. Attention!Plane + Attention!KeyCell(e) = Attention!Plane + Attention!KeyCell(f)
      BY <2>1, <2>2
    <3>2. Attention!KeyCell(e) \in Nat /\ Attention!KeyCell(f) \in Nat
      BY <1>2
    <3>3. Attention!KeyCell(e) = Attention!KeyCell(f)
      BY ONLY <1>1, <3>1, <3>2
    <3> QED BY <1>2, <3>3
  <2>3. ASSUME NEW e \in E, (e % hd) + 1 < hd
        PROVE  e + 1 \in E /\ (e + 1) % hd = (e % hd) + 1 /\ valueCell[e + 1] = valueCell[e] + 1
    <3>1. e + 1 \in E /\ (e + 1) % hd = (e % hd) + 1 /\ Attention!KeyCell(e + 1) = Attention!KeyCell(e) + 1
      BY <1>2, <2>3
    <3>2. Attention!KeyCell(e) \in Nat
      BY <1>2
    <3>3. /\ valueCell[e + 1] = Attention!Plane + (Attention!KeyCell(e) + 1)
          /\ valueCell[e] = Attention!Plane + Attention!KeyCell(e)
      BY <2>1, <3>1
    <3>4. valueCell[e + 1] = valueCell[e] + 1
      BY ONLY <1>1, <3>2, <3>3
    <3> QED BY <3>1, <3>4
  <2>4. ASSUME NEW e \in E, e % hd > 0
        PROVE  e - 1 \in E /\ (e - 1) % hd = (e % hd) - 1 /\ valueCell[e - 1] = valueCell[e] - 1
    <3>1. e - 1 \in E /\ (e - 1) % hd = (e % hd) - 1 /\ Attention!KeyCell(e - 1) = Attention!KeyCell(e) - 1
      BY <1>2, <2>4
    <3>2. Attention!KeyCell(e) \in Nat
      BY <1>2
    <3>3. /\ valueCell[e - 1] = Attention!Plane + (Attention!KeyCell(e) - 1)
          /\ valueCell[e] = Attention!Plane + Attention!KeyCell(e)
      BY <2>1, <3>1
    <3>4. valueCell[e - 1] = valueCell[e] - 1
      BY ONLY <1>1, <3>2, <3>3
    <3> QED BY <3>1, <3>4
  <2>5. \A e \in E : e % hd \in Nat /\ e % hd < hd
    BY <1>2
  <2>6. /\ \A e \in E : \A x \in Attention!Stored(e, valueCell[e], e % hd) : \E f \in E : x = valueCell[f]
        /\ \A e \in E : \E f \in E : valueCell[e] \in Attention!Stored(f, valueCell[f], f % hd)
        /\ \A e, f \in E : e # f =>
             Attention!Stored(e, valueCell[e], e % hd) \cap Attention!Stored(f, valueCell[f], f % hd) = {}
    BY ONLY <1>1, <1>3, <2>2, <2>3, <2>4, <2>5, StoredOnce
  <2>7. \A e \in E : Attention!Stored(e, valueCell[e], e % hd) = V(e)
    BY ONLY <2>1
  <2> HIDE DEF V
  <2>8. ASSUME NEW e \in E, NEW x \in V(e) PROVE \E f \in E : x = Attention!Plane + Attention!KeyCell(f)
    <3>1. PICK f \in E : x = valueCell[f]
      BY <2>6, <2>7
    <3> QED BY <2>1, <3>1
  <2>9. ASSUME NEW e \in E PROVE \E f \in E : Attention!Plane + Attention!KeyCell(e) \in V(f)
    <3>1. PICK f \in E : valueCell[e] \in Attention!Stored(f, valueCell[f], f % hd)
      BY <2>6
    <3> QED BY <2>1, <2>7, <3>1
  <2>10. ASSUME NEW e \in E, NEW f \in E, e # f PROVE V(e) \cap V(f) = {}
    BY <2>6, <2>7, <2>10
  <2> QED BY ONLY <2>8, <2>9, <2>10
<1> HIDE DEF K, V
<1>6. \A e \in E : K(e) = KeyCells(e) /\ V(e) = ValueCells(e)
  BY DEF K, V, KeyCells, ValueCells, hd
<1>7. /\ \A e \in E : \A x \in KeyCells(e) : \E f \in E : x = Attention!KeyCell(f)
      /\ \A e \in E : \E f \in E : Attention!KeyCell(e) \in KeyCells(f)
      /\ \A e, f \in E : e # f => KeyCells(e) \cap KeyCells(f) = {}
  BY ONLY <1>4, <1>6
<1>8. /\ \A e \in E : \A x \in ValueCells(e) : \E f \in E : x = Attention!Plane + Attention!KeyCell(f)
      /\ \A e \in E : \E f \in E : Attention!Plane + Attention!KeyCell(e) \in ValueCells(f)
      /\ \A e, f \in E : e # f => ValueCells(e) \cap ValueCells(f) = {}
  BY ONLY <1>5, <1>6
<1>9. \A e \in E : e \in Nat /\ Attention!KeyCell(e) \in Nat /\ Attention!KeyCell(e) < Attention!Plane
  BY <1>2
<1> QED
  BY ONLY <1>1, <1>7, <1>8, <1>9 DEF E

\* Keys are stored in their plane and values in theirs: all rows of the chunk, each once.
LEMMA AppendStoresOnce ==
  ASSUME AttentionCallOK
  PROVE  Attention!AppendsOnce
<1> DEFINE E == Attention!Elements
           K(e) == KeyCells(e)
           V(e) == ValueCells(e)
           stores == [e \in E |-> DOMAIN Attention!AppendOf(e)]
           rows_ == {Attention!CacheIndex(past + t, h, i) :
                       t \in Attention!Range0(tokens), h \in Attention!Range0(shape.kvHeads),
                       i \in Attention!Range0(shape.headDim)}
<1>1. Attention!Plane \in Nat
  BY AppendCells
<1>2. \A e \in E : e \in Nat /\ Attention!KeyCell(e) \in Nat /\ Attention!KeyCell(e) < Attention!Plane
  BY AppendCells
<1> HIDE DEF E, K, V
<1>3. /\ \A e \in E : \A x \in K(e) : \E f \in E : x = Attention!KeyCell(f)
      /\ \A e \in E : \E f \in E : Attention!KeyCell(e) \in K(f)
      /\ \A e, f \in E : e # f => K(e) \cap K(f) = {}
  BY AppendCells DEF E, K
<1>4. /\ \A e \in E : \A x \in V(e) : \E f \in E : x = Attention!Plane + Attention!KeyCell(f)
      /\ \A e \in E : \E f \in E : Attention!Plane + Attention!KeyCell(e) \in V(f)
      /\ \A e, f \in E : e # f => V(e) \cap V(f) = {}
  BY AppendCells DEF E, V
<1>5. \A e \in E : stores[e] = K(e) \cup V(e)
  BY DEF Attention!AppendOf, K, V, KeyCells, ValueCells
<1> HIDE DEF stores
<1>6. ASSUME NEW x PROVE x \in rows_ <=> \E e \in E : x = Attention!KeyCell(e)
  <2>1. ASSUME NEW t \in Attention!Range0(tokens), NEW h \in Attention!Range0(shape.kvHeads),
               NEW i \in Attention!Range0(shape.headDim)
        PROVE  \E e \in E : Attention!CacheIndex(past + t, h, i) = Attention!KeyCell(e)
    <3>1. PICK e : IsElement(e, t, h, i)
      BY DEF IsElement, Attention!Range0
    <3> QED BY <3>1, ElementPlace DEF E
  <2>2. ASSUME NEW e \in E PROVE Attention!KeyCell(e) \in rows_
    <3>1. PICK t, h, i : IsElement(e, t, h, i)
      BY ElementParts DEF E
    <3>2. Attention!KeyCell(e) = Attention!CacheIndex(past + t, h, i)
      BY <3>1, ElementPlace
    <3> QED BY <3>1, <3>2 DEF IsElement, Attention!Range0
  <2> QED BY <2>1, <2>2
<1> HIDE DEF rows_
<1>7. UNION {stores[e] : e \in E} = rows_ \cup {Attention!Plane + cell : cell \in rows_}
  <2>1. \A x : x \in UNION {stores[e] : e \in E} <=> \E e \in E : x \in K(e) \cup V(e)
    BY <1>5
  <2>2. ASSUME NEW x, NEW e \in E, x \in K(e) \cup V(e)
        PROVE  x \in rows_ \cup {Attention!Plane + cell : cell \in rows_}
    <3>1. CASE x \in K(e)
      <4>1. PICK f \in E : x = Attention!KeyCell(f)
        BY <1>3, <3>1
      <4>2. x \in rows_
        BY <1>6, <4>1
      <4> QED BY <4>2
    <3>2. CASE x \in V(e)
      <4>1. PICK f \in E : x = Attention!Plane + Attention!KeyCell(f)
        BY <1>4, <3>2
      <4>2. Attention!KeyCell(f) \in rows_
        BY <1>6
      <4> QED BY <4>1, <4>2
    <3> QED BY <2>2, <3>1, <3>2
  <2>3. ASSUME NEW x \in rows_ PROVE \E e \in E : x \in K(e) \cup V(e)
    BY <1>3, <1>6
  <2>4. ASSUME NEW cell \in rows_ PROVE \E e \in E : Attention!Plane + cell \in K(e) \cup V(e)
    <3>1. PICK f \in E : cell = Attention!KeyCell(f)
      BY <1>6
    <3> QED BY <1>4, <3>1
  <2> QED BY <2>1, <2>2, <2>3, <2>4
<1>8. ASSUME NEW e \in E, NEW f \in E, e # f PROVE stores[e] \cap stores[f] = {}
  <2>1. ASSUME NEW x \in K(e), x \in V(f) PROVE FALSE
    <3>1. x < Attention!Plane /\ x \in Nat
      BY <1>2, <1>3
    <3>2. PICK g \in E : x = Attention!Plane + Attention!KeyCell(g)
      BY <1>4, <2>1
    <3>3. Attention!KeyCell(g) \in Nat
      BY <1>2
    <3> QED BY ONLY <1>1, <3>1, <3>2, <3>3
  <2>2. ASSUME NEW x \in V(e), x \in K(f) PROVE FALSE
    <3>1. x < Attention!Plane /\ x \in Nat
      BY <1>2, <1>3, <2>2
    <3>2. PICK g \in E : x = Attention!Plane + Attention!KeyCell(g)
      BY <1>4, <2>2
    <3>3. Attention!KeyCell(g) \in Nat
      BY <1>2
    <3> QED BY ONLY <1>1, <3>1, <3>2, <3>3
  <2>3. K(e) \cap K(f) = {} /\ V(e) \cap V(f) = {}
    BY <1>3, <1>4, <1>8
  <2> QED BY <1>5, <2>1, <2>2, <2>3
<1> QED
  BY <1>7, <1>8 DEF Attention!AppendsOnce, stores, rows_, E

\* Logits of a token, head and key have a float each, inside the workspace.
LEMMA LogitsInside ==
  ASSUME AttentionCallOK
  PROVE  Attention!LogitsStayInside
<1> SUFFICES ASSUME tokens > 0 PROVE Attention!LogitsStayInside
  BY DEF Attention!LogitsStayInside
<1> DEFINE C == Attention!Context
           qh == shape.queryHeads
           pairs == {p \in Attention!Cells \X Attention!Range0(C) : p[2] \in Attention!Visible(p[1][1])}
           row_(p) == p[1][1] * qh + p[1][2]
           index(p) == Attention!LogitIndex(p[1][1], p[1][2], p[2])
<1>1. /\ qh \in Nat \ {0} /\ tokens \in Nat /\ C \in Nat /\ C <= AttentionContext
      /\ AttentionContext \in Nat /\ AttentionTokens \in Nat /\ tokens <= AttentionTokens
  BY AttentionShapeFacts, KernelAssumption DEF AttentionCallOK, Attention!ContextAssumption, Attention!Context
<1>2. \A p : index(p) = row_(p) * C + p[2]
  BY DEF Attention!LogitIndex
<1>3. ASSUME NEW p \in pairs
      PROVE  /\ p = <<<<p[1][1], p[1][2]>>, p[2]>> /\ p[1][1] \in 0..(tokens - 1)
             /\ p[1][2] \in 0..(qh - 1) /\ p[2] \in 0..(C - 1)
  BY DEF Attention!Cells, Attention!Range0
<1> HIDE DEF C, qh, pairs, index
<1>4. tokens * qh \in Nat
  BY <1>1, SMT
<1>5. ASSUME NEW p \in pairs PROVE row_(p) \in Nat /\ row_(p) < tokens * qh
  BY <1>1, <1>3, Digits
<1>6. \A n, c : Attention!WorkspaceFloats(shape, n, c) = n * qh * c
  BY DEF Attention!WorkspaceFloats, qh
<1>7. ASSUME NEW p \in pairs PROVE index(p) < Attention!WorkspaceFloats(shape, tokens, C)
  <2>1. row_(p) \in 0..(tokens * qh - 1) /\ p[2] \in 0..(C - 1)
    BY <1>3, <1>4, <1>5
  <2> HIDE DEF row_
  <2>2. row_(p) * C + p[2] < (tokens * qh) * C
    BY ONLY <1>1, <1>4, <2>1, Digits
  <2> QED BY <1>2, <1>6, <2>2
<1>8. ASSUME NEW p \in pairs, NEW q \in pairs, index(p) = index(q) PROVE p = q
  <2> DEFINE x == row_(p)
             y == row_(q)
  <2>1. PICK v, w : v = p[2] /\ w = q[2]
    OBVIOUS
  <2>2. x \in Nat /\ y \in Nat /\ x * C + v = y * C + w
    BY <1>2, <1>5, <1>8, <2>1
  <2>3. v \in 0..(C - 1) /\ w \in 0..(C - 1)
    BY <1>3, <2>1
  <2> HIDE DEF x, y
  <2>4. x = y /\ v = w
    BY ONLY <1>1, <2>2, <2>3, DigitsApart
  <2>5. PICK s, h, t, g : s = p[1][1] /\ h = p[1][2] /\ t = q[1][1] /\ g = q[1][2]
    OBVIOUS
  <2>6. s * qh + h = t * qh + g
    BY <2>4, <2>5 DEF x, y
  <2>7. s \in Nat /\ t \in Nat /\ h \in 0..(qh - 1) /\ g \in 0..(qh - 1)
    BY <1>1, <1>3, <2>5
  <2>8. s = t /\ h = g
    BY ONLY <1>1, <2>6, <2>7, DigitsApart
  <2>9. p = <<<<s, h>>, v>> /\ q = <<<<t, g>>, w>>
    BY <1>3, <2>1, <2>5
  <2> QED BY ONLY <2>4, <2>8, <2>9
<1>9. Attention!WorkspaceFloats(shape, tokens, C) <=
        Attention!WorkspaceFloats(shape, AttentionTokens, AttentionContext)
  <2> DEFINE m == tokens * qh
             M == AttentionTokens * qh
  <2>1. m \in Nat /\ M \in Nat /\ m <= M
    <3>1. qh * tokens <= qh * AttentionTokens /\ qh * AttentionTokens \in Nat
      BY <1>1, Grows
    <3>2. qh * tokens = m /\ qh * AttentionTokens = M
      BY <1>1, Multiplied
    <3> QED BY <1>4, <3>1, <3>2
  <2> HIDE DEF m, M
  <2>2. m * C <= m * AttentionContext /\ m * C \in Nat /\ m * AttentionContext \in Nat
    BY <1>1, <2>1, Grows
  <2>3. AttentionContext * m <= AttentionContext * M /\ AttentionContext * M \in Nat
    BY <1>1, <2>1, Grows
  <2>4. AttentionContext * m = m * AttentionContext /\ AttentionContext * M = M * AttentionContext
    BY <1>1, <2>1, Multiplied
  <2>5. m * C <= M * AttentionContext
    BY <2>2, <2>3, <2>4
  <2> QED BY <1>6, <2>5 DEF m, M
<1> QED
  BY <1>7, <1>8, <1>9 DEF Attention!LogitsStayInside, pairs, index, C

\* In every kernel of a gated delta layer each thread has floats of its own to
\* write, that no other reads, and stays in what the caller was asked for; the
\* threads that append to the cache fill the rows of the chunk, each cell once, in
\* either type and layout; and logits lie in the workspace a session has. So no
\* order among threads can matter, for any shape, schedule and chunk.
THEOREM KernelThreadsStayApart == KernelsSpec => []ThreadsStayApart
<1>1. GridInv => ThreadsStayApart
  BY DeltaThreadsApart, AppendStoresOnce, LogitsInside DEF GridInv, ThreadsStayApart
<1>2. GridInv /\ [KernelsNext]_kernelsVars => GridInv'
  BY GridKeeps
<1> QED
  BY GridStarts, <1>1, <1>2, PTL DEF KernelsSpec

-----------------------------------------------------------------------------
(* Attention: what the arrays hold *)

\* The reference's queries and keys of a token of the sequence.
QueryRow(t, h) == Attention!Turned(shape, Attention!Normed(Attention!QueryOf(shape, t, h)), t)
KeyRow(t, g) == Attention!Turned(shape, Attention!Normed(Attention!KeyOf(shape, t, g)), t)

QHeads == 0..(shape.queryHeads - 1)
KHeads == 0..(shape.kvHeads - 1)
Places == 0..(shape.headDim - 1)
Chunk == 0..(tokens - 1)

\* Queries of the chunk as they are split, and after their kernel; and the gates.
SplitIn(query) ==
  /\ DOMAIN query = 0..(tokens * Attention!QuerySize(shape) - 1)
  /\ \A t \in Chunk, h \in QHeads, i \in Places :
       query[Attention!OutputIndex(t, h, i)] = Attention!QueryOf(shape, past + t, h)[i]
GatesIn(gate) ==
  \A t \in Chunk, h \in QHeads, i \in Places :
    gate[Attention!OutputIndex(t, h, i)] = Attention!GateOf(shape, past + t, h, i)
QueriesIn(query) ==
  \A t \in Chunk, h \in QHeads, i \in Places :
    query[Attention!OutputIndex(t, h, i)] = QueryRow(past + t, h)[i]

\* Keys of the chunk after their kernel.
KeyPlace(t, g, i) == (t * shape.kvHeads + g) * shape.headDim + i
KeysIn(key_) ==
  \A t \in Chunk, g \in KHeads, i \in Places : key_[KeyPlace(t, g, i)] = KeyRow(past + t, g)[i]

\* The cache with the keys and values of the first m tokens of the sequence.
CacheHolds(held, m) ==
  /\ DOMAIN held = 0..(2 * AttentionContext * Attention!KvSize(shape) - 1)
  /\ \A t \in 0..(m - 1), g \in KHeads, i \in Places :
       /\ held[Attention!CacheIndex(t, g, i)] = KeyRow(t, g)[i]
       /\ held[Attention!Plane + Attention!CacheIndex(t, g, i)] = Attention!ValueOf(shape, t, g, i)

\* The logit of a token of the chunk and a key it sees, and its probability.
LogitOf(t, h, k) ==
  Attention!Dot(QueryRow(past + t, h), KeyRow(k, Attention!KvHead(shape, h)))
ProbabilityOf(t, h, k) == <<"p", LogitOf(t, h, k), 0..(past + t), 0..(past + t)>>

LogitsIn(array_) ==
  \A t \in Chunk, h \in QHeads : \A k \in 0..(past + t) :
    array_[Attention!LogitIndex(t, h, k)] = LogitOf(t, h, k)
ProbabilitiesIn(array_) ==
  \A t \in Chunk, h \in QHeads : \A k \in 0..(past + t) :
    array_[Attention!LogitIndex(t, h, k)] = ProbabilityOf(t, h, k)

\* What the reference makes of a place of a head of a token of the chunk.
AttendedAt(t, h, i) == Attention!Attended(shape, past + t)[h * shape.headDim + i]
OutputIn(array_) ==
  \A t \in Chunk, h \in QHeads, i \in Places :
    array_[Attention!OutputIndex(t, h, i)] = AttendedAt(t, h, i)

\* The kernels of the call, and those left after k of them.
CallKernels == Attention!Kernels(shape, policy, tokens)
Left(k) == SubSeq(CallKernels, k + 1, Len(CallKernels))

\* What k kernels have made.
Done(k) ==
  /\ CacheHolds(rowsKept, IF k < 4 THEN past ELSE past + tokens)
  /\ k >= 1 => GatesIn(buffers.gate)
  /\ k = 1 => SplitIn(buffers.query)
  /\ k >= 2 => QueriesIn(buffers.query)
  /\ k = 3 => KeysIn(buffers.key)
  /\ k >= 1 /\ CallKernels[k] \in {"logits", "decode_logits"} => LogitsIn(logits)
  /\ k >= 1 /\ CallKernels[k] = "decode_softmax" => ProbabilitiesIn(logits)
  /\ k = Len(CallKernels) => OutputIn(output)

\* The invariant: in a call, whatever k kernels have made is there.
AttendInv ==
  /\ DOMAIN buffers = {"query", "key", "gate"}
  /\ DOMAIN logits = 0..(Attention!WorkspaceFloats(shape, AttentionTokens, AttentionContext) - 1)
  /\ DOMAIN output = 0..(AttentionTokens * Attention!QuerySize(shape) - 1)
  /\ phase \in {"idle", "busy", "poisoned"}
  /\ phase # "busy" => kernels = <<>>
  /\ phase = "idle" => CacheHolds(rowsKept, past)
  /\ phase = "busy" =>
       /\ tokens # 0 /\ Attention!Attend(shape, policy, tokens) # <<>>
       /\ \E k \in 0..Len(CallKernels) : kernels = Left(k) /\ Done(k)

-----------------------------------------------------------------------------
(* Attention: places *)

\* A number of three digits, the second below b and the third below c.
Spelled(x, n, b, c, t, h, i) ==
  /\ b * c \in Nat \ {0} /\ n * (b * c) \in Nat
  /\ x \in Nat /\ x < n * (b * c)
  /\ x \div c = t * b + h /\ x % c = i
  /\ t * b + h \in Nat /\ (t * b + h) \div b = t /\ (t * b + h) % b = h
  /\ x \div (b * c) = t /\ x % (b * c) = h * c + i
  /\ x = t * (b * c) + (h * c + i)
  /\ h * c + i \in 0..(b * c - 1)
  /\ (h * c + i) \div c = h /\ (h * c + i) % c = i

\* Two digits below a third make such a number, and are its digits.
LEMMA ThreeDigits ==
  ASSUME NEW n \in Nat, NEW b \in Nat, NEW c \in Nat,
         NEW t \in 0..(n - 1), NEW h \in 0..(b - 1), NEW i \in 0..(c - 1)
  PROVE  Spelled((t * b + h) * c + i, n, b, c, t, h, i)
<1> DEFINE r == t * b + h
           w == h * c + i
           m == b * c
<1>1. /\ t \in Nat /\ h \in Nat /\ i \in Nat /\ n \in Nat \ {0} /\ b \in Nat \ {0} /\ c \in Nat \ {0}
      /\ r \in Nat /\ r < n * b /\ n * b \in Nat /\ t * b \in Nat
  BY Digits
<1>2. w \in Nat /\ w < m /\ m \in Nat /\ h * c \in Nat
  BY <1>1, Digits
<1>3. m # 0 /\ w \in 0..(m - 1)
  BY <1>2
<1>4. r * c + i = t * m + w
  <2>1. c * (t * b + h) = c * (t * b) + c * h
    BY <1>1, Multiplied
  <2>2. /\ c * (t * b) = (t * b) * c /\ (t * b) * c = t * (b * c) /\ c * h = h * c
        /\ r * c = c * (t * b + h) /\ t * (b * c) \in Int
    BY <1>1, Multiplied
  <2> QED BY <1>1, <1>2, <2>1, <2>2
<1>5. r \div b = t /\ r % b = h
  BY <1>1, DivisionUnique
<1>6. w \div c = h /\ w % c = i
  BY <1>1, DivisionUnique
<1> HIDE DEF r, w, m
<1>7. (r * c + i) \div c = r /\ (r * c + i) % c = i
  BY ONLY <1>1, i \in 0..(c - 1), DivisionUnique
<1>8. (t * m + w) \div m = t /\ (t * m + w) % m = w
  BY ONLY <1>1, <1>2, <1>3, DivisionUnique
<1>9. t * m + w \in Nat /\ t * m + w < n * m /\ n * m \in Nat
  BY ONLY <1>2, <1>3, n \in Nat, t \in 0..(n - 1), Digits
<1>10. m \in Nat \ {0}
  BY <1>2, <1>3
<1>11. (r * c + i) \div m = t /\ (r * c + i) % m = w /\ r * c + i \in Nat /\ r * c + i < n * m
  BY <1>4, <1>8, <1>9
<1> QED
  BY <1>1, <1>3, <1>4, <1>5, <1>6, <1>7, <1>9, <1>10, <1>11 DEF Spelled, r, w, m

\* What is known of the numbers of a call.
LEMMA CallNumbers ==
  ASSUME AttentionCallOK
  PROVE  /\ shape.queryHeads \in Nat \ {0} /\ shape.kvHeads \in Nat \ {0} /\ shape.headDim \in Nat \ {0}
         /\ shape.rotary \in Nat /\ shape.rotary <= shape.headDim /\ shape.rotary % 2 = 0
         /\ tokens \in Nat /\ past \in Nat /\ AttentionContext \in Nat /\ AttentionTokens \in Nat
         /\ tokens <= AttentionTokens /\ past + tokens <= AttentionContext
         /\ Attention!QuerySize(shape) = shape.queryHeads * shape.headDim
         /\ Attention!KvSize(shape) = shape.kvHeads * shape.headDim
         /\ Attention!QuerySize(shape) \in Nat \ {0} /\ Attention!KvSize(shape) \in Nat \ {0}
<1>1. /\ shape.queryHeads \in Nat \ {0} /\ shape.kvHeads \in Nat \ {0} /\ shape.headDim \in Nat \ {0}
      /\ Attention!KvSize(shape) = shape.kvHeads * shape.headDim
      /\ Attention!KvSize(shape) \in Nat \ {0}
  BY AttentionShapeFacts DEF AttentionCallOK
<1>2. shape.rotary \in Nat /\ shape.rotary <= shape.headDim /\ shape.rotary % 2 = 0
  BY DEF AttentionCallOK, AttentionFields, Attention!Valid, Attention!ValidFull
<1>3. /\ tokens \in Nat /\ past \in Nat /\ AttentionContext \in Nat /\ AttentionTokens \in Nat
      /\ tokens <= AttentionTokens /\ past + tokens <= AttentionContext
  BY KernelAssumption DEF Attention!ContextAssumption, AttentionCallOK
<1>4. Attention!QuerySize(shape) = shape.queryHeads * shape.headDim
  BY DEF Attention!QuerySize
<1>5. shape.queryHeads * shape.headDim \in Nat /\ shape.queryHeads * shape.headDim # 0
  BY <1>1, SMT
<1> QED
  BY <1>1, <1>2, <1>3, <1>4, <1>5

\* Where a place of a head of a token of the chunk is in queries and outputs.
LEMMA OutputPlace ==
  ASSUME AttentionCallOK, NEW t \in Chunk, NEW h \in QHeads, NEW i \in Places
  PROVE  LET e == Attention!OutputIndex(t, h, i)
             sz == Attention!QuerySize(shape)
         IN /\ e \in Nat /\ e \in 0..(tokens * sz - 1) /\ e \in 0..(AttentionTokens * sz - 1)
            /\ e \div shape.headDim = t * shape.queryHeads + h /\ e % shape.headDim = i
            /\ (t * shape.queryHeads + h) \div shape.queryHeads = t
            /\ (t * shape.queryHeads + h) % shape.queryHeads = h
            /\ t * shape.queryHeads + h \in Nat
            /\ e \div sz = t /\ e % sz = h * shape.headDim + i
            /\ h * shape.headDim + i \in 0..(sz - 1)
            /\ (h * shape.headDim + i) \div shape.headDim = h
            /\ (h * shape.headDim + i) % shape.headDim = i
            /\ e = t * sz + (h * shape.headDim + i)
<1> DEFINE qh == shape.queryHeads
           hd == shape.headDim
           sz == Attention!QuerySize(shape)
           e == (t * qh + h) * hd + i
<1>1. /\ qh \in Nat \ {0} /\ hd \in Nat \ {0} /\ tokens \in Nat /\ sz = qh * hd /\ sz \in Nat \ {0}
      /\ AttentionTokens \in Nat /\ tokens <= AttentionTokens
  BY CallNumbers
<1>2. t \in 0..(tokens - 1) /\ h \in 0..(qh - 1) /\ i \in 0..(hd - 1)
  BY DEF Chunk, QHeads, Places
<1> HIDE DEF qh, hd, sz
<1>3. Spelled(e, tokens, qh, hd, t, h, i)
  BY <1>1, <1>2, ThreeDigits
<1>4. /\ e \in Nat /\ e < tokens * (qh * hd) /\ tokens * (qh * hd) \in Nat
      /\ e \div hd = t * qh + h /\ e % hd = i /\ t * qh + h \in Nat
      /\ (t * qh + h) \div qh = t /\ (t * qh + h) % qh = h
  BY ONLY <1>3 DEF Spelled
<1>6. /\ e \div sz = t /\ e % sz = h * hd + i
       /\ e = t * sz + (h * hd + i)
       /\ h * hd + i \in 0..(sz - 1) /\ (h * hd + i) \div hd = h /\ (h * hd + i) % hd = i
  BY ONLY <1>1, <1>3 DEF Spelled
<1>5. tokens * sz <= AttentionTokens * sz /\ tokens * sz \in Nat /\ AttentionTokens * sz \in Nat
  <2>1. sz * tokens <= sz * AttentionTokens /\ sz * tokens \in Nat /\ sz * AttentionTokens \in Nat
    BY <1>1, Grows
  <2>2. sz * tokens = tokens * sz /\ sz * AttentionTokens = AttentionTokens * sz
    BY <1>1, Multiplied
  <2> QED BY <2>1, <2>2
<1>7. Attention!OutputIndex(t, h, i) = e
  BY DEF Attention!OutputIndex, qh, hd
<1> HIDE DEF e
<1>8. e \in 0..(tokens * sz - 1) /\ e \in 0..(AttentionTokens * sz - 1)
  <2> DEFINE m == tokens * sz
             M == AttentionTokens * sz
  <2>1. e \in Nat /\ e < m /\ m <= M /\ m \in Nat /\ M \in Nat
    BY <1>1, <1>4, <1>5
  <2> HIDE DEF m, M
  <2>2. e \in 0..(m - 1) /\ e \in 0..(M - 1)
    BY ONLY <2>1
  <2> QED BY <2>2 DEF m, M
<1> QED
  BY <1>4, <1>6, <1>7, <1>8 DEF qh, hd, sz

\* Where a place of a head of keys is.
LEMMA KeyPlaceIs ==
  ASSUME AttentionCallOK, NEW t \in Chunk, NEW g \in KHeads, NEW i \in Places
  PROVE  Spelled(KeyPlace(t, g, i), tokens, shape.kvHeads, shape.headDim, t, g, i)
<1> DEFINE kv == shape.kvHeads
           hd == shape.headDim
<1>1. kv \in Nat /\ hd \in Nat /\ tokens \in Nat
  BY CallNumbers
<1>2. t \in 0..(tokens - 1) /\ g \in 0..(kv - 1) /\ i \in 0..(hd - 1)
  BY DEF Chunk, KHeads, Places
<1>3. Spelled((t * kv + g) * hd + i, tokens, kv, hd, t, g, i)
  <2> HIDE DEF kv, hd
  <2> QED BY ONLY <1>1, <1>2, ThreeDigits
<1> QED
  BY <1>3 DEF KeyPlace

-----------------------------------------------------------------------------
(* Attention: what the kernels before the cache make *)

\* Queries and gates are those of the projection.
LEMMA SplitFills ==
  ASSUME AttentionCallOK, DOMAIN buffers = {"query", "key", "gate"}, Attention!Split
  PROVE  /\ DOMAIN buffers' = {"query", "key", "gate"}
         /\ SplitIn(buffers'.query) /\ GatesIn(buffers'.gate)
<1> DEFINE qh == shape.queryHeads
           hd == shape.headDim
           sz == Attention!QuerySize(shape)
           source(index) == (index \div sz) * 2 * sz + ((index % sz) \div hd) * 2 * hd + (index % hd)
           from(j) == Attention!Projected(past + j \div (2 * sz), "query_gate", j % (2 * sz))
           range_ == 0..(tokens * sz - 1)
<1>1. buffers' = [buffers EXCEPT !.query = [index \in range_ |-> from(source(index))],
                                 !.gate = [index \in range_ |-> from(source(index) + hd)]]
  BY DEF Attention!Split, Attention!Range0
<1>2. /\ qh \in Nat \ {0} /\ hd \in Nat \ {0} /\ sz = qh * hd /\ sz \in Nat \ {0}
      /\ tokens \in Nat /\ past \in Nat
  BY CallNumbers
<1>3. ASSUME NEW t \in Chunk, NEW h \in QHeads, NEW i \in Places
      PROVE  LET e == Attention!OutputIndex(t, h, i) IN
             /\ e \in range_
             /\ from(source(e)) = Attention!QueryOf(shape, past + t, h)[i]
             /\ from(source(e) + hd) = Attention!GateOf(shape, past + t, h, i)
  <2> DEFINE e == Attention!OutputIndex(t, h, i)
             d == (h * 2) * hd
             b == 2 * sz
  <2>1. /\ e \in range_ /\ e \div sz = t /\ (e % sz) \div hd = h /\ e % hd = i
    BY OutputPlace
  <2>2. t \in Nat /\ h \in 0..(qh - 1) /\ h \in Nat /\ i \in Nat /\ i < hd
    BY <1>2 DEF Chunk, QHeads, Places
  <2>3. source(e) = (t * 2) * sz + d + i
    BY <2>1
  <2> HIDE DEF e, source, sz, qh, hd
  <2>4. d \in Nat /\ b \in Nat \ {0} /\ \A j \in 0..(2 * hd - 1) : d + j \in 0..(b - 1)
    <3>1. ASSUME NEW j \in 0..(2 * hd - 1) PROVE h * (2 * hd) + j \in Nat /\ h * (2 * hd) + j < qh * (2 * hd)
      <4>1. 2 * hd \in Nat /\ qh \in Nat
        BY <1>2
      <4> QED BY ONLY <3>1, <4>1, <2>2, Digits
    <3>2. h * (2 * hd) = d /\ qh * (2 * hd) = b /\ d \in Nat /\ b \in Nat
      <4>1. h * (2 * hd) = (h * 2) * hd
        BY <1>2, <2>2, Multiplied
      <4>2. qh * (2 * hd) = 2 * (qh * hd)
        <5>1. qh * (2 * hd) = (qh * 2) * hd /\ qh * 2 = 2 * qh /\ (2 * qh) * hd = 2 * (qh * hd)
          BY <1>2, Multiplied
        <5> QED BY <5>1
      <4>3. (h * 2) * hd \in Nat
        BY <1>2, <2>2, SMT
      <4> QED BY <1>2, <4>1, <4>2, <4>3
    <3> HIDE DEF d, b
    <3>3. \A j \in 0..(2 * hd - 1) : d + j \in Nat /\ d + j < b
      BY <3>1, <3>2
    <3>4. b # 0
      BY <1>2 DEF b
    <3> QED BY <1>2, <3>2, <3>3, <3>4
  <2>5. (t * 2) * sz = t * b
    BY <1>2, <2>2, Multiplied
  <2> HIDE DEF d, b
  <2>6. i \in 0..(2 * hd - 1) /\ hd + i \in 0..(2 * hd - 1)
    BY <1>2, <2>2
  <2>7. ASSUME NEW j \in 0..(b - 1) PROVE (t * b + j) \div b = t /\ (t * b + j) % b = j
    BY ONLY <2>2, <2>4, <2>7, DivisionUnique
  <2>8. t * b \in Nat
    BY ONLY <2>2, <2>4, SMT
  <2>9. source(e) = t * b + (d + i) /\ source(e) + hd = t * b + (d + (hd + i))
    BY <1>2, <2>2, <2>3, <2>4, <2>5, <2>8
  <2>10. /\ source(e) \div b = t /\ source(e) % b = d + i
         /\ (source(e) + hd) \div b = t /\ (source(e) + hd) % b = d + (hd + i)
    BY <2>4, <2>6, <2>7, <2>9
  <2>11. /\ from(source(e)) = Attention!Projected(past + t, "query_gate", d + i)
         /\ from(source(e) + hd) = Attention!Projected(past + t, "query_gate", d + (hd + i))
    BY <2>10 DEF b, sz
  <2>12. Attention!QueryOf(shape, past + t, h)[i] = Attention!Projected(past + t, "query_gate", d + i)
    BY DEF Attention!QueryOf, Places, d, hd
  <2>13. Attention!GateOf(shape, past + t, h, i) = Attention!Projected(past + t, "query_gate", (d + hd) + i)
    BY DEF Attention!GateOf, d, hd
  <2>14. (d + hd) + i = d + (hd + i)
    BY <1>2, <2>2, <2>4
  <2> QED BY <2>1, <2>11, <2>12, <2>13, <2>14 DEF e, sz, source, hd
<1> HIDE DEF source, from, range_
<1>4. /\ DOMAIN buffers' = {"query", "key", "gate"}
      /\ buffers'.query = [index \in range_ |-> from(source(index))]
      /\ buffers'.gate = [index \in range_ |-> from(source(index) + hd)]
  BY <1>1
<1>5. DOMAIN buffers'.query = range_
  BY <1>4
<1>6. SplitIn(buffers'.query)
  BY <1>3, <1>4, <1>5 DEF SplitIn, range_
<1>7. GatesIn(buffers'.gate)
  BY <1>3, <1>4 DEF GatesIn
<1> QED
  BY <1>4, <1>6, <1>7

\* Keys and values of a chunk are packed in places like those.
LEMMA PackedPlace ==
  ASSUME AttentionCallOK, NEW t \in Chunk, NEW g \in KHeads, NEW i \in Places, NEW projection
  PROVE  LET e == KeyPlace(t, g, i) IN
         /\ e \in Attention!Elements /\ DOMAIN Attention!Packed(projection) = Attention!Elements
         /\ Attention!Packed(projection)[e] =
              Attention!Projected(past + t, projection, g * shape.headDim + i)
<1> DEFINE e == KeyPlace(t, g, i)
           K == Attention!KvSize(shape)
<1>1. K = shape.kvHeads * shape.headDim /\ tokens \in Nat
  BY CallNumbers
<1>2. Spelled(e, tokens, shape.kvHeads, shape.headDim, t, g, i)
  BY KeyPlaceIs
<1> HIDE DEF e, K
<1>3. /\ e \in Nat /\ e < tokens * K /\ tokens * K \in Nat
      /\ e \div K = t /\ e % K = g * shape.headDim + i
  BY ONLY <1>1, <1>2 DEF Spelled
<1>4. e \in 0..(tokens * K - 1)
  <2> DEFINE m == tokens * K
  <2> HIDE DEF m
  <2>1. e \in 0..(m - 1)
    BY <1>3 DEF m
  <2> QED BY <2>1 DEF m
<1> QED
  BY <1>3, <1>4 DEF Attention!Packed, Attention!Elements, Attention!Range0, e, K

\* A block finds its vector by its number, and turns it by the position of its token.
LEMMA NormTurns ==
  ASSUME AttentionCallOK, NEW cells_, NEW heads_, NEW n \in Nat, NEW i \in Places,
         NEW v, v = [j \in Places |-> cells_[n * shape.headDim + j]],
         n * shape.headDim + i \in DOMAIN cells_
  PROVE  Attention!NormRope(cells_, heads_)[n * shape.headDim + i] =
           Attention!Turned(shape, Attention!Normed(v), past + n \div heads_)[i]
<1> DEFINE hd == shape.headDim
           pairs == shape.rotary \div 2
           e == n * hd + i
           position_ == past + n \div heads_
           normed == Attention!Normed(v)
           turned(j) ==
             IF j >= shape.rotary THEN normed[j]
             ELSE LET first == j < pairs
                      partner == IF first THEN j + pairs ELSE j - pairs
                  IN <<"turned", first,
                       IF first THEN normed[j] ELSE normed[partner],
                       IF first THEN normed[partner] ELSE normed[j],
                       IF first THEN j ELSE j - pairs, position_>>
<1>1. hd \in Nat \ {0} /\ shape.rotary \in Nat /\ shape.rotary <= hd /\ shape.rotary % 2 = 0
  BY CallNumbers
<1>2. i \in 0..(hd - 1) /\ i \in Nat
  BY DEF Places
<1>3. e \div hd = n /\ e % hd = i
  <2> HIDE DEF hd
  <2> QED BY ONLY <1>1, <1>2, n \in Nat, DivisionUnique
<1>4. Attention!NormRope(cells_, heads_)[e] = turned(i)
  <2>1. [j \in Attention!Range0(shape.headDim) |-> cells_[n * shape.headDim + j]] = v
    BY DEF Places, Attention!Range0
  <2>2. e \in DOMAIN cells_
    OBVIOUS
  <2> HIDE DEF e
  <2> QED BY <1>3, <2>1, <2>2 DEF Attention!NormRope
<1>5. DOMAIN normed = Places
  BY DEF Attention!Normed
<1>6. pairs \in Nat /\ shape.rotary = pairs + pairs
  <2>1. shape.rotary = 2 * pairs + (shape.rotary % 2) /\ pairs \in Nat
    BY <1>1, Division
  <2> QED BY <1>1, <2>1
<1> HIDE DEF normed
<1>7. Attention!Turned(shape, normed, position_)[i] =
        IF i >= shape.rotary THEN normed[i]
        ELSE <<"turned", i < pairs, normed[i % pairs], normed[(i % pairs) + pairs], i % pairs, position_>>
  BY <1>5 DEF Attention!Turned
<1>8. turned(i) =
        IF i >= shape.rotary THEN normed[i]
        ELSE <<"turned", i < pairs, normed[i % pairs], normed[(i % pairs) + pairs], i % pairs, position_>>
  <2> HIDE DEF pairs, position_
  <2>1. CASE i >= shape.rotary
    BY <2>1
  <2>2. CASE ~(i >= shape.rotary) /\ i < pairs
    <3>1. i % pairs = i
      <4>1. pairs \in Nat \ {0} /\ i \in 0..(pairs - 1) /\ 0 * pairs + i = i
        BY <1>2, <1>6, <2>2
      <4>2. (0 * pairs + i) % pairs = i
        BY ONLY <4>1, 0 \in Nat, DivisionUnique
      <4> QED BY <4>1, <4>2
    <3> QED BY <2>2, <3>1
  <2>3. CASE ~(i >= shape.rotary) /\ ~(i < pairs)
    <3>1. i % pairs = i - pairs
      <4>1. pairs \in Nat \ {0} /\ i - pairs \in 0..(pairs - 1) /\ 1 * pairs + (i - pairs) = i
        BY <1>1, <1>2, <1>6, <2>3
      <4>2. (1 * pairs + (i - pairs)) % pairs = i - pairs
        BY ONLY <4>1, 1 \in Nat, DivisionUnique
      <4> QED BY <4>1, <4>2
    <3>2. (i - pairs) + pairs = i
      BY <1>2, <1>6
    <3> QED BY <2>3, <3>1, <3>2
  <2> QED BY <2>1, <2>2, <2>3
<1> QED
  BY <1>4, <1>7, <1>8 DEF normed, e, hd

\* Queries of the chunk after their kernel.
LEMMA QueriesTurn ==
  ASSUME AttentionCallOK, NEW query, SplitIn(query)
  PROVE  QueriesIn(Attention!NormRope(query, shape.queryHeads))
<1> DEFINE hd == shape.headDim
<1> SUFFICES ASSUME NEW t \in Chunk, NEW h \in QHeads, NEW i \in Places
             PROVE  Attention!NormRope(query, shape.queryHeads)[Attention!OutputIndex(t, h, i)] =
                      QueryRow(past + t, h)[i]
  BY DEF QueriesIn
<1> DEFINE n == t * shape.queryHeads + h
           v == Attention!QueryOf(shape, past + t, h)
<1>1. n \in Nat /\ n \div shape.queryHeads = t
  BY OutputPlace
<1>2. \A j \in Places : /\ Attention!OutputIndex(t, h, j) = n * hd + j
                        /\ n * hd + j \in DOMAIN query
                        /\ query[n * hd + j] = v[j]
  <2> SUFFICES ASSUME NEW j \in Places
               PROVE  /\ Attention!OutputIndex(t, h, j) = n * hd + j
                      /\ n * hd + j \in DOMAIN query
                      /\ query[n * hd + j] = v[j]
    OBVIOUS
  <2>1. Attention!OutputIndex(t, h, j) = n * hd + j
    BY DEF Attention!OutputIndex
  <2>2. Attention!OutputIndex(t, h, j) \in DOMAIN query
    BY OutputPlace DEF SplitIn
  <2>3. query[Attention!OutputIndex(t, h, j)] = v[j]
    BY DEF SplitIn
  <2> QED BY <2>1, <2>2, <2>3
<1>3. v = [j \in Places |-> query[n * hd + j]]
  <2>1. v = [j \in Places |-> v[j]]
    BY DEF Attention!QueryOf, Places
  <2> HIDE DEF v, n, hd
  <2> QED BY <1>2, <2>1
<1> HIDE DEF v, n, hd
<1>4. Attention!NormRope(query, shape.queryHeads)[n * hd + i] =
        Attention!Turned(shape, Attention!Normed(v), past + n \div shape.queryHeads)[i]
  BY <1>1, <1>2, <1>3, NormTurns DEF hd
<1> QED
  BY <1>1, <1>2, <1>4 DEF QueryRow, v

\* Keys of the chunk after theirs.
LEMMA KeysTurn ==
  ASSUME AttentionCallOK
  PROVE  KeysIn(Attention!NormRope(Attention!Packed("key"), shape.kvHeads))
<1> DEFINE hd == shape.headDim
           packed == Attention!Packed("key")
<1> SUFFICES ASSUME NEW t \in Chunk, NEW g \in KHeads, NEW i \in Places
             PROVE  Attention!NormRope(packed, shape.kvHeads)[KeyPlace(t, g, i)] = KeyRow(past + t, g)[i]
  BY DEF KeysIn
<1> DEFINE n == t * shape.kvHeads + g
           v == Attention!KeyOf(shape, past + t, g)
<1>1. n \in Nat /\ n \div shape.kvHeads = t
  BY KeyPlaceIs DEF Spelled
<1>2. \A j \in Places : /\ KeyPlace(t, g, j) = n * hd + j
                        /\ n * hd + j \in DOMAIN packed
                        /\ packed[n * hd + j] = v[j]
  BY PackedPlace DEF KeyPlace, Attention!KeyOf, Places
<1>3. v = [j \in Places |-> packed[n * hd + j]]
  <2>1. v = [j \in Places |-> v[j]]
    BY DEF Attention!KeyOf, Places
  <2> HIDE DEF v, n, hd, packed
  <2> QED BY <1>2, <2>1
<1> HIDE DEF v, n, hd, packed
<1>4. Attention!NormRope(packed, shape.kvHeads)[n * hd + i] =
        Attention!Turned(shape, Attention!Normed(v), past + n \div shape.kvHeads)[i]
  BY <1>1, <1>2, <1>3, NormTurns DEF hd
<1> QED
  BY <1>1, <1>2, <1>4 DEF KeyRow, v

-----------------------------------------------------------------------------
(* Attention: what the append leaves *)

\* A cell is stored with the element it is for, by whichever thread.
LEMMA AppendedValue ==
  ASSUME AttentionCallOK, NEW e \in Attention!Elements, NEW f \in Attention!Elements
  PROVE  /\ Attention!KeyCell(f) \in DOMAIN Attention!AppendOf(e) =>
              Attention!AppendOf(e)[Attention!KeyCell(f)] = buffers.key[f]
         /\ Attention!Plane + Attention!KeyCell(f) \in DOMAIN Attention!AppendOf(e) =>
              Attention!AppendOf(e)[Attention!Plane + Attention!KeyCell(f)] = Attention!Packed("value")[f]
<1> DEFINE hd == shape.headDim
           P == Attention!Plane
           at(x) == Attention!KeyCell(x)
<1>1. /\ e \in Nat /\ f \in Nat /\ at(e) \in Nat /\ at(f) \in Nat /\ at(f) < P /\ P \in Nat
      /\ \A x \in KeyCells(e) : \E g \in Attention!Elements : x = at(g)
      /\ \A x \in ValueCells(e) : \E g \in Attention!Elements : x = P + at(g)
  BY AppendCells
<1>2. \A g \in Attention!Elements : at(g) \in Nat /\ at(g) < P
  BY AppendCells
<1>3. /\ at(e) = at(f) => e = f
      /\ (e % hd) + 1 < hd => e + 1 \in Attention!Elements /\ at(e + 1) = at(e) + 1
  BY ElementNext
<1>4. ASSUME e + 1 \in Attention!Elements, at(e + 1) = at(f) PROVE e + 1 = f
  BY <1>4, ElementNext
<1>5. ASSUME NEW d, d = at(e) \/ ((e % hd) + 1 < hd /\ d = at(e) + 1), d = at(f)
      PROVE  e + at(f) - at(e) = f
  <2>1. CASE d = at(e)
    BY <1>1, <1>3, <1>5, <2>1
  <2>2. CASE (e % hd) + 1 < hd /\ d = at(e) + 1
    <3>1. e + 1 = f
      BY <1>3, <1>4, <1>5, <2>2
    <3> QED BY ONLY <1>1, <1>5, <2>2, <3>1
  <2> QED BY <1>5, <2>1, <2>2
<1>6. \A c : \A x \in Attention!Stored(e, c, e % hd) : x = c \/ ((e % hd) + 1 < hd /\ x = c + 1)
  BY DEF Attention!Stored, Attention!Pairs, hd
<1>7. /\ DOMAIN Attention!AppendOf(e) = KeyCells(e) \cup ValueCells(e)
      /\ \A x \in KeyCells(e) \cup ValueCells(e) :
           Attention!AppendOf(e)[x] =
             IF x \in KeyCells(e) THEN buffers.key[e + x - at(e)]
             ELSE Attention!Packed("value")[e + x - P - at(e)]
  BY DEF Attention!AppendOf, KeyCells, ValueCells
<1>8. at(f) \notin ValueCells(e) /\ P + at(f) \notin KeyCells(e)
  <2>1. ASSUME at(f) \in ValueCells(e) PROVE FALSE
    <3>1. PICK g \in Attention!Elements : at(f) = P + at(g)
      BY <1>1, <2>1
    <3>2. at(g) \in Nat
      BY <1>2
    <3> HIDE DEF at, P
    <3> QED BY ONLY <1>1, <3>1, <3>2
  <2>2. ASSUME P + at(f) \in KeyCells(e) PROVE FALSE
    <3>1. PICK g \in Attention!Elements : P + at(f) = at(g)
      BY <1>1, <2>2
    <3>2. at(g) \in Nat /\ at(g) < P
      BY <1>2
    <3> HIDE DEF at, P
    <3> QED BY ONLY <1>1, <3>1, <3>2
  <2> QED BY <2>1, <2>2
<1>9. ASSUME at(f) \in KeyCells(e) PROVE e + at(f) - at(e) = f
  <2>1. at(f) = at(e) \/ ((e % hd) + 1 < hd /\ at(f) = at(e) + 1)
    BY <1>6, <1>9 DEF KeyCells
  <2> QED BY <1>5, <2>1
<1>10. ASSUME P + at(f) \in ValueCells(e) PROVE e + (P + at(f)) - P - at(e) = f
  <2>1. P + at(f) = P + at(e) \/ ((e % hd) + 1 < hd /\ P + at(f) = (P + at(e)) + 1)
    BY <1>6, <1>10 DEF ValueCells
  <2>2. at(f) = at(e) \/ ((e % hd) + 1 < hd /\ at(f) = at(e) + 1)
    <3> HIDE DEF at, P, hd
    <3> QED BY ONLY <1>1, <2>1
  <2>3. e + at(f) - at(e) = f
    BY <1>5, <2>2
  <2> HIDE DEF at, P
  <2> QED BY ONLY <1>1, <2>3
<1>11. ASSUME at(f) \in KeyCells(e) PROVE Attention!AppendOf(e)[at(f)] = buffers.key[f]
  BY <1>7, <1>9, <1>11
<1>12. ASSUME P + at(f) \in ValueCells(e)
       PROVE  Attention!AppendOf(e)[P + at(f)] = Attention!Packed("value")[f]
  BY <1>7, <1>8, <1>10, <1>12
<1> QED
  BY <1>7, <1>8, <1>11, <1>12

\* The append writes keys and values of the chunk, and nothing else.
LEMMA AppendWrites ==
  ASSUME AttentionCallOK, Attention!AppendCache,
         DOMAIN rowsKept = 0..(2 * AttentionContext * Attention!KvSize(shape) - 1)
  PROVE  /\ DOMAIN rowsKept' = DOMAIN rowsKept
         /\ \A f \in Attention!Elements :
              /\ rowsKept'[Attention!KeyCell(f)] = buffers.key[f]
              /\ rowsKept'[Attention!Plane + Attention!KeyCell(f)] = Attention!Packed("value")[f]
         /\ \A x \in DOMAIN rowsKept :
              (\A f \in Attention!Elements :
                 x # Attention!KeyCell(f) /\ x # Attention!Plane + Attention!KeyCell(f)) =>
              rowsKept'[x] = rowsKept[x]
<1> DEFINE E == Attention!Elements
           P == Attention!Plane
           D == DOMAIN rowsKept
           stores == [e \in E |-> DOMAIN Attention!AppendOf(e)]
           written == UNION {stores[e] : e \in E}
           storer(x) == CHOOSE e \in E : x \in stores[e]
           value(x) == Attention!AppendOf(storer(x))[x]
<1>1. rowsKept' = [x \in D |-> IF x \in written THEN value(x) ELSE rowsKept[x]]
  <2>1. rowsKept' = Attention!With(rowsKept, [x \in written |-> value(x)])
    BY DEF Attention!AppendCache
  <2> HIDE DEF written, value
  <2> QED BY <2>1 DEF Attention!With
<1>2. \A e \in E : stores[e] = KeyCells(e) \cup ValueCells(e)
  BY DEF Attention!AppendOf, KeyCells, ValueCells
<1>3. D = 0..(2 * P - 1) /\ P \in Nat
  <2>1. P = AttentionContext * Attention!KvSize(shape) /\ P \in Nat
    BY AppendCells DEF Attention!Plane
  <2>2. 2 * AttentionContext * Attention!KvSize(shape) = 2 * (AttentionContext * Attention!KvSize(shape))
    <3>1. AttentionContext \in Int /\ Attention!KvSize(shape) \in Int
      BY CallNumbers
    <3> QED BY <3>1, Multiplied
  <2> QED BY <2>1, <2>2
<1> HIDE DEF stores, D, P
<1>4. ASSUME NEW x \in written PROVE storer(x) \in E /\ x \in stores[storer(x)]
  <2>1. PICK e \in E : x \in stores[e]
    BY <1>4
  <2> QED BY <2>1
<1>5. \A e \in E : stores[e] = DOMAIN Attention!AppendOf(e)
  BY DEF stores
<1>6. ASSUME NEW f \in E
      PROVE  /\ Attention!KeyCell(f) \in written /\ Attention!KeyCell(f) \in D
             /\ P + Attention!KeyCell(f) \in written /\ P + Attention!KeyCell(f) \in D
  <2>1. /\ Attention!KeyCell(f) \in Nat /\ Attention!KeyCell(f) < P
        /\ \E e \in E : Attention!KeyCell(f) \in KeyCells(e)
        /\ \E e \in E : P + Attention!KeyCell(f) \in ValueCells(e)
    BY AppendCells DEF P
  <2>2. Attention!KeyCell(f) \in D /\ P + Attention!KeyCell(f) \in D
    BY ONLY <1>3, <2>1
  <2> QED BY <1>2, <2>1, <2>2
<1>7. ASSUME NEW x \in written
      PROVE  \E f \in E : x = Attention!KeyCell(f) \/ x = P + Attention!KeyCell(f)
  <2>1. PICK e \in E : x \in KeyCells(e) \cup ValueCells(e)
    BY <1>2
  <2>2. /\ \A y \in KeyCells(e) : \E f \in E : y = Attention!KeyCell(f)
        /\ \A y \in ValueCells(e) : \E f \in E : y = P + Attention!KeyCell(f)
    BY AppendCells DEF P
  <2> HIDE DEF E
  <2> QED BY ONLY <2>1, <2>2
<1> HIDE DEF written, storer
<1>8. ASSUME NEW f \in E
      PROVE  /\ rowsKept'[Attention!KeyCell(f)] = buffers.key[f]
             /\ rowsKept'[P + Attention!KeyCell(f)] = Attention!Packed("value")[f]
  <2>1. /\ rowsKept'[Attention!KeyCell(f)] = value(Attention!KeyCell(f))
        /\ rowsKept'[P + Attention!KeyCell(f)] = value(P + Attention!KeyCell(f))
    BY <1>1, <1>6
  <2>2. value(Attention!KeyCell(f)) = buffers.key[f]
    BY <1>4, <1>5, <1>6, AppendedValue
  <2>3. value(P + Attention!KeyCell(f)) = Attention!Packed("value")[f]
    BY <1>4, <1>5, <1>6, AppendedValue DEF P
  <2> QED BY <2>1, <2>2, <2>3
<1>9. DOMAIN rowsKept' = D
  BY <1>1
<1>10. ASSUME NEW x \in D,
              \A f \in E : x # Attention!KeyCell(f) /\ x # P + Attention!KeyCell(f)
       PROVE  rowsKept'[x] = rowsKept[x]
  BY <1>1, <1>7, <1>10
<1> QED
  BY <1>8, <1>9, <1>10 DEF D, P

\* So the cache holds the chunk behind what it held.
LEMMA AppendHolds ==
  ASSUME AttentionCallOK, Attention!AppendCache, KeysIn(buffers.key), CacheHolds(rowsKept, past)
  PROVE  CacheHolds(rowsKept', past + tokens)
<1> DEFINE P == Attention!Plane
           at(t, g, i) == Attention!CacheIndex(t, g, i)
<1>1. DOMAIN rowsKept = 0..(2 * AttentionContext * Attention!KvSize(shape) - 1)
  BY DEF CacheHolds
<1>2. /\ DOMAIN rowsKept' = DOMAIN rowsKept
      /\ \A f \in Attention!Elements :
           /\ rowsKept'[Attention!KeyCell(f)] = buffers.key[f]
           /\ rowsKept'[P + Attention!KeyCell(f)] = Attention!Packed("value")[f]
      /\ \A x \in DOMAIN rowsKept :
           (\A f \in Attention!Elements : x # Attention!KeyCell(f) /\ x # P + Attention!KeyCell(f)) =>
           rowsKept'[x] = rowsKept[x]
  BY <1>1, AppendWrites
<1>3. P \in Nat /\ DOMAIN rowsKept = 0..(2 * P - 1)
  <2>1. P = AttentionContext * Attention!KvSize(shape) /\ P \in Nat
    BY AppendCells DEF Attention!Plane
  <2>2. AttentionContext \in Int /\ Attention!KvSize(shape) \in Int
    BY CallNumbers
  <2>3. 2 * AttentionContext * Attention!KvSize(shape) = 2 * (AttentionContext * Attention!KvSize(shape))
    BY <2>2, Multiplied
  <2> QED BY <1>1, <2>1, <2>3
<1>4. tokens \in Nat /\ past \in Nat /\ AttentionContext \in Nat /\ past + tokens <= AttentionContext
  BY CallNumbers
<1> HIDE DEF P
<1>5. ASSUME NEW t \in 0..(past - 1), NEW g \in KHeads, NEW i \in Places
      PROVE  /\ rowsKept'[at(t, g, i)] = KeyRow(t, g)[i]
             /\ rowsKept'[P + at(t, g, i)] = Attention!ValueOf(shape, t, g, i)
  <2>1. t \in 0..(AttentionContext - 1) /\ g \in 0..(shape.kvHeads - 1) /\ i \in 0..(shape.headDim - 1)
    BY <1>4 DEF KHeads, Places
  <2>2. /\ at(t, g, i) \in Nat /\ at(t, g, i) < P
        /\ \A u \in 0..(AttentionContext - 1), h \in 0..(shape.kvHeads - 1), j \in 0..(shape.headDim - 1) :
             at(t, g, i) = at(u, h, j) => t = u
    BY <2>1, CacheCells DEF P
  <2>3. ASSUME NEW f \in Attention!Elements PROVE at(t, g, i) # Attention!KeyCell(f)
    <3>1. PICK u, h, j : IsElement(f, u, h, j)
      BY ElementParts
    <3>2. Attention!KeyCell(f) = at(past + u, h, j) /\ past + u \in 0..(AttentionContext - 1)
      BY <3>1, ElementPlace
    <3>3. u \in 0..(tokens - 1) /\ h \in 0..(shape.kvHeads - 1) /\ j \in 0..(shape.headDim - 1)
      BY <3>1 DEF IsElement
    <3>4. t # past + u
      BY <1>4, <3>3
    <3> QED BY <2>2, <3>2, <3>3, <3>4
  <2>4. \A f \in Attention!Elements : Attention!KeyCell(f) \in Nat /\ Attention!KeyCell(f) < P
    BY AppendCells DEF P
  <2> DEFINE x == at(t, g, i)
             y == P + at(t, g, i)
  <2>5. x \in DOMAIN rowsKept /\ y \in DOMAIN rowsKept
    BY ONLY <1>3, <2>2
  <2>6. ASSUME NEW f \in Attention!Elements
        PROVE  /\ x # Attention!KeyCell(f) /\ x # P + Attention!KeyCell(f)
               /\ y # Attention!KeyCell(f) /\ y # P + Attention!KeyCell(f)
    <3>1. x # Attention!KeyCell(f) /\ Attention!KeyCell(f) \in Nat /\ Attention!KeyCell(f) < P
      BY <2>3, <2>4
    <3>2. x \in Nat /\ x < P /\ y = P + x
      BY <2>2
    <3> HIDE DEF x, y
    <3> QED BY ONLY <1>3, <3>1, <3>2
  <2>7. rowsKept'[x] = rowsKept[x] /\ rowsKept'[y] = rowsKept[y]
    BY ONLY <1>2, <2>5, <2>6
  <2>8. rowsKept[x] = KeyRow(t, g)[i] /\ rowsKept[y] = Attention!ValueOf(shape, t, g, i)
    BY DEF CacheHolds, P
  <2> QED BY <2>7, <2>8
<1>6. ASSUME NEW u \in 0..(tokens - 1), NEW g \in KHeads, NEW i \in Places
      PROVE  /\ rowsKept'[at(past + u, g, i)] = KeyRow(past + u, g)[i]
             /\ rowsKept'[P + at(past + u, g, i)] = Attention!ValueOf(shape, past + u, g, i)
  <2> DEFINE f == KeyPlace(u, g, i)
  <2>1. IsElement(f, u, g, i) /\ u \in Chunk
    BY DEF IsElement, KeyPlace, KHeads, Places, Chunk
  <2>2. f \in Attention!Elements /\ Attention!KeyCell(f) = at(past + u, g, i)
    BY <2>1, ElementPlace
  <2>3. buffers.key[f] = KeyRow(past + u, g)[i]
    BY <2>1 DEF KeysIn
  <2>4. Attention!Packed("value")[f] = Attention!ValueOf(shape, past + u, g, i)
    BY <2>1, PackedPlace DEF Attention!ValueOf
  <2> QED BY <1>2, <2>2, <2>3, <2>4
<1>7. ASSUME NEW t \in 0..((past + tokens) - 1), NEW g \in KHeads, NEW i \in Places
      PROVE  /\ rowsKept'[at(t, g, i)] = KeyRow(t, g)[i]
             /\ rowsKept'[P + at(t, g, i)] = Attention!ValueOf(shape, t, g, i)
  <2>1. CASE t < past
    <3>1. t \in 0..(past - 1)
      BY <1>4, <2>1
    <3> QED BY <1>5, <3>1
  <2>2. CASE ~(t < past)
    <3>1. PICK u : u = t - past
      OBVIOUS
    <3>2. u \in 0..(tokens - 1) /\ t = past + u
      BY <1>4, <2>2, <3>1
    <3> QED BY <1>6, <3>2
  <2> QED BY <2>1, <2>2
<1>8. DOMAIN rowsKept' = 0..(2 * AttentionContext * Attention!KvSize(shape) - 1)
  BY <1>1, <1>2
<1> QED
  BY ONLY <1>7, <1>8, Zenon DEF CacheHolds, P

-----------------------------------------------------------------------------
(* Attention: what the kernels after the append read and make *)

\* Groups of heads share keys.
LEMMA KeyHeads ==
  ASSUME AttentionCallOK, NEW h \in QHeads
  PROVE  Attention!KvHead(shape, h) \in KHeads
<1> DEFINE kv == shape.kvHeads
           group == shape.queryHeads \div kv
<1>1. /\ kv \in Nat \ {0} /\ shape.queryHeads \in Nat \ {0}
      /\ h \in Nat /\ h < shape.queryHeads
  BY CallNumbers DEF QHeads
<1>2. shape.queryHeads % kv = 0
  BY DEF AttentionCallOK, AttentionFields, Attention!Valid, Attention!ValidFull
<1>3. group \in Nat /\ shape.queryHeads = kv * group
  <2>1. group \in Nat /\ shape.queryHeads = kv * group + (shape.queryHeads % kv)
    BY <1>1, Division
  <2>2. kv * group \in Int
    BY <1>1, <2>1, Multiplied
  <2> QED BY <1>2, <2>1, <2>2
<1>4. group # 0
  <2> SUFFICES ASSUME group = 0 PROVE FALSE
    OBVIOUS
  <2>1. kv * group = 0
    BY <1>1
  <2> QED BY <1>1, <1>3, <2>1
<1> HIDE DEF group, kv
<1>5. h < kv * group
  BY <1>1, <1>3
<1>6. h \div group \in 0..(kv - 1)
  <2>1. kv \in Nat /\ group \in Nat \ {0} /\ h \in Nat
    BY <1>1, <1>3, <1>4
  <2> QED BY ONLY <1>5, <2>1, DigitsOf
<1> QED
  BY <1>6 DEF Attention!KvHead, KHeads, group, kv

\* A row of the reference is a function of places.
LEMMA RowsHavePlaces ==
  ASSUME NEW t, NEW h
  PROVE  QueryRow(t, h) = [i \in Places |-> QueryRow(t, h)[i]] /\ KeyRow(t, h) = [i \in Places |-> KeyRow(t, h)[i]]
<1>1. ASSUME NEW v, DOMAIN v = Places
      PROVE  DOMAIN Attention!Turned(shape, Attention!Normed(v), t) = Places
             /\ Attention!Turned(shape, Attention!Normed(v), t) =
                  [i \in Places |-> Attention!Turned(shape, Attention!Normed(v), t)[i]]
  <2>1. DOMAIN Attention!Normed(v) = Places
    BY <1>1 DEF Attention!Normed
  <2> QED BY <2>1 DEF Attention!Turned
<1>2. DOMAIN Attention!QueryOf(shape, t, h) = Places /\ DOMAIN Attention!KeyOf(shape, t, h) = Places
  BY DEF Attention!QueryOf, Attention!KeyOf, Places
<1> QED
  BY <1>1, <1>2 DEF QueryRow, KeyRow

\* Queries, gates, keys and values are found where they were put.
LEMMA QueryFound ==
  ASSUME QueriesIn(buffers.query), NEW t \in Chunk, NEW h \in QHeads
  PROVE  Attention!Query(t, h) = QueryRow(past + t, h)
<1>1. \A i \in Places : buffers.query[Attention!OutputIndex(t, h, i)] = QueryRow(past + t, h)[i]
  BY DEF QueriesIn
<1>2. Attention!Query(t, h) = [i \in Places |-> buffers.query[Attention!OutputIndex(t, h, i)]]
  BY DEF Attention!Query, Attention!Range0, Places
<1>3. QueryRow(past + t, h) = [i \in Places |-> QueryRow(past + t, h)[i]]
  BY RowsHavePlaces
<1>4. [i \in Places |-> buffers.query[Attention!OutputIndex(t, h, i)]] =
        [i \in Places |-> QueryRow(past + t, h)[i]]
  BY <1>1
<1> QED
  BY ONLY <1>2, <1>3, <1>4

\* Keys and values of every token so far are found in the cache.
LEMMA CacheFound ==
  ASSUME AttentionCallOK, CacheHolds(rowsKept, past + tokens),
         NEW k \in 0..((past + tokens) - 1), NEW h \in QHeads
  PROVE  /\ Attention!Key(k, h) = KeyRow(k, Attention!KvHead(shape, h))
         /\ \A i \in Places :
              Attention!Value(k, h, i) = Attention!ValueOf(shape, k, Attention!KvHead(shape, h), i)
<1> DEFINE g == Attention!KvHead(shape, h)
<1>1. g \in KHeads
  BY KeyHeads
<1>2. \A i \in Places :
        /\ rowsKept[Attention!CacheIndex(k, g, i)] = KeyRow(k, g)[i]
        /\ rowsKept[Attention!Plane + Attention!CacheIndex(k, g, i)] = Attention!ValueOf(shape, k, g, i)
  BY <1>1 DEF CacheHolds
<1>3. Attention!Key(k, h) = [i \in Places |-> rowsKept[Attention!CacheIndex(k, g, i)]]
  BY DEF Attention!Key, Attention!Range0, Places
<1>4. \A i : Attention!Value(k, h, i) = rowsKept[Attention!Plane + Attention!CacheIndex(k, g, i)]
  BY DEF Attention!Value
<1>5. KeyRow(k, g) = [i \in Places |-> KeyRow(k, g)[i]]
  BY RowsHavePlaces
<1> HIDE DEF g
<1>6. [i \in Places |-> rowsKept[Attention!CacheIndex(k, g, i)]] = [i \in Places |-> KeyRow(k, g)[i]]
  BY <1>2
<1>7. Attention!Key(k, h) = KeyRow(k, g)
  BY ONLY <1>3, <1>5, <1>6
<1>8. \A i \in Places : Attention!Value(k, h, i) = Attention!ValueOf(shape, k, g, i)
  BY ONLY <1>2, <1>4
<1> QED
  BY <1>7, <1>8 DEF g

\* So the logit of a token and a key it sees is the reference's.
LEMMA LogitFound ==
  ASSUME AttentionCallOK, QueriesIn(buffers.query), CacheHolds(rowsKept, past + tokens),
         NEW t \in Chunk, NEW h \in QHeads, NEW k \in 0..(past + t)
  PROVE  Attention!Dot(Attention!Query(t, h), Attention!Key(k, h)) = LogitOf(t, h, k)
<1>1. k \in 0..((past + tokens) - 1)
  BY CallNumbers DEF Chunk
<1>2. Attention!Query(t, h) = QueryRow(past + t, h)
  BY QueryFound
<1>3. Attention!Key(k, h) = KeyRow(k, Attention!KvHead(shape, h))
  BY <1>1, CacheFound
<1> QED
  BY <1>2, <1>3 DEF LogitOf

\* And values mixed by the probabilities of those logits are what the reference
\* attends to.
LEMMA MixIsAttended ==
  ASSUME AttentionCallOK, CacheHolds(rowsKept, past + tokens), GatesIn(buffers.gate),
         NEW t \in Chunk, NEW h \in QHeads, NEW i \in Places,
         NEW p, DOMAIN p = 0..(past + t), \A k \in 0..(past + t) : p[k] = ProbabilityOf(t, h, k)
  PROVE  Attention!Mixed(p, t, h, i) = AttendedAt(t, h, i)
<1> DEFINE T == past + t
           g == Attention!KvHead(shape, h)
           gate == Attention!GateOf(shape, T, h, i)
           mine(k) == <<p[k], Attention!Value(k, h, i)>>
           its(k) == <<ProbabilityOf(t, h, k), Attention!ValueOf(shape, k, g, i)>>
<1>1. \A k \in 0..T : k \in 0..((past + tokens) - 1)
  BY CallNumbers DEF Chunk
<1>2. ASSUME NEW k \in 0..T PROVE mine(k) = its(k)
  <2>1. Attention!Value(k, h, i) = Attention!ValueOf(shape, k, g, i)
    BY <1>1, CacheFound
  <2> QED BY <2>1
<1>3. Attention!Gate(t, h, i) = gate
  BY DEF GatesIn, Attention!Gate
<1>4. Attention!Mixed(p, t, h, i) = <<"mix", {mine(k) : k \in 0..T}, gate>>
  BY <1>3 DEF Attention!Mixed
<1>5. AttendedAt(t, h, i) = <<"mix", {its(k) : k \in 0..T}, gate>>
  <2> DEFINE j == h * shape.headDim + i
  <2>1. /\ j \in 0..(Attention!QuerySize(shape) - 1)
        /\ j \div shape.headDim = h /\ j % shape.headDim = i
    BY OutputPlace
  <2>2. Attention!Attended(shape, T)[j] =
          <<"mix",
            {<<<<"p", Attention!Dot(QueryRow(T, h), KeyRow(k, g)), 0..T, 0..T>>,
               Attention!ValueOf(shape, k, g, i)>> : k \in 0..T}, gate>>
    <3> HIDE DEF j, T, gate, g
    <3> QED BY <2>1 DEF Attention!Attended, QueryRow, KeyRow, g, gate
  <2>3. \A k : its(k) = <<<<"p", Attention!Dot(QueryRow(T, h), KeyRow(k, g)), 0..T, 0..T>>,
                          Attention!ValueOf(shape, k, g, i)>>
    BY DEF ProbabilityOf, LogitOf
  <2> HIDE DEF its
  <2>4. {its(k) : k \in 0..T} =
          {<<<<"p", Attention!Dot(QueryRow(T, h), KeyRow(k, g)), 0..T, 0..T>>,
             Attention!ValueOf(shape, k, g, i)>> : k \in 0..T}
    BY <2>3
  <2> QED BY <2>2, <2>4 DEF AttendedAt
<1> HIDE DEF mine, its
<1>6. {mine(k) : k \in 0..T} = {its(k) : k \in 0..T}
  BY <1>2
<1> QED
  BY <1>4, <1>5, <1>6

\* Where the logit of a token, head and key is.
LEMMA LogitPlace ==
  ASSUME AttentionCallOK, NEW t \in Chunk, NEW h \in QHeads, NEW k \in 0..(past + t)
  PROVE  LET x == Attention!LogitIndex(t, h, k) IN
         /\ x % Attention!Context = k
         /\ x \div Attention!Context = t * shape.queryHeads + h
         /\ (t * shape.queryHeads + h) \div shape.queryHeads = t
         /\ (t * shape.queryHeads + h) % shape.queryHeads = h
         /\ x \in 0..(Attention!WorkspaceFloats(shape, AttentionTokens, AttentionContext) - 1)
<1> DEFINE qh == shape.queryHeads
           C == Attention!Context
           x == (t * qh + h) * C + k
           M == Attention!WorkspaceFloats(shape, AttentionTokens, AttentionContext)
<1>1. /\ qh \in Nat /\ C \in Nat /\ tokens \in Nat /\ past \in Nat
      /\ AttentionTokens \in Nat /\ AttentionContext \in Nat
      /\ tokens <= AttentionTokens /\ C <= AttentionContext
  BY CallNumbers DEF Attention!Context
<1>2. t \in 0..(tokens - 1) /\ h \in 0..(qh - 1) /\ k \in 0..(C - 1)
  BY <1>1 DEF Chunk, QHeads, Attention!Context
<1>3. Attention!LogitIndex(t, h, k) = x
  BY DEF Attention!LogitIndex
<1>4. M = (AttentionTokens * qh) * AttentionContext
  BY DEF Attention!WorkspaceFloats
<1> HIDE DEF qh, C, M
<1>5. Spelled(x, tokens, qh, C, t, h, k)
  BY ONLY <1>1, <1>2, ThreeDigits
<1> HIDE DEF x
<1>6. /\ x % C = k /\ x \div C = t * qh + h
      /\ (t * qh + h) \div qh = t /\ (t * qh + h) % qh = h
      /\ x \in Nat /\ x < tokens * (qh * C) /\ tokens * (qh * C) \in Nat
  BY ONLY <1>5 DEF Spelled
<1>7. tokens * (qh * C) <= M /\ M \in Nat
  <2>1. qh * tokens <= qh * AttentionTokens /\ qh * tokens \in Nat /\ qh * AttentionTokens \in Nat
    BY <1>1, Grows
  <2> DEFINE m == qh * tokens
             n == qh * AttentionTokens
  <2>2. m * C = tokens * (qh * C) /\ n * AttentionContext = M
    <3>1. m * C = (tokens * qh) * C /\ (tokens * qh) * C = tokens * (qh * C)
      BY <1>1, Multiplied
    <3>2. n = AttentionTokens * qh
      BY <1>1, Multiplied
    <3> QED BY <1>4, <3>1, <3>2
  <2>3. m \in Nat /\ n \in Nat /\ m <= n
    BY <2>1
  <2> HIDE DEF m, n
  <2>4. m * C <= m * AttentionContext /\ m * C \in Nat /\ m * AttentionContext \in Nat
    BY <1>1, <2>3, Grows
  <2>5. AttentionContext * m <= AttentionContext * n /\ AttentionContext * n \in Nat
    BY <1>1, <2>3, Grows
  <2>6. AttentionContext * m = m * AttentionContext /\ AttentionContext * n = n * AttentionContext
    BY <1>1, <2>3, Multiplied
  <2>7. m * C <= n * AttentionContext /\ n * AttentionContext \in Nat
    <3> DEFINE u == m * C
               v == m * AttentionContext
               w == n * AttentionContext
    <3>1. u <= v /\ v <= w /\ u \in Nat /\ v \in Nat /\ w \in Nat
      BY <2>4, <2>5, <2>6
    <3> HIDE DEF u, v, w
    <3>2. u <= w
      BY <3>1
    <3> QED BY <3>1, <3>2 DEF u, w
  <2> QED BY <2>2, <2>7
<1>8. x \in 0..(M - 1)
  <2> DEFINE u == tokens * (qh * C)
  <2> HIDE DEF u
  <2>1. x \in Nat /\ x < u /\ u <= M /\ u \in Nat /\ M \in Nat
    BY <1>6, <1>7 DEF u
  <2> QED BY ONLY <2>1
<1> QED
  BY <1>3, <1>6, <1>8 DEF qh, C, M

\* Both kernels of logits make those of the reference.
LEMMA LogitsFill ==
  ASSUME AttentionCallOK, QueriesIn(buffers.query), CacheHolds(rowsKept, past + tokens),
         DOMAIN logits = 0..(Attention!WorkspaceFloats(shape, AttentionTokens, AttentionContext) - 1),
         Attention!Logits
  PROVE  LogitsIn(logits') /\ DOMAIN logits' = DOMAIN logits
<1> DEFINE S == {Attention!LogitIndex(c[1], c[2], k) :
                   c \in Attention!Cells, k \in Attention!Visible(tokens - 1)}
           value(index) ==
             LET key_ == index % Attention!Context
                 pair == index \div Attention!Context
                 token == pair \div shape.queryHeads
             IN IF key_ \in Attention!Visible(token)
                THEN Attention!Dot(Attention!Query(token, pair % shape.queryHeads),
                                   Attention!Key(key_, pair % shape.queryHeads))
                ELSE logits[index]
<1>1. logits' = [x \in DOMAIN logits |-> IF x \in S THEN value(x) ELSE logits[x]]
  <2>1. logits' = Attention!With(logits, [x \in S |-> value(x)])
    BY DEF Attention!Logits
  <2> HIDE DEF S, value
  <2> QED BY <2>1 DEF Attention!With
<1>2. DOMAIN logits' = DOMAIN logits
  <2> HIDE DEF S, value
  <2> QED BY <1>1
<1>3. ASSUME NEW t \in Chunk, NEW h \in QHeads, NEW k \in 0..(past + t)
      PROVE  logits'[Attention!LogitIndex(t, h, k)] = LogitOf(t, h, k)
  <2> DEFINE x == Attention!LogitIndex(t, h, k)
  <2>1. x \in DOMAIN logits
    BY LogitPlace
  <2>2. x \in S
    <3>1. <<t, h>> \in Attention!Cells
      BY DEF Attention!Cells, Attention!Range0, Chunk, QHeads
    <3>2. k \in Attention!Visible(tokens - 1)
      BY CallNumbers DEF Attention!Visible, Chunk
    <3>3. x = Attention!LogitIndex(<<t, h>>[1], <<t, h>>[2], k)
      OBVIOUS
    <3> HIDE DEF x
    <3> QED BY <3>1, <3>2, <3>3
  <2>3. /\ x % Attention!Context = k
        /\ (x \div Attention!Context) \div shape.queryHeads = t
        /\ (x \div Attention!Context) % shape.queryHeads = h
    BY LogitPlace
  <2> HIDE DEF x, S
  <2>4. value(x) = Attention!Dot(Attention!Query(t, h), Attention!Key(k, h))
    BY <2>3 DEF Attention!Visible
  <2> HIDE DEF value
  <2>5. logits'[x] = value(x)
    BY <1>1, <2>1, <2>2
  <2>6. value(x) = LogitOf(t, h, k)
    BY <2>4, LogitFound
  <2> QED BY <2>5, <2>6 DEF x
<1> QED
  BY <1>2, <1>3 DEF LogitsIn

\* Of one token, they become probabilities in place.
LEMMA SoftmaxFills ==
  ASSUME AttentionCallOK, tokens = 1, LogitsIn(logits),
         DOMAIN logits = 0..(Attention!WorkspaceFloats(shape, AttentionTokens, AttentionContext) - 1),
         Attention!DecodeSoftmax
  PROVE  ProbabilitiesIn(logits') /\ DOMAIN logits' = DOMAIN logits
<1> DEFINE S == {Attention!LogitIndex(0, head, k) :
                   head \in Attention!Range0(shape.queryHeads), k \in Attention!Range0(Attention!Context)}
           value(index) ==
             Attention!Softmax(Attention!RowOf(0, index \div Attention!Context),
                               Attention!Visible(0))[index % Attention!Context]
<1>1. logits' = [x \in DOMAIN logits |-> IF x \in S THEN value(x) ELSE logits[x]]
  <2>1. logits' = Attention!With(logits, [x \in S |-> value(x)])
    BY DEF Attention!DecodeSoftmax
  <2> HIDE DEF S, value
  <2> QED BY <2>1 DEF Attention!With
<1>2. DOMAIN logits' = DOMAIN logits
  <2> HIDE DEF S, value
  <2> QED BY <1>1
<1>3. ASSUME NEW t \in Chunk, NEW h \in QHeads, NEW k \in 0..(past + t)
      PROVE  logits'[Attention!LogitIndex(t, h, k)] = ProbabilityOf(t, h, k)
  <2> DEFINE x == Attention!LogitIndex(t, h, k)
  <2>1. x \in DOMAIN logits
    BY LogitPlace
  <2>2. t = 0 /\ past \in Nat
    BY CallNumbers DEF Chunk
  <2>3. x \in S
    <3>1. h \in Attention!Range0(shape.queryHeads) /\ k \in Attention!Range0(Attention!Context)
      BY <2>2 DEF Attention!Range0, Attention!Context, QHeads
    <3>2. x = Attention!LogitIndex(0, h, k)
      BY <2>2
    <3> HIDE DEF x
    <3> QED BY <3>1, <3>2
  <2>4. x % Attention!Context = k /\ x \div Attention!Context = h
    <3>1. x % Attention!Context = k /\ x \div Attention!Context = t * shape.queryHeads + h
      BY LogitPlace
    <3>2. 0 * shape.queryHeads + h = h
      BY CallNumbers DEF QHeads
    <3> QED BY <2>2, <3>1, <3>2
  <2> HIDE DEF x, S
  <2>5. Attention!RowOf(0, h)[k] = LogitOf(t, h, k)
    BY <2>2 DEF Attention!RowOf, Attention!Visible, LogitsIn
  <2>6. value(x) = <<"p", LogitOf(t, h, k), 0..(past + t), 0..(past + t)>>
    BY <2>2, <2>4, <2>5 DEF Attention!Softmax, Attention!Visible
  <2> HIDE DEF value
  <2>7. logits'[x] = value(x)
    BY <1>1, <2>1, <2>3
  <2> QED BY <2>6, <2>7 DEF x, ProbabilityOf
<1> QED
  BY <1>2, <1>3 DEF ProbabilitiesIn

\* Tiles reach every number below n.
LEMMA TilesReach ==
  ASSUME NEW n \in Nat, NEW s \in Nat \ {0}, NEW i \in 0..(n - 1)
  PROVE  /\ Attention!Ceil(n, s) \in Nat
         /\ i \div s \in 0..(Attention!Ceil(n, s) - 1) /\ i % s \in 0..(s - 1)
         /\ i = ((i \div s) * s) + (i % s)
<1> DEFINE q == n \div s
           r == n % s
           c == Attention!Ceil(n, s)
<1>1. q \in Nat /\ r \in 0..(s - 1) /\ n = s * q + r
  BY Division
<1>2. c = q + (IF r = 0 THEN 0 ELSE 1)
  BY DEF Attention!Ceil
<1> HIDE DEF q, r, c
<1>3. c \in Nat /\ (c = q \/ c = q + 1) /\ (c = q => r = 0)
  BY <1>1, <1>2
<1>4. n <= c * s /\ c * s \in Nat
  <2>1. CASE c = q
    BY <1>1, <1>3, <2>1, Multiplied
  <2>2. CASE c = q + 1
    <3>1. s * (q + 1) = s * q + s /\ c * s = s * c /\ s * q \in Int
      BY <1>1, <1>3, SMT
    <3> QED BY <1>1, <2>2, <3>1
  <2> QED BY <1>3, <2>1, <2>2
<1>5. i \in Nat /\ i < c * s
  <2> DEFINE m == c * s
  <2> HIDE DEF m
  <2>1. n <= m /\ m \in Nat
    BY <1>4 DEF m
  <2>2. i \in Nat /\ i < m
    BY <2>1
  <2> QED BY <2>2 DEF m
<1>6. i \div s \in 0..(c - 1) /\ i % s \in 0..(s - 1) /\ i = ((i \div s) * s) + (i % s)
  BY ONLY <1>3, <1>5, s \in Nat \ {0}, DigitsOf
<1> QED
  BY <1>3, <1>6 DEF c

\* The probabilities and the logits of a row, as its mix finds them.
LEMMA RowFound ==
  ASSUME AttentionCallOK, NEW t \in Chunk, NEW h \in QHeads
  PROVE  LET row_ == Attention!RowOf(t, h) IN
         /\ DOMAIN row_ = 0..(past + t)
         /\ ProbabilitiesIn(logits) => \A k \in 0..(past + t) : row_[k] = ProbabilityOf(t, h, k)
         /\ LogitsIn(logits) => \A k \in 0..(past + t) : row_[k] = LogitOf(t, h, k)
<1>1. Attention!RowOf(t, h) = [k \in 0..(past + t) |-> logits[Attention!LogitIndex(t, h, k)]]
  BY DEF Attention!RowOf, Attention!Visible
<1> QED
  BY <1>1 DEF ProbabilitiesIn, LogitsIn

\* The places of a head that tiles serve are all of them.
LEMMA TilesServe ==
  ASSUME AttentionCallOK, tokens = 1, NEW h \in QHeads, NEW i \in Places
  PROVE  LET tiles == Attention!Ceil(shape.headDim, OutputTile)
             c == <<h * tiles + (i \div OutputTile), i % OutputTile>>
         IN /\ c \in Attention!Range0(shape.queryHeads * tiles) \X Attention!Range0(OutputTile)
            /\ (c[1] % tiles) * OutputTile + c[2] = i
            /\ c[1] \div tiles = h
<1> DEFINE tiles == Attention!Ceil(shape.headDim, OutputTile)
           q == i \div OutputTile
           r == i % OutputTile
           hd == shape.headDim
           qh == shape.queryHeads
<1>1. OutputTile \in Nat \ {0}
  BY KernelAssumption DEF Attention!TileAssumption
<1>2. hd \in Nat /\ qh \in Nat /\ h \in 0..(qh - 1) /\ i \in 0..(hd - 1)
  BY CallNumbers DEF QHeads, Places
<1>3. tiles \in Nat /\ q \in 0..(tiles - 1) /\ r \in 0..(OutputTile - 1) /\ i = (q * OutputTile) + r
  BY ONLY <1>1, <1>2, TilesReach
<1> HIDE DEF tiles, q, r, hd, qh
<1>4. h * tiles + q \in Nat /\ h * tiles + q < qh * tiles /\ qh * tiles \in Nat
  BY ONLY <1>2, <1>3, Digits
<1>5. (h * tiles + q) \div tiles = h /\ (h * tiles + q) % tiles = q
  <2>1. h \in Nat /\ tiles \in Nat \ {0}
    BY <1>2, <1>3
  <2> QED BY ONLY <1>3, <2>1, DivisionUnique
<1>6. h * tiles + q \in 0..(qh * tiles - 1)
  <2> DEFINE m == qh * tiles
             x == h * tiles + q
  <2>1. x \in Nat /\ x < m /\ m \in Nat
    BY <1>4
  <2> HIDE DEF m, x
  <2>2. x \in 0..(m - 1)
    BY <2>1
  <2> QED BY <2>2 DEF m, x
<1> QED
  BY <1>3, <1>5, <1>6 DEF Attention!Range0, tiles, q, r, hd, qh

\* The output of one token whose probabilities are stored.
LEMMA DecodeOutputFills ==
  ASSUME AttentionCallOK, tokens = 1, ProbabilitiesIn(logits), GatesIn(buffers.gate),
         CacheHolds(rowsKept, past + tokens),
         DOMAIN output = 0..(AttentionTokens * Attention!QuerySize(shape) - 1),
         Attention!DecodeOutput
  PROVE  OutputIn(output') /\ DOMAIN output' = DOMAIN output
<1> DEFINE tiles == Attention!Ceil(shape.headDim, OutputTile)
           served == {c \in (Attention!Range0(shape.queryHeads * tiles) \X Attention!Range0(OutputTile)) :
                        (c[1] % tiles) * OutputTile + c[2] < shape.headDim}
           index(c) == (c[1] \div tiles) * shape.headDim + (c[1] % tiles) * OutputTile + c[2]
           S == {index(c) : c \in served}
           value(j) == Attention!Mixed(Attention!RowOf(0, j \div shape.headDim), 0,
                                       j \div shape.headDim, j % shape.headDim)
<1>1. output' = [x \in DOMAIN output |-> IF x \in S THEN value(x) ELSE output[x]]
  <2>1. output' = Attention!With(output, [j \in S |-> value(j)])
    BY DEF Attention!DecodeOutput
  <2> HIDE DEF S, value
  <2> QED BY <2>1 DEF Attention!With
<1>2. DOMAIN output' = DOMAIN output
  <2> HIDE DEF S, value
  <2> QED BY <1>1
<1>3. ASSUME NEW t \in Chunk, NEW h \in QHeads, NEW i \in Places
      PROVE  output'[Attention!OutputIndex(t, h, i)] = AttendedAt(t, h, i)
  <2> DEFINE e == Attention!OutputIndex(t, h, i)
             c == <<h * tiles + (i \div OutputTile), i % OutputTile>>
  <2>1. /\ e \in 0..(AttentionTokens * Attention!QuerySize(shape) - 1)
        /\ e \div shape.headDim = t * shape.queryHeads + h /\ e % shape.headDim = i
    BY OutputPlace
  <2>2. /\ t = 0 /\ h \in Nat /\ i \in Nat /\ i < shape.headDim
        /\ shape.queryHeads \in Nat /\ shape.headDim \in Nat /\ i \in 0..(shape.headDim - 1)
    <3>1. shape.queryHeads \in Nat /\ shape.headDim \in Nat
      BY CallNumbers
    <3>2. t \in 0..(1 - 1) /\ h \in 0..(shape.queryHeads - 1) /\ i \in 0..(shape.headDim - 1)
      BY DEF Chunk, QHeads, Places
    <3> QED BY ONLY <3>1, <3>2
  <2>3. e = h * shape.headDim + i /\ t * shape.queryHeads + h = h
    BY <2>2 DEF Attention!OutputIndex
  <2>4. /\ c \in Attention!Range0(shape.queryHeads * tiles) \X Attention!Range0(OutputTile)
        /\ (c[1] % tiles) * OutputTile + c[2] = i
        /\ c[1] \div tiles = h
    BY TilesServe
  <2>5. c \in served /\ index(c) = e
    <3> HIDE DEF c, tiles, e
    <3>1. c \in served
      BY <2>2, <2>4
    <3>2. OutputTile \in Nat \ {0}
      BY KernelAssumption DEF Attention!TileAssumption
    <3>3. c[2] \in Nat
      BY <2>4, <3>2 DEF Attention!Range0
    <3>4. h * shape.headDim \in Nat
      BY <2>2, SMT
    <3>5. (c[1] % tiles) * OutputTile \in Int
      <4>1. tiles \in Nat /\ c[1] \in Int
        <5>1. tiles \in Nat
          BY <2>2, <3>2, TilesReach DEF tiles
        <5>2. shape.queryHeads * tiles \in Nat
          BY <2>2, <5>1, SMT
        <5>3. c[1] \in Attention!Range0(shape.queryHeads * tiles)
          BY <2>4
        <5> QED BY <5>1, <5>2, <5>3 DEF Attention!Range0
      <4>2. tiles # 0
        <5>1. i \div OutputTile \in 0..(tiles - 1)
          BY <2>2, <3>2, TilesReach DEF tiles
        <5>2. i \div OutputTile \in Nat
          BY <2>2, <3>2, Division
        <5> QED BY <4>1, <5>1, <5>2
      <4>3. c[1] % tiles \in Int
        BY <4>1, <4>2
      <4> QED BY <3>2, <4>3
    <3>6. index(c) = e
      <4> DEFINE u == (c[1] % tiles) * OutputTile
                 v == h * shape.headDim
      <4>1. index(c) = v + u + c[2]
        BY <2>4
      <4>2. u + c[2] = i
        BY <2>4
      <4>3. u \in Int /\ v \in Nat /\ c[2] \in Nat
        BY <3>3, <3>4, <3>5
      <4>4. e = v + i
        BY <2>3
      <4> HIDE DEF u, v, index
      <4> QED BY <4>1, <4>2, <4>3, <4>4
    <3> QED BY <3>1, <3>6
  <2>6. e \in S
    <3> HIDE DEF e, c, served, index
    <3> QED BY <2>5
  <2> HIDE DEF e, S
  <2>7. output'[e] = value(e)
    <3> HIDE DEF value
    <3> QED BY <1>1, <2>1, <2>6
  <2>8. value(e) = Attention!Mixed(Attention!RowOf(t, h), t, h, i)
    BY <2>1, <2>2, <2>3
  <2>9. DOMAIN Attention!RowOf(t, h) = 0..(past + t)
        /\ \A k \in 0..(past + t) : Attention!RowOf(t, h)[k] = ProbabilityOf(t, h, k)
    BY RowFound
  <2>10. Attention!Mixed(Attention!RowOf(t, h), t, h, i) = AttendedAt(t, h, i)
    BY <2>9, MixIsAttended
  <2> QED BY <2>7, <2>8, <2>10 DEF e
<1> QED
  BY <1>2, <1>3 DEF OutputIn

\* The output of a chunk whose logits are stored: a row is made probabilities,
\* and then mixed.
LEMMA OutputFills ==
  ASSUME AttentionCallOK, LogitsIn(logits), GatesIn(buffers.gate),
         CacheHolds(rowsKept, past + tokens),
         DOMAIN output = 0..(AttentionTokens * Attention!QuerySize(shape) - 1),
         Attention!Output
  PROVE  OutputIn(output') /\ DOMAIN output' = DOMAIN output /\ DOMAIN logits' = DOMAIN logits
<1> DEFINE S == Attention!Range0(tokens * Attention!QuerySize(shape))
           value(j) ==
             LET pair == j \div shape.headDim
                 token == pair \div shape.queryHeads
                 head == pair % shape.queryHeads
             IN Attention!Mixed(Attention!Softmax(Attention!RowOf(token, head), Attention!Visible(token)),
                                token, head, j % shape.headDim)
<1>1. output' = [x \in DOMAIN output |-> IF x \in S THEN value(x) ELSE output[x]]
  <2>1. output' = Attention!With(output, [j \in S |-> value(j)])
    BY DEF Attention!Output
  <2> HIDE DEF S, value
  <2> QED BY <2>1 DEF Attention!With
<1>2. DOMAIN output' = DOMAIN output /\ DOMAIN logits' = DOMAIN logits
  <2>1. DOMAIN output' = DOMAIN output
    <3> HIDE DEF S, value
    <3> QED BY <1>1
  <2>2. DOMAIN logits' = DOMAIN logits
    BY DEF Attention!Output, Attention!With
  <2> QED BY <2>1, <2>2
<1>3. ASSUME NEW t \in Chunk, NEW h \in QHeads, NEW i \in Places
      PROVE  output'[Attention!OutputIndex(t, h, i)] = AttendedAt(t, h, i)
  <2> DEFINE e == Attention!OutputIndex(t, h, i)
             soft == Attention!Softmax(Attention!RowOf(t, h), Attention!Visible(t))
  <2>1. /\ e \in 0..(AttentionTokens * Attention!QuerySize(shape) - 1)
        /\ e \in 0..(tokens * Attention!QuerySize(shape) - 1)
        /\ e \div shape.headDim = t * shape.queryHeads + h /\ e % shape.headDim = i
        /\ (t * shape.queryHeads + h) \div shape.queryHeads = t
        /\ (t * shape.queryHeads + h) % shape.queryHeads = h
    BY OutputPlace
  <2> HIDE DEF e
  <2>2. e \in S
    BY <2>1 DEF Attention!Range0
  <2>3. output'[e] = value(e)
    <3> HIDE DEF value, S
    <3> QED BY <1>1, <2>1, <2>2
  <2>4. value(e) = Attention!Mixed(soft, t, h, i)
    BY <2>1
  <2>5. DOMAIN soft = 0..(past + t) /\ \A k \in 0..(past + t) : soft[k] = ProbabilityOf(t, h, k)
    <3>1. soft = [k \in 0..(past + t) |-> <<"p", Attention!RowOf(t, h)[k], 0..(past + t), 0..(past + t)>>]
      BY DEF Attention!Softmax, Attention!Visible
    <3>2. \A k \in 0..(past + t) : Attention!RowOf(t, h)[k] = LogitOf(t, h, k)
      BY RowFound
    <3> HIDE DEF soft
    <3> QED BY <3>1, <3>2 DEF ProbabilityOf
  <2> HIDE DEF soft
  <2>6. Attention!Mixed(soft, t, h, i) = AttendedAt(t, h, i)
    BY <2>5, MixIsAttended
  <2> QED BY <2>3, <2>4, <2>6 DEF e
<1> QED
  BY <1>2, <1>3 DEF OutputIn

\* A row whose maximum and weights are over the same keys, and all of these
\* relative to that maximum.
WholeRow(K) == [most |-> K, weights |-> [k \in K |-> K]]

\* Before the first key there is such a row.
LEMMA NoRowIsWhole == Attention!NoRow = WholeRow({})
<1>1. <<>> = [k \in {} |-> {}]
  OBVIOUS
<1> QED
  BY <1>1 DEF Attention!NoRow, WholeRow

\* Scaling a whole row makes its weights relative to the new maximum.
LEMMA WholeScales ==
  ASSUME NEW K, NEW M
  PROVE  Attention!Scaled(WholeRow(K), M) = [k \in K |-> M]
<1>1. /\ WholeRow(K).most = K /\ DOMAIN WholeRow(K).weights = K
      /\ \A k \in K : WholeRow(K).weights[k] = K
  BY DEF WholeRow
<1> DEFINE f == [k \in (IF K = {} THEN {} ELSE K) |->
                   IF WholeRow(K).weights[k] = WholeRow(K).most THEN M ELSE {}]
<1>2. Attention!Scaled(WholeRow(K), M) = f
  BY <1>1 DEF Attention!Scaled
<1>3. (IF K = {} THEN {} ELSE K) = K
  OBVIOUS
<1>4. f = [k \in K |-> M]
  BY <1>1, <1>3
<1> QED
  BY <1>2, <1>4

\* So whatever is added to a whole row, or merged with it, it stays whole.
LEMMA WholeAdded ==
  ASSUME NEW K, NEW J
  PROVE  Attention!Added(WholeRow(K), J) = WholeRow(K \cup J)
<1> DEFINE M == K \cup J
<1>1. WholeRow(K).most = K
  BY DEF WholeRow
<1>2. Attention!Scaled(WholeRow(K), M) = [k \in K |-> M]
  BY WholeScales
<1>3. Attention!Joined([k \in K |-> M], [k \in J |-> M]) = [k \in M |-> M]
  <2> DEFINE f == [k \in K |-> M]
             g == [k \in J |-> M]
  <2>1. DOMAIN f = K /\ DOMAIN g = J /\ (\A k \in K : f[k] = M) /\ (\A k \in J : g[k] = M)
    OBVIOUS
  <2> HIDE DEF f, g
  <2>2. Attention!Joined(f, g) = [k \in M |-> M]
    BY <2>1 DEF Attention!Joined
  <2> QED BY <2>2 DEF f, g
<1>4. Attention!Added(WholeRow(K), J) =
        [most |-> M, weights |-> Attention!Joined([k \in K |-> M], [k \in J |-> M])]
  BY <1>1, <1>2 DEF Attention!Added
<1> QED
  BY <1>3, <1>4 DEF WholeRow

\* The rows of two warps, too.
LEMMA WholeMerged ==
  ASSUME NEW K, NEW J
  PROVE  Attention!Merged(WholeRow(K), WholeRow(J)) = WholeRow(K \cup J)
<1> DEFINE M == K \cup J
<1>1. WholeRow(K).most = K /\ WholeRow(J).most = J
  BY DEF WholeRow
<1>2. /\ Attention!Scaled(WholeRow(K), M) = [k \in K |-> M]
      /\ Attention!Scaled(WholeRow(J), M) = [k \in J |-> M]
  BY WholeScales
<1>3. Attention!Joined([k \in K |-> M], [k \in J |-> M]) = [k \in M |-> M]
  <2> DEFINE f == [k \in K |-> M]
             g == [k \in J |-> M]
  <2>1. DOMAIN f = K /\ DOMAIN g = J /\ (\A k \in K : f[k] = M) /\ (\A k \in J : g[k] = M)
    OBVIOUS
  <2> HIDE DEF f, g
  <2>2. Attention!Joined(f, g) = [k \in M |-> M]
    BY <2>1 DEF Attention!Joined
  <2> QED BY <2>2 DEF f, g
<1>4. Attention!Merged(WholeRow(K), WholeRow(J)) =
        [most |-> M, weights |-> Attention!Joined([k \in K |-> M], [k \in J |-> M])]
  BY <1>1, <1>2 DEF Attention!Merged
<1> QED
  BY <1>3, <1>4 DEF WholeRow

\* Going over the cache in tiles, a token sees all it may and its row is whole.
LEMMA ScannedIsWhole ==
  ASSUME AttentionCallOK, NEW t \in Chunk
  PROVE  Attention!Scanned(t) = WholeRow(0..(past + t))
<1> DEFINE V == 0..(past + t)
           c == Attention!Ceil(past + t + 1, KTile)
           Tile(n) == ((n - 1) * KTile .. n * KTile - 1) \cap V
           Seen(n) == (0 .. n * KTile - 1) \cap V
           seen == CHOOSE f : f = [n \in 0..c |->
                     IF n = 0 THEN Attention!NoRow ELSE Attention!Added(f[n - 1], Tile(n))]
           f0 == [n \in 0..c |-> WholeRow(Seen(n))]
<1>1. Attention!Scanned(t) = seen[c]
  BY DEF Attention!Scanned, Attention!Visible
<1>2. KTile \in Nat \ {0} /\ past + t + 1 \in Nat /\ past + t \in Nat
  <2>1. KTile \in Nat \ {0}
    BY KernelAssumption DEF Attention!TileAssumption
  <2>2. past \in Nat /\ t \in Nat
    BY CallNumbers DEF Chunk
  <2> QED BY <2>1, <2>2
<1>3. c \in Nat
  BY <1>2 DEF Attention!Ceil
<1> HIDE DEF c
<1>4. Seen(0) = {}
  <2>1. 0 * KTile - 1 = -1
    BY <1>2
  <2> QED BY <2>1
<1>5. ASSUME NEW n \in 1..c PROVE Seen(n) = Seen(n - 1) \cup Tile(n)
  <2> DEFINE u == (n - 1) * KTile
             v == n * KTile
  <2>1. u \in Nat /\ v \in Nat /\ u <= v
    <3>1. n \in Nat /\ n - 1 \in Nat /\ n - 1 <= n
      OBVIOUS
    <3>2. KTile * (n - 1) <= KTile * n /\ KTile * (n - 1) \in Nat /\ KTile * n \in Nat
      BY <1>2, <3>1, Grows
    <3>3. u = KTile * (n - 1) /\ v = KTile * n
      BY <1>2, <3>1, Multiplied
    <3> QED BY <3>2, <3>3
  <2> HIDE DEF u, v
  <2>2. 0 .. v - 1 = (0 .. u - 1) \cup (u .. v - 1)
    BY <2>1
  <2>3. Seen(n) = (0 .. v - 1) \cap V /\ Seen(n - 1) = (0 .. u - 1) \cap V
        /\ Tile(n) = (u .. v - 1) \cap V
    BY DEF u, v
  <2> HIDE DEF Seen, Tile, V
  <2> QED BY <2>2, <2>3
<1>6. Seen(c) = V
  <2> SUFFICES ASSUME NEW i \in V PROVE i \in 0 .. c * KTile - 1
    OBVIOUS
  <2>1. i \in 0..((past + t + 1) - 1)
    BY <1>2
  <2>2. /\ i \div KTile \in 0..(c - 1) /\ i % KTile \in 0..(KTile - 1)
        /\ i = ((i \div KTile) * KTile) + (i % KTile)
    BY <1>2, <2>1, TilesReach DEF c
  <2> DEFINE q == i \div KTile
             r == i % KTile
  <2> HIDE DEF q, r
  <2>3. q * KTile + r \in Nat /\ q * KTile + r < c * KTile /\ c * KTile \in Nat
    <3>1. q \in 0..(c - 1) /\ r \in 0..(KTile - 1) /\ KTile \in Nat
      BY <1>2, <2>2 DEF q, r
    <3> QED BY ONLY <1>3, <3>1, Digits
  <2> DEFINE m == c * KTile
  <2>4. i \in Nat /\ i < m /\ m \in Nat
    BY <2>2, <2>3 DEF q, r
  <2> HIDE DEF m
  <2>5. i \in 0..(m - 1)
    BY <2>4
  <2> QED BY <2>5 DEF m
<1> HIDE DEF Seen, Tile, V
<1>7. seen = [n \in 0..c |-> IF n = 0 THEN Attention!NoRow ELSE Attention!Added(seen[n - 1], Tile(n))]
  <2>1. f0 = [n \in 0..c |-> IF n = 0 THEN Attention!NoRow ELSE Attention!Added(f0[n - 1], Tile(n))]
    <3>1. ASSUME NEW n \in 0..c
          PROVE  WholeRow(Seen(n)) =
                   IF n = 0 THEN Attention!NoRow ELSE Attention!Added(f0[n - 1], Tile(n))
      <4>1. CASE n = 0
        BY <1>4, <4>1, NoRowIsWhole
      <4>2. CASE n # 0
        <5>1. n \in 1..c /\ n - 1 \in 0..c
          BY <1>3, <4>2
        <5>2. f0[n - 1] = WholeRow(Seen(n - 1))
          BY <5>1
        <5>3. Attention!Added(WholeRow(Seen(n - 1)), Tile(n)) = WholeRow(Seen(n - 1) \cup Tile(n))
          BY WholeAdded
        <5> QED BY <1>5, <4>2, <5>1, <5>2, <5>3
      <4> QED BY <4>1, <4>2
    <3> QED BY <3>1
  <2> HIDE DEF f0
  <2> QED BY <2>1
<1> HIDE DEF seen
<1> DEFINE P == {n \in 0..c : seen[n] = WholeRow(Seen(n))}
<1>8. 0 \in P
  <2>1. 0 \in 0..c
    BY <1>3
  <2>2. seen[0] = Attention!NoRow
    BY <1>7, <2>1
  <2> QED BY <1>4, <2>1, <2>2, NoRowIsWhole
<1>9. ASSUME NEW n \in 1..c, n - 1 \in P PROVE n \in P
  <2>1. n \in 0..c /\ n # 0
    BY <1>3
  <2>2. seen[n] = Attention!Added(seen[n - 1], Tile(n))
    BY <1>7, <2>1
  <2>3. Attention!Added(WholeRow(Seen(n - 1)), Tile(n)) = WholeRow(Seen(n - 1) \cup Tile(n))
    BY WholeAdded
  <2> QED BY <1>5, <1>9, <2>1, <2>2, <2>3
<1>10. c \in P
  <2> HIDE DEF P
  <2> QED BY <1>3, <1>8, <1>9, BoundedInduction, SMTT(30)
<1> QED
  BY <1>1, <1>6, <1>10 DEF V

\* What a warp has scanned is the keys that are its own.
LEMMA ScannedByIsWhole ==
  ASSUME AttentionCallOK, NEW w \in Nat
  PROVE  Attention!ScannedBy(w) =
           WholeRow({k \in Attention!Range0(Attention!Context) :
                       k >= w /\ (k - w) % Attention!ActiveWarps = 0})
<1> DEFINE C == Attention!Context
           K == {k \in Attention!Range0(C) : k >= w /\ (k - w) % Attention!ActiveWarps = 0}
           Seen(n) == {k \in K : k <= n}
           scan == CHOOSE f : f = [n \in -1..(C - 1) |->
                     IF n = -1 THEN Attention!NoRow
                     ELSE IF n \in K THEN Attention!Added(f[n - 1], {n}) ELSE f[n - 1]]
           f0 == [n \in -1..(C - 1) |-> WholeRow(Seen(n))]
<1>1. Attention!ScannedBy(w) = scan[C - 1]
  BY DEF Attention!ScannedBy
<1>2. C \in Nat
  BY CallNumbers DEF Attention!Context
<1>3. \A k \in K : k \in 0..(C - 1)
  BY DEF Attention!Range0
<1> HIDE DEF K, C
<1>4. Seen(-1) = {} /\ Seen(C - 1) = K
  BY <1>2, <1>3
<1>5. ASSUME NEW n \in 0..(C - 1)
      PROVE  Seen(n) = IF n \in K THEN Seen(n - 1) \cup {n} ELSE Seen(n - 1)
  BY <1>2, <1>3
<1> HIDE DEF Seen
<1>6. scan = [n \in -1..(C - 1) |->
                IF n = -1 THEN Attention!NoRow
                ELSE IF n \in K THEN Attention!Added(scan[n - 1], {n}) ELSE scan[n - 1]]
  <2>1. f0 = [n \in -1..(C - 1) |->
                IF n = -1 THEN Attention!NoRow
                ELSE IF n \in K THEN Attention!Added(f0[n - 1], {n}) ELSE f0[n - 1]]
    <3>1. ASSUME NEW n \in -1..(C - 1)
          PROVE  WholeRow(Seen(n)) =
                   IF n = -1 THEN Attention!NoRow
                   ELSE IF n \in K THEN Attention!Added(f0[n - 1], {n}) ELSE f0[n - 1]
      <4>1. CASE n = -1
        BY <1>4, <4>1, NoRowIsWhole
      <4>2. CASE n # -1
        <5>1. n \in 0..(C - 1) /\ n - 1 \in -1..(C - 1)
          BY <1>2, <4>2
        <5>2. f0[n - 1] = WholeRow(Seen(n - 1))
          BY <5>1
        <5>3. Attention!Added(WholeRow(Seen(n - 1)), {n}) = WholeRow(Seen(n - 1) \cup {n})
          BY WholeAdded
        <5> QED BY <1>5, <4>2, <5>1, <5>2, <5>3
      <4> QED BY <4>1, <4>2
    <3> QED BY <3>1
  <2> HIDE DEF f0
  <2> QED BY <2>1
<1> HIDE DEF scan
<1> DEFINE P == {m \in 0..C : scan[m - 1] = WholeRow(Seen(m - 1))}
<1>7. 0 \in P
  <2>1. scan[-1] = Attention!NoRow
    BY <1>2, <1>6
  <2>2. 0 - 1 = -1 /\ 0 \in 0..C
    BY <1>2
  <2> QED BY <1>4, <2>1, <2>2, NoRowIsWhole
<1>8. ASSUME NEW m \in 1..C, m - 1 \in P PROVE m \in P
  <2> DEFINE n == m - 1
  <2>1. n \in 0..(C - 1) /\ n \in -1..(C - 1) /\ n # -1 /\ m \in 0..C
    BY <1>2
  <2>2. scan[n - 1] = WholeRow(Seen(n - 1))
    BY <1>8
  <2> HIDE DEF n
  <2>3. scan[n] = IF n \in K THEN Attention!Added(scan[n - 1], {n}) ELSE scan[n - 1]
    BY <1>6, <2>1
  <2>4. Attention!Added(WholeRow(Seen(n - 1)), {n}) = WholeRow(Seen(n - 1) \cup {n})
    BY WholeAdded
  <2>5. scan[n] = WholeRow(Seen(n))
    BY <1>5, <2>1, <2>2, <2>3, <2>4
  <2> QED BY <2>1, <2>5 DEF n
<1>9. C \in P
  <2> HIDE DEF P
  <2> QED BY <1>2, <1>7, <1>8, BoundedInduction, SMTT(30)
<1> QED
  BY <1>1, <1>4, <1>9 DEF K, C

\* The warps share the keys, and merging their rows makes one of all.
LEMMA DecodeRowIsWhole ==
  ASSUME AttentionCallOK, tokens = 1
  PROVE  Attention!DecodeRow = WholeRow(0..past)
<1> DEFINE W == Attention!ActiveWarps
           C == Attention!Context
           Of(w) == {k \in Attention!Range0(C) : k >= w /\ (k - w) % W = 0}
           Seen(w) == {k \in Attention!Range0(C) : k % W <= w}
           merged == CHOOSE f : f = [w \in Attention!Range0(W) |->
                       IF w = 0 THEN Attention!ScannedBy(0)
                       ELSE Attention!Merged(f[w - 1], Attention!ScannedBy(w))]
           f0 == [w \in Attention!Range0(W) |-> WholeRow(Seen(w))]
<1>1. Attention!DecodeRow = merged[W - 1]
  BY DEF Attention!DecodeRow
<1>2. W \in Nat \ {0} /\ C \in Nat /\ C = past + 1 /\ past \in Nat
  <2>1. W \in Nat \ {0}
    BY KernelAssumption DEF Attention!TileAssumption, Attention!ActiveWarps
  <2>2. C \in Nat /\ C = past + 1 /\ past \in Nat
    BY CallNumbers DEF Attention!Context
  <2> QED BY <2>1, <2>2
<1>3. Attention!Range0(W) = 0..(W - 1) /\ Attention!Range0(C) = 0..past
  BY <1>2 DEF Attention!Range0
<1>4. \A w \in Nat : Attention!ScannedBy(w) = WholeRow(Of(w))
  BY ScannedByIsWhole
<1> HIDE DEF W, C
<1>5. ASSUME NEW w \in 0..(W - 1), NEW k \in 0..past
      PROVE  k >= w /\ (k - w) % W = 0 <=> k % W = w
  <2> DEFINE q == k \div W
             r == k % W
  <2>1. q \in Nat /\ r \in 0..(W - 1) /\ k = W * q + r
    <3>1. k \in Nat
      BY <1>2
    <3> QED BY <1>2, <3>1, Division
  <2> HIDE DEF q, r
  <2>2. ASSUME r = w PROVE k >= w /\ (k - w) % W = 0
    <3>1. W * q \in Nat /\ W * q = q * W
      BY <1>2, <2>1, SMT
    <3>2. k - w = q * W + 0 /\ k >= w
      <4> DEFINE x == W * q
                 y == q * W
      <4>1. x \in Nat /\ x = y /\ k = x + r
        BY <2>1, <3>1
      <4> HIDE DEF x, y
      <4>2. k - w = y + 0 /\ k >= w
        BY <1>2, <2>2, <4>1
      <4> QED BY <4>2 DEF y
    <3>3. (q * W + 0) % W = 0
      BY <1>2, <2>1, DivisionUnique
    <3> QED BY <3>2, <3>3
  <2>3. ASSUME k >= w, (k - w) % W = 0 PROVE r = w
    <3> DEFINE p == (k - w) \div W
    <3>1. k - w \in Nat
      BY <2>3
    <3>2. p \in Nat /\ k - w = W * p + ((k - w) % W)
      BY <1>2, <3>1, Division
    <3> HIDE DEF p
    <3>3. W * p \in Nat /\ W * p = p * W
      BY <1>2, <3>2, SMT
    <3>4. k = p * W + w
      <4> DEFINE x == W * p
                 y == p * W
      <4>1. x \in Nat /\ x = y /\ k - w = x + 0
        BY <2>3, <3>2, <3>3
      <4> HIDE DEF x, y
      <4>2. k = y + w
        BY <1>2, <4>1
      <4> QED BY <4>2 DEF y
    <3>5. (p * W + w) % W = w
      BY <1>2, <3>2, DivisionUnique
    <3> QED BY <3>4, <3>5 DEF r
  <2> QED BY <2>2, <2>3 DEF r
<1>6. \A k \in 0..past : k % W \in 0..(W - 1)
  BY <1>2
<1>7. Seen(0) = Of(0)
  <2>1. 0 \in 0..(W - 1)
    BY <1>2
  <2>2. Of(0) = {k \in 0..past : k % W = 0}
    BY <1>3, <1>5, <2>1
  <2> HIDE DEF Of
  <2> QED BY <1>2, <1>3, <1>6, <2>2
<1>8. ASSUME NEW w \in 1..(W - 1) PROVE Seen(w) = Seen(w - 1) \cup Of(w)
  <2>1. Of(w) = {k \in 0..past : k % W = w}
    <3>1. w \in 0..(W - 1)
      BY <1>2
    <3>2. \A k \in 0..past : k >= w /\ (k - w) % W = 0 <=> k % W = w
      BY <1>5, <3>1
    <3> QED BY <1>3, <3>2
  <2> HIDE DEF Of
  <2> QED BY <1>2, <1>3, <1>6, <2>1
<1>9. Seen(W - 1) = 0..past
  BY <1>2, <1>3, <1>6
<1> HIDE DEF Seen, Of
<1>10. merged = [w \in 0..(W - 1) |->
                   IF w = 0 THEN Attention!ScannedBy(0)
                   ELSE Attention!Merged(merged[w - 1], Attention!ScannedBy(w))]
  <2>1. f0 = [w \in Attention!Range0(W) |->
                IF w = 0 THEN Attention!ScannedBy(0)
                ELSE Attention!Merged(f0[w - 1], Attention!ScannedBy(w))]
    <3>1. ASSUME NEW w \in Attention!Range0(W)
          PROVE  WholeRow(Seen(w)) =
                   IF w = 0 THEN Attention!ScannedBy(0)
                   ELSE Attention!Merged(f0[w - 1], Attention!ScannedBy(w))
      <4>1. CASE w = 0
        BY <1>4, <1>7, <4>1
      <4>2. CASE w # 0
        <5>1. w \in 1..(W - 1) /\ w - 1 \in Attention!Range0(W) /\ w \in Nat
          BY <1>2, <1>3, <4>2
        <5>2. f0[w - 1] = WholeRow(Seen(w - 1))
          BY <5>1
        <5>3. Attention!Merged(WholeRow(Seen(w - 1)), WholeRow(Of(w))) = WholeRow(Seen(w - 1) \cup Of(w))
          BY WholeMerged
        <5> QED BY <1>4, <1>8, <4>2, <5>1, <5>2, <5>3
      <4> QED BY <4>1, <4>2
    <3> QED BY <3>1
  <2> HIDE DEF f0
  <2>2. merged = [w \in Attention!Range0(W) |->
                   IF w = 0 THEN Attention!ScannedBy(0)
                   ELSE Attention!Merged(merged[w - 1], Attention!ScannedBy(w))]
    BY <2>1
  <2> HIDE DEF merged
  <2> QED BY <1>3, <2>2
<1> HIDE DEF merged
<1> DEFINE P == {w \in 0..(W - 1) : merged[w] = WholeRow(Seen(w))}
           n == W - 1
<1>11. 0 \in P
  <2>1. 0 \in 0..(W - 1)
    BY <1>2
  <2>2. merged[0] = Attention!ScannedBy(0)
    BY <1>10, <2>1
  <2> QED BY <1>4, <1>7, <2>1, <2>2
<1>12. ASSUME NEW w \in 1..(W - 1), w - 1 \in P PROVE w \in P
  <2>1. w \in 0..(W - 1) /\ w # 0 /\ w \in Nat
    BY <1>2
  <2>2. merged[w] = Attention!Merged(merged[w - 1], Attention!ScannedBy(w))
    BY <1>10, <2>1
  <2>3. Attention!Merged(WholeRow(Seen(w - 1)), WholeRow(Of(w))) = WholeRow(Seen(w - 1) \cup Of(w))
    BY WholeMerged
  <2> QED BY <1>4, <1>8, <1>12, <2>1, <2>2, <2>3
<1>13. W - 1 \in P
  <2> HIDE DEF P
  <2>1. n \in Nat
    BY <1>2
  <2>2. \A w \in 1..n : w - 1 \in P => w \in P
    BY <1>12
  <2> HIDE DEF n
  <2>3. \A w \in 0..n : w \in P
    BY <1>11, <2>1, <2>2, BoundedInduction
  <2>4. n \in P
    BY <2>1, <2>3
  <2> QED BY <2>4 DEF n
<1> QED
  BY <1>1, <1>9, <1>13 DEF W

\* Weights that are all relative to one maximum, divided by their sum, are the
\* probabilities of the reference.
LEMMA WholeDivided ==
  ASSUME AttentionCallOK, QueriesIn(buffers.query), CacheHolds(rowsKept, past + tokens),
         NEW t \in Chunk, NEW h \in QHeads
  PROVE  LET p == Attention!Divided(WholeRow(0..(past + t)), t, h) IN
         /\ DOMAIN p = 0..(past + t)
         /\ \A k \in 0..(past + t) : p[k] = ProbabilityOf(t, h, k)
<1> DEFINE V == 0..(past + t)
           r == WholeRow(V)
           p == Attention!Divided(r, t, h)
<1>1. DOMAIN r.weights = V /\ \A k \in V : r.weights[k] = V
  BY DEF WholeRow
<1> HIDE DEF r
<1>2. p = [k \in V |-> <<"p", Attention!Dot(Attention!Query(t, h), Attention!Key(k, h)),
                         r.weights[k], {j \in V : r.weights[j] = r.weights[k]}>>]
  BY <1>1 DEF Attention!Divided
<1> HIDE DEF p
<1>3. ASSUME NEW k \in V PROVE p[k] = ProbabilityOf(t, h, k)
  <2>1. Attention!Dot(Attention!Query(t, h), Attention!Key(k, h)) = LogitOf(t, h, k)
    BY LogitFound
  <2>2. {j \in V : r.weights[j] = r.weights[k]} = V
    BY <1>1
  <2>3. p[k] = <<"p", LogitOf(t, h, k), V, V>>
    <3> HIDE DEF V
    <3> QED BY <1>1, <1>2, <2>1, <2>2
  <2> QED BY <2>3 DEF ProbabilityOf
<1> QED
  BY <1>2, <1>3 DEF p, r

\* Lanes, each with so many components, have every place of a head that is no
\* larger than the model's.
LEMMA LanesReach ==
  ASSUME AttentionCallOK, shape.headDim <= ModelLayer.headDim, NEW i \in Places
  PROVE  i \in Attention!LaneElements
<1>1. Lanes \in Nat \ {0} /\ ValuesPerLane \in Nat \ {0} /\ ModelLayer.headDim = Lanes * ValuesPerLane
  BY KernelAssumption DEF Attention!TileAssumption, Attention!LaneAssumption
<1>2. i \in Nat /\ i < shape.headDim /\ shape.headDim \in Nat
  BY CallNumbers DEF Places
<1> DEFINE q == i \div Lanes
           r == i % Lanes
<1>3. i < ValuesPerLane * Lanes
  <2>1. Lanes * ValuesPerLane = ValuesPerLane * Lanes /\ Lanes * ValuesPerLane \in Int
    BY <1>1, Multiplied
  <2> DEFINE m == Lanes * ValuesPerLane
  <2>2. m \in Int /\ shape.headDim <= m
    BY <1>1, <2>1
  <2> HIDE DEF m
  <2>3. i < m
    BY <1>2, <2>2
  <2> QED BY <2>1, <2>3 DEF m
<1>4. q \in 0..(ValuesPerLane - 1) /\ r \in 0..(Lanes - 1) /\ i = (q * Lanes) + r
  BY <1>1, <1>2, <1>3, DigitsOf
<1> HIDE DEF q, r
<1>5. i = r + q * Lanes
  <2>1. q * Lanes \in Int /\ r \in Int
    BY <1>1, <1>4, Multiplied
  <2> QED BY <1>4, <2>1
<1> QED
  BY <1>2, <1>4, <1>5 DEF Attention!LaneElements, Attention!Range0

\* The output of the tokens served, whose rows are whole.
LEMMA OnlineOutputFills ==
  ASSUME AttentionCallOK, shape.headDim <= ModelLayer.headDim,
         QueriesIn(buffers.query), GatesIn(buffers.gate), CacheHolds(rowsKept, past + tokens),
         DOMAIN output = 0..(AttentionTokens * Attention!QuerySize(shape) - 1),
         NEW served, Chunk \subseteq served,
         NEW rows_, \A t \in Chunk : rows_[t] = WholeRow(0..(past + t)),
         Attention!OnlineOutput(served, rows_)
  PROVE  OutputIn(output') /\ DOMAIN output' = DOMAIN output
<1> DEFINE S == {Attention!OutputIndex(t, h, i) : t \in served, h \in Attention!Range0(shape.queryHeads),
                                                  i \in Attention!LaneElements}
           value(j) ==
             LET token == j \div Attention!QuerySize(shape)
                 head == (j \div shape.headDim) % shape.queryHeads
             IN Attention!Mixed(Attention!Divided(rows_[token], token, head), token, head,
                                j % shape.headDim)
<1>1. output' = [x \in DOMAIN output |-> IF x \in S THEN value(x) ELSE output[x]]
  <2>1. output' = Attention!With(output, [j \in S |-> value(j)])
    BY DEF Attention!OnlineOutput
  <2> HIDE DEF S, value
  <2> QED BY <2>1 DEF Attention!With
<1>2. DOMAIN output' = DOMAIN output
  <2> HIDE DEF S, value
  <2> QED BY <1>1
<1>3. ASSUME NEW t \in Chunk, NEW h \in QHeads, NEW i \in Places
      PROVE  output'[Attention!OutputIndex(t, h, i)] = AttendedAt(t, h, i)
  <2> DEFINE e == Attention!OutputIndex(t, h, i)
             p == Attention!Divided(WholeRow(0..(past + t)), t, h)
  <2>1. /\ e \in 0..(AttentionTokens * Attention!QuerySize(shape) - 1)
        /\ e \div Attention!QuerySize(shape) = t /\ e % shape.headDim = i
        /\ (e \div shape.headDim) % shape.queryHeads = h
    BY OutputPlace
  <2>2. e \in S
    <3>1. t \in served /\ h \in Attention!Range0(shape.queryHeads) /\ i \in Attention!LaneElements
      BY LanesReach DEF QHeads, Attention!Range0
    <3> QED BY <3>1
  <2> HIDE DEF e, S
  <2>3. output'[e] = value(e)
    <3> HIDE DEF value
    <3> QED BY <1>1, <2>1, <2>2
  <2>4. value(e) = Attention!Mixed(Attention!Divided(rows_[t], t, h), t, h, i)
    BY <2>1
  <2>5. rows_[t] = WholeRow(0..(past + t))
    OBVIOUS
  <2>6. DOMAIN p = 0..(past + t) /\ \A k \in 0..(past + t) : p[k] = ProbabilityOf(t, h, k)
    BY WholeDivided
  <2>7. Attention!Divided(rows_[t], t, h) = p
    BY <2>5
  <2> HIDE DEF p
  <2>8. Attention!Mixed(p, t, h, i) = AttendedAt(t, h, i)
    BY <2>6, MixIsAttended
  <2> HIDE DEF value
  <2> QED BY <2>3, <2>4, <2>7, <2>8 DEF e
<1> QED
  BY <1>2, <1>3 DEF OutputIn

\* The prefill kernels serve every token, tile by tile.
LEMMA PrefillFills ==
  ASSUME AttentionCallOK, shape.headDim <= ModelLayer.headDim,
         QueriesIn(buffers.query), GatesIn(buffers.gate), CacheHolds(rowsKept, past + tokens),
         DOMAIN output = 0..(AttentionTokens * Attention!QuerySize(shape) - 1),
         Attention!OnlinePrefill
  PROVE  OutputIn(output') /\ DOMAIN output' = DOMAIN output
<1> DEFINE all_ == {tile * QTile + q : tile \in Attention!Range0(Attention!Ceil(tokens, QTile)),
                                       q \in Attention!Range0(QTile)}
           served == {t \in all_ : t < tokens}
           rows_ == [token \in served |-> Attention!Scanned(token)]
<1>1. Attention!OnlineOutput(served, rows_)
  BY DEF Attention!OnlinePrefill
<1>2. Chunk \subseteq served
  <2> SUFFICES ASSUME NEW t \in Chunk PROVE t \in served
    OBVIOUS
  <2>1. QTile \in Nat \ {0} /\ tokens \in Nat
    BY CallNumbers, KernelAssumption DEF Attention!TileAssumption
  <2>2. t \in 0..(tokens - 1) /\ t < tokens
    BY <2>1 DEF Chunk
  <2>3. /\ t \div QTile \in 0..(Attention!Ceil(tokens, QTile) - 1) /\ t % QTile \in 0..(QTile - 1)
        /\ t = ((t \div QTile) * QTile) + (t % QTile)
    BY <2>1, <2>2, TilesReach
  <2>4. t \in all_
    BY <2>3 DEF Attention!Range0
  <2> HIDE DEF all_
  <2> QED BY <2>2, <2>4
<1> HIDE DEF served
<1>3. \A t \in Chunk : rows_[t] = WholeRow(0..(past + t))
  BY <1>2, ScannedIsWhole
<1> HIDE DEF rows_
<1> QED
  BY <1>1, <1>2, <1>3, OnlineOutputFills

\* The decode kernel serves its one token.
LEMMA OnlineDecodeFills ==
  ASSUME AttentionCallOK, shape.headDim <= ModelLayer.headDim, tokens = 1,
         QueriesIn(buffers.query), GatesIn(buffers.gate), CacheHolds(rowsKept, past + tokens),
         DOMAIN output = 0..(AttentionTokens * Attention!QuerySize(shape) - 1),
         Attention!OnlineDecode
  PROVE  OutputIn(output') /\ DOMAIN output' = DOMAIN output
<1> DEFINE rows_ == [token \in {0} |-> Attention!DecodeRow]
<1>1. Attention!OnlineOutput({0}, rows_)
  BY DEF Attention!OnlineDecode
<1>2. \A t \in Chunk : t = 0
  BY DEF Chunk
<1>3. Chunk \subseteq {0}
  BY <1>2
<1>4. \A t \in Chunk : rows_[t] = WholeRow(0..(past + t))
  <2>1. past + 0 = past
    BY CallNumbers
  <2>2. Attention!DecodeRow = WholeRow(0..past)
    BY DecodeRowIsWhole
  <2> QED BY <1>2, <2>1, <2>2
<1> HIDE DEF rows_
<1> QED
  BY <1>1, <1>3, <1>4, OnlineOutputFills

-----------------------------------------------------------------------------
(* Attention: the kernels of a call *)

\* The kernels of an attention layer.
KernelNames ==
  {"split", "norm_query", "norm_key", "append", "logits", "output", "online_model",
   "online_generic", "online_decode", "decode_logits", "decode_softmax", "decode_output"}

\* The ways a chunk is served, by the kernels after the append.
Ways(K) ==
  /\ K[1] = "split" /\ K[2] = "norm_query" /\ K[3] = "norm_key" /\ K[4] = "append"
  /\ \/ /\ Len(K) = 7 /\ tokens = 1
        /\ K[5] = "decode_logits" /\ K[6] = "decode_softmax" /\ K[7] = "decode_output"
     \/ /\ Len(K) = 6
        /\ K[5] = "logits" /\ K[6] = "output"
     \/ /\ Len(K) = 5 /\ tokens = 1 /\ shape.headDim <= ModelLayer.headDim
        /\ K[5] = "online_decode"
     \/ /\ Len(K) = 5 /\ shape.headDim <= ModelLayer.headDim
        /\ K[5] \in {"online_model", "online_generic"}

\* A call that was not refused is served in one of them.
LEMMA CallIsServed ==
  ASSUME AttentionCallOK, tokens # 0, Attention!Attend(shape, policy, tokens) # <<>>
  PROVE  CallKernels \in Seq(KernelNames) /\ Ways(CallKernels)
<1> DEFINE A == Attention!Attend(shape, policy, tokens)
           B == <<"split", "norm_query", "norm_key", "append">>
<1>1. tokens \in Nat /\ tokens # 0 /\ shape.headDim \in Nat
  BY CallNumbers
<1>2. ModelLayer.headDim \in Nat
  <2>1. /\ Lanes \in Nat \ {0} /\ ValuesPerLane \in Nat \ {0}
        /\ ModelLayer.headDim = Lanes * ValuesPerLane
    BY KernelAssumption DEF Attention!TileAssumption, Attention!LaneAssumption
  <2>2. Lanes * ValuesPerLane \in Nat
    BY <2>1, SMT
  <2> QED BY <2>1, <2>2
<1>3. \/ tokens = 1 /\ A = <<"decode_logits", "decode_softmax", "decode_output">>
      \/ A = <<"logits", "output">>
      \/ tokens = 1 /\ shape = ModelLayer /\ A = <<"online_decode">>
      \/ ~(shape.headDim > ModelLayer.headDim) /\ A = <<"online_model">>
      \/ ~(shape.headDim > ModelLayer.headDim) /\ A = <<"online_generic">>
  <2>1. tokens = 1 \/ tokens > 1
    BY <1>1
  <2>2. CASE Attention!Materialized(policy)
    BY <1>1, <2>1, <2>2 DEF Attention!Attend
  <2>3. CASE ~Attention!Materialized(policy)
    BY <1>1, <2>1, <2>3 DEF Attention!Attend
  <2> QED BY <2>2, <2>3
<1> HIDE DEF A
<1>4. A \in Seq(KernelNames) /\ Len(A) \in Nat
  <2>1. \/ A = <<"decode_logits", "decode_softmax", "decode_output">> \/ A = <<"logits", "output">>
        \/ A = <<"online_decode">> \/ A = <<"online_model">> \/ A = <<"online_generic">>
    BY <1>3
  <2>2. A \in Seq(KernelNames)
    <3>1. <<"decode_logits", "decode_softmax", "decode_output">> \in Seq(KernelNames)
      BY DEF KernelNames
    <3>2. <<"logits", "output">> \in Seq(KernelNames)
      BY DEF KernelNames
    <3>3. /\ <<"online_decode">> \in Seq(KernelNames) /\ <<"online_model">> \in Seq(KernelNames)
          /\ <<"online_generic">> \in Seq(KernelNames)
      BY DEF KernelNames
    <3> QED BY ONLY <2>1, <3>1, <3>2, <3>3, Zenon
  <2> QED BY <2>2, LenProperties
<1>5. B \in Seq(KernelNames) /\ Len(B) = 4 /\ B[1] = "split" /\ B[2] = "norm_query"
      /\ B[3] = "norm_key" /\ B[4] = "append"
  <2>1. B \in Seq(KernelNames)
    BY DEF KernelNames
  <2>2. Len(B) = 4
    OBVIOUS
  <2>3. B[1] = "split" /\ B[2] = "norm_query" /\ B[3] = "norm_key" /\ B[4] = "append"
    OBVIOUS
  <2> QED BY <2>1, <2>2, <2>3
<1> HIDE DEF B
<1>6. /\ B \o A \in Seq(KernelNames) /\ Len(B \o A) = 4 + Len(A)
      /\ \A i \in 1 .. 4 + Len(A) : (B \o A)[i] = IF i <= 4 THEN B[i] ELSE A[i - 4]
  <2>1. /\ B \o A \in Seq(KernelNames) /\ Len(B \o A) = Len(B) + Len(A)
        /\ \A i \in 1 .. Len(B) + Len(A) : (B \o A)[i] = IF i <= Len(B) THEN B[i] ELSE A[i - Len(B)]
    BY ONLY <1>4, <1>5, ConcatProperties
  <2> QED BY <1>5, <2>1
<1>7. CallKernels = B \o A
  BY DEF CallKernels, Attention!Kernels, A, B
<1> DEFINE K == B \o A
<1> HIDE DEF K
<1>8. /\ K \in Seq(KernelNames) /\ Len(K) = 4 + Len(A)
      /\ \A i \in 1 .. 4 + Len(A) : K[i] = IF i <= 4 THEN B[i] ELSE A[i - 4]
  BY <1>6 DEF K
<1>9. K[1] = "split" /\ K[2] = "norm_query" /\ K[3] = "norm_key" /\ K[4] = "append"
  BY <1>4, <1>5, <1>8
<1>10. \A j \in 1..Len(A) : K[4 + j] = A[j]
  <2> TAKE j \in 1..Len(A)
  <2>1. 4 + j \in 1 .. 4 + Len(A) /\ ~(4 + j <= 4) /\ (4 + j) - 4 = j
    BY <1>4
  <2> QED BY <1>8, <2>1
<1>11. Ways(K)
  <2>1. CASE tokens = 1 /\ A = <<"decode_logits", "decode_softmax", "decode_output">>
    <3>1. Len(A) = 3 /\ A[1] = "decode_logits" /\ A[2] = "decode_softmax" /\ A[3] = "decode_output"
      BY <2>1
    <3>2. K[5] = A[1] /\ K[6] = A[2] /\ K[7] = A[3] /\ Len(K) = 7
      BY <1>8, <1>10, <3>1
    <3> QED BY <1>9, <2>1, <3>1, <3>2 DEF Ways
  <2>2. CASE A = <<"logits", "output">>
    <3>1. Len(A) = 2 /\ A[1] = "logits" /\ A[2] = "output"
      BY <2>2
    <3>2. K[5] = A[1] /\ K[6] = A[2] /\ Len(K) = 6
      BY <1>8, <1>10, <3>1
    <3> QED BY <1>9, <3>1, <3>2 DEF Ways
  <2>3. CASE tokens = 1 /\ shape = ModelLayer /\ A = <<"online_decode">>
    <3>1. Len(A) = 1 /\ A[1] = "online_decode" /\ shape.headDim <= ModelLayer.headDim
      BY <1>2, <2>3
    <3>2. K[5] = A[1] /\ Len(K) = 5
      BY <1>8, <1>10, <3>1
    <3> QED BY <1>9, <2>3, <3>1, <3>2 DEF Ways
  <2>4. CASE ~(shape.headDim > ModelLayer.headDim) /\ (A = <<"online_model">> \/ A = <<"online_generic">>)
    <3>1. Len(A) = 1 /\ A[1] \in {"online_model", "online_generic"} /\ shape.headDim <= ModelLayer.headDim
      BY <1>1, <1>2, <2>4
    <3>2. K[5] = A[1] /\ Len(K) = 5
      BY <1>8, <1>10, <3>1
    <3> QED BY <1>9, <3>1, <3>2 DEF Ways
  <2> QED BY <1>3, <2>1, <2>2, <2>3, <2>4
<1> QED
  BY <1>7, <1>8, <1>11 DEF K

\* What is left of a sequence after k of its elements.
LEMMA RestOf ==
  ASSUME NEW S, NEW K \in Seq(S), NEW n, n = Len(K), NEW k \in 0..n
  PROVE  /\ SubSeq(K, 0 + 1, n) = K
         /\ k = n => SubSeq(K, k + 1, n) = <<>>
         /\ k < n => /\ SubSeq(K, k + 1, n) # <<>>
                     /\ Head(SubSeq(K, k + 1, n)) = K[k + 1]
                     /\ Tail(SubSeq(K, k + 1, n)) = SubSeq(K, (k + 1) + 1, n)
<1>0. k \in 0..n
  OBVIOUS
<1>1. n \in Nat /\ \A i \in 1..n : K[i] \in S
  BY LenProperties, ElementOfSeq
<1>2. ASSUME NEW j \in 0..n
      PROVE  /\ SubSeq(K, j + 1, n) \in Seq(S) /\ Len(SubSeq(K, j + 1, n)) = n - j
             /\ \A i \in 1..(n - j) : SubSeq(K, j + 1, n)[i] = K[j + i]
  <2>1. j + 1 \in Int /\ n \in Int /\ (\A i \in j + 1 .. n : K[i] \in S)
    BY <1>1
  <2>2. /\ SubSeq(K, j + 1, n) \in Seq(S)
        /\ Len(SubSeq(K, j + 1, n)) = IF j + 1 <= n THEN n - (j + 1) + 1 ELSE 0
        /\ \A i \in 1 .. n - (j + 1) + 1 : SubSeq(K, j + 1, n)[i] = K[(j + 1) + i - 1]
    BY <2>1, SubSeqProperties
  <2>3. (IF j + 1 <= n THEN n - (j + 1) + 1 ELSE 0) = n - j /\ n - (j + 1) + 1 = n - j
    BY <1>1
  <2>4. \A i \in 1..(n - j) : (j + 1) + i - 1 = j + i
    BY <1>1
  <2> QED BY <2>2, <2>3, <2>4
<1>4. SubSeq(K, 0 + 1, n) = K
  <2>1. 0 \in 0..n
    BY <1>1
  <2>2. n - 0 = Len(K) /\ \A i \in 1..Len(K) : 0 + i = i
    BY <1>1
  <2>3. SubSeq(K, 0 + 1, n) \in Seq(S) /\ Len(SubSeq(K, 0 + 1, n)) = Len(K)
        /\ \A i \in 1..Len(K) : SubSeq(K, 0 + 1, n)[i] = K[i]
    BY <1>2, <2>1, <2>2
  <2> QED BY <2>3, SeqEqual
<1>5. ASSUME k = n PROVE SubSeq(K, k + 1, n) = <<>>
  <2>1. k + 1 \in Int /\ n \in Int /\ n < k + 1
    BY <1>1, <1>5
  <2> QED BY <2>1, SubSeqEmpty
<1>6. ASSUME k < n
      PROVE  /\ SubSeq(K, k + 1, n) # <<>> /\ Head(SubSeq(K, k + 1, n)) = K[k + 1]
             /\ Tail(SubSeq(K, k + 1, n)) = SubSeq(K, (k + 1) + 1, n)
  <2> DEFINE s == SubSeq(K, k + 1, n)
             u == SubSeq(K, (k + 1) + 1, n)
  <2>1. k \in 0..n /\ k + 1 \in 0..n
    BY <1>1, <1>6
  <2>2. s \in Seq(S) /\ Len(s) = n - k /\ \A i \in 1..(n - k) : s[i] = K[k + i]
    BY <1>2, <2>1
  <2>3. u \in Seq(S) /\ Len(u) = n - (k + 1) /\ \A i \in 1..(n - (k + 1)) : u[i] = K[(k + 1) + i]
    BY <1>2, <2>1
  <2> HIDE DEF s, u
  <2>5. s # <<>>
    <3>1. Len(s) # 0
      BY <1>1, <1>6, <2>1, <2>2
    <3> QED BY <3>1, EmptySeq
  <2>6. Head(s) = K[k + 1]
    <3>1. Head(s) = s[1] /\ 1 \in 1..(n - k)
      BY <1>1, <1>6, <2>1, <2>2, <2>5
    <3> QED BY <2>2, <3>1
  <2>7. Tail(s) = u
    <3>1. /\ Tail(s) \in Seq(S) /\ Len(Tail(s)) = Len(s) - 1
          /\ \A i \in 1 .. Len(Tail(s)) : Tail(s)[i] = s[i + 1]
      BY <2>2, <2>5, HeadTailProperties
    <3>2. Len(Tail(s)) = n - (k + 1) /\ Len(Tail(s)) = Len(u)
      <4>1. n - k - 1 = n - (k + 1)
        BY ONLY <1>0, <1>1
      <4> QED BY ONLY <2>2, <2>3, <3>1, <4>1
    <3>3. ASSUME NEW i \in 1..(n - (k + 1)) PROVE Tail(s)[i] = u[i]
      <4>1. i + 1 \in 1..(n - k) /\ k + (i + 1) = (k + 1) + i
        BY <1>1, <2>1
      <4>2. s[i + 1] = K[k + (i + 1)]
        BY <2>2, <4>1
      <4> QED BY <2>3, <3>1, <3>2, <4>1, <4>2
    <3> QED BY <2>3, <3>1, <3>2, <3>3, SeqEqual
  <2> QED BY <2>5, <2>6, <2>7 DEF s, u
<1> QED
  BY <1>4, <1>5, <1>6

\* What is left of them after k.
LEMMA LeftOver ==
  ASSUME CallKernels \in Seq(KernelNames), NEW k \in 0..Len(CallKernels)
  PROVE  /\ Left(0) = CallKernels
         /\ k = Len(CallKernels) => Left(k) = <<>>
         /\ k < Len(CallKernels) => /\ Left(k) # <<>>
                                    /\ Head(Left(k)) = CallKernels[k + 1]
                                    /\ Tail(Left(k)) = Left(k + 1)
<1> DEFINE K == CallKernels
           n == Len(K)
<1>1. K \in Seq(KernelNames) /\ n = Len(K) /\ k \in 0..n
  OBVIOUS
<1>2. \A j : Left(j) = SubSeq(K, j + 1, n)
  BY DEF Left
<1> HIDE DEF K, n
<1>3. /\ SubSeq(K, 0 + 1, n) = K
      /\ k = n => SubSeq(K, k + 1, n) = <<>>
      /\ k < n => /\ SubSeq(K, k + 1, n) # <<>>
                  /\ Head(SubSeq(K, k + 1, n)) = K[k + 1]
                  /\ Tail(SubSeq(K, k + 1, n)) = SubSeq(K, (k + 1) + 1, n)
  BY <1>1, RestOf
<1> QED
  BY <1>2, <1>3 DEF K, n

-----------------------------------------------------------------------------
(* Attention: the invariant *)

\* While a call lasts, what it asks for stays.
LEMMA CallStays ==
  ASSUME UNCHANGED <<shape, policy, tokens, past>>
  PROVE  /\ CallKernels' = CallKernels /\ \A k : Left(k)' = Left(k)
         /\ Attention!Attend(shape, policy, tokens)' = Attention!Attend(shape, policy, tokens)
<1>1. CallKernels' = CallKernels
  BY DEF CallKernels
<1> QED
  BY <1>1 DEF Left

\* So what the arrays hold for the call now they hold for it later.
LEMMA DoneNext ==
  ASSUME UNCHANGED <<shape, policy, tokens, past>>, NEW k,
         CacheHolds(rowsKept', IF k < 4 THEN past ELSE past + tokens),
         k >= 1 => GatesIn(buffers'.gate),
         k = 1 => SplitIn(buffers'.query),
         k >= 2 => QueriesIn(buffers'.query),
         k = 3 => KeysIn(buffers'.key),
         k >= 1 /\ CallKernels[k] \in {"logits", "decode_logits"} => LogitsIn(logits'),
         k >= 1 /\ CallKernels[k] = "decode_softmax" => ProbabilitiesIn(logits'),
         k = Len(CallKernels) => OutputIn(output')
  PROVE  Done(k)'
<1>1. CallKernels' = CallKernels
  BY CallStays
<1> DEFINE m == IF k < 4 THEN past ELSE past + tokens
<1>2. /\ Chunk' = Chunk /\ QHeads' = QHeads /\ KHeads' = KHeads /\ Places' = Places /\ m' = m
  BY DEF Chunk, QHeads, KHeads, Places
<1>3. /\ \A t, h : QueryRow(t, h)' = QueryRow(t, h)
      /\ \A t, g : KeyRow(t, g)' = KeyRow(t, g)
      /\ \A t, g, i : KeyPlace(t, g, i)' = KeyPlace(t, g, i)
      /\ \A t, g, i : Attention!CacheIndex(t, g, i)' = Attention!CacheIndex(t, g, i)
      /\ \A t, h, i : Attention!OutputIndex(t, h, i)' = Attention!OutputIndex(t, h, i)
      /\ \A t, h, i : Attention!LogitIndex(t, h, i)' = Attention!LogitIndex(t, h, i)
      /\ \A t, h, i : AttendedAt(t, h, i)' = AttendedAt(t, h, i)
      /\ Attention!Plane' = Attention!Plane
  BY DEF QueryRow, KeyRow, KeyPlace, Attention!CacheIndex, Attention!OutputIndex,
         Attention!LogitIndex, Attention!Context, AttendedAt, Attention!Plane
<1>4. \A t, h, i : LogitOf(t, h, i)' = LogitOf(t, h, i)
  BY <1>3 DEF LogitOf
<1>5. \A t, h, i : ProbabilityOf(t, h, i)' = ProbabilityOf(t, h, i)
  BY <1>4 DEF ProbabilityOf
<1>6. CacheHolds(rowsKept, m)'
  BY <1>2, <1>3 DEF CacheHolds
<1>7. k >= 1 => GatesIn(buffers.gate)'
  BY <1>2, <1>3 DEF GatesIn
<1>8. k = 1 => SplitIn(buffers.query)'
  BY <1>2, <1>3 DEF SplitIn
<1>9. k >= 2 => QueriesIn(buffers.query)'
  BY <1>2, <1>3 DEF QueriesIn
<1>10. k = 3 => KeysIn(buffers.key)'
  BY <1>2, <1>3 DEF KeysIn
<1>11. k >= 1 /\ CallKernels[k] \in {"logits", "decode_logits"} => LogitsIn(logits)'
  BY <1>2, <1>3, <1>4 DEF LogitsIn
<1>12. k >= 1 /\ CallKernels[k] = "decode_softmax" => ProbabilitiesIn(logits)'
  BY <1>2, <1>3, <1>5 DEF ProbabilitiesIn
<1>13. k = Len(CallKernels) => OutputIn(output)'
  BY <1>2, <1>3 DEF OutputIn
<1> QED
  BY <1>1, <1>6, <1>7, <1>8, <1>9, <1>10, <1>11, <1>12, <1>13 DEF Done

\* A kernel makes what the next ones read.
LEMMA KernelRuns ==
  ASSUME AttentionCallOK, AttendInv, Ways(CallKernels), CallKernels \in Seq(KernelNames),
         NEW k \in Nat, k < Len(CallKernels), Done(k),
         Attention!Run(CallKernels[k + 1]), UNCHANGED <<shape, policy, tokens, past>>
  PROVE  /\ DOMAIN buffers' = {"query", "key", "gate"}
         /\ DOMAIN logits' = DOMAIN logits /\ DOMAIN output' = DOMAIN output
         /\ Done(k + 1)'
<1> DEFINE K == CallKernels
           C == past + tokens
<1>1. /\ DOMAIN buffers = {"query", "key", "gate"}
      /\ DOMAIN logits = 0..(Attention!WorkspaceFloats(shape, AttentionTokens, AttentionContext) - 1)
      /\ DOMAIN output = 0..(AttentionTokens * Attention!QuerySize(shape) - 1)
  BY DEF AttendInv
<1>2. /\ K[1] = "split" /\ K[2] = "norm_query" /\ K[3] = "norm_key" /\ K[4] = "append"
      /\ Len(K) \in 5..7
  BY DEF Ways
<1>3. Attention!Run(K[k + 1])
  OBVIOUS
<1>4. CASE k = 0
  <2>1. Attention!Split /\ rowsKept' = rowsKept /\ logits' = logits /\ output' = output
    <3>1. k + 1 = 1
      BY <1>4
    <3> QED BY <1>2, <1>3, <3>1 DEF Attention!Run
  <2>2. /\ DOMAIN buffers' = {"query", "key", "gate"}
        /\ SplitIn(buffers'.query) /\ GatesIn(buffers'.gate)
    BY <1>1, <2>1, SplitFills
  <2>3. CacheHolds(rowsKept, past)
    BY <1>4 DEF Done
  <2>4. Done(1)'
    <3> DEFINE j == 1
    <3>1. CacheHolds(rowsKept', IF j < 4 THEN past ELSE past + tokens)
      BY <2>1, <2>3
    <3>2. K[j] = "split" /\ j # Len(K) /\ ~(j >= 2) /\ j # 3
      BY <1>2
    <3>3. K[j] \notin {"logits", "decode_logits"} /\ K[j] # "decode_softmax"
      BY <3>2
    <3> HIDE DEF j
    <3>4. Done(j)'
      BY <2>2, <3>1, <3>2, <3>3, DoneNext
    <3> QED BY <3>4 DEF j
  <2>5. k + 1 = 1
    BY <1>4
  <2> QED BY <2>1, <2>2, <2>4, <2>5
<1>5. CASE k = 1
  <2>1. /\ buffers' = [buffers EXCEPT !.query = Attention!NormRope(@, shape.queryHeads)]
        /\ rowsKept' = rowsKept /\ logits' = logits /\ output' = output
    <3>1. k + 1 = 2
      BY <1>5
    <3> QED BY <1>2, <1>3, <3>1 DEF Attention!Run
  <2>2. CacheHolds(rowsKept, past) /\ SplitIn(buffers.query) /\ GatesIn(buffers.gate)
    BY <1>5 DEF Done
  <2>3. /\ DOMAIN buffers' = {"query", "key", "gate"} /\ buffers'.gate = buffers.gate
        /\ buffers'.query = Attention!NormRope(buffers.query, shape.queryHeads)
    BY <1>1, <2>1
  <2>4. QueriesIn(buffers'.query) /\ GatesIn(buffers'.gate)
    BY <2>2, <2>3, QueriesTurn
  <2>5. Done(2)'
    <3> DEFINE j == 2
    <3>1. CacheHolds(rowsKept', IF j < 4 THEN past ELSE past + tokens)
      BY <2>1, <2>2
    <3>2. K[j] = "norm_query" /\ j # Len(K) /\ j # 1 /\ j # 3
      BY <1>2
    <3>3. K[j] \notin {"logits", "decode_logits"} /\ K[j] # "decode_softmax"
      BY <3>2
    <3> HIDE DEF j
    <3>4. Done(j)'
      BY <2>4, <3>1, <3>2, <3>3, DoneNext
    <3> QED BY <3>4 DEF j
  <2>6. k + 1 = 2
    BY <1>5
  <2> QED BY <2>1, <2>3, <2>5, <2>6
<1>6. CASE k = 2
  <2>1. /\ buffers' = [buffers EXCEPT !.key = Attention!NormRope(Attention!Packed("key"), shape.kvHeads)]
        /\ rowsKept' = rowsKept /\ logits' = logits /\ output' = output
    <3>1. k + 1 = 3
      BY <1>6
    <3> QED BY <1>2, <1>3, <3>1 DEF Attention!Run
  <2>2. CacheHolds(rowsKept, past) /\ QueriesIn(buffers.query) /\ GatesIn(buffers.gate)
    BY <1>6 DEF Done
  <2>3. /\ DOMAIN buffers' = {"query", "key", "gate"} /\ buffers'.gate = buffers.gate
        /\ buffers'.query = buffers.query
        /\ buffers'.key = Attention!NormRope(Attention!Packed("key"), shape.kvHeads)
    BY <1>1, <2>1
  <2>4. QueriesIn(buffers'.query) /\ GatesIn(buffers'.gate) /\ KeysIn(buffers'.key)
    BY <2>2, <2>3, KeysTurn
  <2>5. Done(3)'
    <3> DEFINE j == 3
    <3>1. CacheHolds(rowsKept', IF j < 4 THEN past ELSE past + tokens)
      BY <2>1, <2>2
    <3>2. K[j] = "norm_key" /\ j # Len(K) /\ j # 1
      BY <1>2
    <3>3. K[j] \notin {"logits", "decode_logits"} /\ K[j] # "decode_softmax"
      BY <3>2
    <3> HIDE DEF j
    <3>4. Done(j)'
      BY <2>4, <3>1, <3>2, <3>3, DoneNext
    <3> QED BY <3>4 DEF j
  <2>6. k + 1 = 3
    BY <1>6
  <2> QED BY <2>1, <2>3, <2>5, <2>6
<1>7. CASE k = 3
  <2>1. Attention!AppendCache /\ buffers' = buffers /\ logits' = logits /\ output' = output
    <3>1. k + 1 = 4
      BY <1>7
    <3> QED BY <1>2, <1>3, <3>1 DEF Attention!Run
  <2>2. /\ CacheHolds(rowsKept, past) /\ QueriesIn(buffers.query) /\ GatesIn(buffers.gate)
        /\ KeysIn(buffers.key)
    BY <1>7 DEF Done
  <2>3. CacheHolds(rowsKept', C)
    BY <2>1, <2>2, AppendHolds
  <2>4. Done(4)'
    <3> DEFINE j == 4
    <3>1. CacheHolds(rowsKept', IF j < 4 THEN past ELSE past + tokens)
      BY <2>3
    <3>2. K[j] = "append" /\ j # Len(K) /\ j # 1 /\ j # 3
      <4> DEFINE n == Len(K)
      <4>1. K[4] = "append" /\ n \in 5..7
        BY <1>2
      <4> HIDE DEF n
      <4>2. 4 # n
        BY ONLY <4>1
      <4> QED BY <4>1, <4>2 DEF n
    <3>3. K[j] \notin {"logits", "decode_logits"} /\ K[j] # "decode_softmax"
      BY <3>2
    <3> HIDE DEF j
    <3>4. Done(j)'
      BY <2>1, <2>2, <3>1, <3>2, <3>3, DoneNext
    <3> QED BY <3>4 DEF j
  <2>5. k + 1 = 4
    BY <1>7
  <2> QED BY <1>1, <2>1, <2>4, <2>5
<1>8. CASE k >= 4
  <2> DEFINE j == k + 1
  <2>1. j \in 5..7 /\ j <= Len(K) /\ ~(j < 4) /\ j # 1 /\ j # 3 /\ k \in 4..6
    BY <1>2, <1>8
  <2>2. CacheHolds(rowsKept, C) /\ QueriesIn(buffers.query) /\ GatesIn(buffers.gate)
    BY <1>8 DEF Done
  <2>3. Attention!Run(K[j])
    BY <1>3
  <2>4. SUFFICES
          ASSUME TRUE
          PROVE  /\ rowsKept' = rowsKept /\ buffers' = buffers
                 /\ DOMAIN logits' = DOMAIN logits /\ DOMAIN output' = DOMAIN output
                 /\ K[j] \in {"logits", "decode_logits"} => LogitsIn(logits')
                 /\ K[j] = "decode_softmax" => ProbabilitiesIn(logits')
                 /\ j = Len(K) => OutputIn(output')
    <3> HIDE DEF j
    <3>1. ASSUME /\ rowsKept' = rowsKept /\ buffers' = buffers
                 /\ K[j] \in {"logits", "decode_logits"} => LogitsIn(logits')
                 /\ K[j] = "decode_softmax" => ProbabilitiesIn(logits')
                 /\ j = Len(K) => OutputIn(output')
          PROVE  Done(j)'
      <4>1. CacheHolds(rowsKept', IF j < 4 THEN past ELSE past + tokens)
        BY <2>1, <2>2, <3>1
      <4> QED BY <2>1, <2>2, <3>1, <4>1, DoneNext
    <3> QED BY <1>1, <3>1 DEF j
  <2>5. CASE K[j] \in {"logits", "decode_logits"}
    <3>1. Attention!Logits /\ buffers' = buffers /\ rowsKept' = rowsKept /\ output' = output
      BY <2>3, <2>5 DEF Attention!Run
    <3>2. LogitsIn(logits') /\ DOMAIN logits' = DOMAIN logits
      BY <1>1, <2>2, <3>1, LogitsFill
    <3>3. j # Len(K) /\ K[j] # "decode_softmax"
      BY <2>1, <2>5 DEF Ways
    <3> QED BY <3>1, <3>2, <3>3
  <2>6. CASE K[j] = "decode_softmax"
    <3>1. Attention!DecodeSoftmax /\ buffers' = buffers /\ rowsKept' = rowsKept /\ output' = output
      BY <2>3, <2>6 DEF Attention!Run
    <3>2. k = 5 /\ tokens = 1 /\ K[5] = "decode_logits" /\ j # Len(K)
      BY <2>1, <2>6 DEF Ways
    <3>3. LogitsIn(logits)
      BY <3>2 DEF Done
    <3>4. ProbabilitiesIn(logits') /\ DOMAIN logits' = DOMAIN logits
      BY <1>1, <3>1, <3>2, <3>3, SoftmaxFills
    <3> QED BY <2>6, <3>1, <3>2, <3>4
  <2>7. CASE K[j] = "decode_output"
    <3>1. Attention!DecodeOutput /\ buffers' = buffers /\ rowsKept' = rowsKept /\ logits' = logits
      BY <2>3, <2>7 DEF Attention!Run
    <3>2. k = 6 /\ tokens = 1 /\ K[6] = "decode_softmax"
      <4>1. j = 5 \/ j = 6 \/ j = 7
        BY <2>1
      <4>2. CASE Len(K) = 7 /\ tokens = 1 /\ K[5] = "decode_logits" /\ K[6] = "decode_softmax"
        <5>1. j # 5 /\ j # 6
          BY <2>7, <4>2
        <5> QED BY <4>1, <4>2, <5>1
      <4>3. CASE Len(K) = 6 /\ K[5] = "logits" /\ K[6] = "output"
        BY <2>1, <2>7, <4>1, <4>3
      <4>4. CASE Len(K) = 5 /\ K[5] \in {"online_decode", "online_model", "online_generic"}
        BY <2>1, <2>7, <4>1, <4>4
      <4> QED BY <4>2, <4>3, <4>4 DEF Ways
    <3>3. ProbabilitiesIn(logits)
      BY <3>2 DEF Done
    <3>4. OutputIn(output') /\ DOMAIN output' = DOMAIN output
      BY <1>1, <2>2, <3>1, <3>2, <3>3, DecodeOutputFills
    <3> QED BY <2>7, <3>1, <3>4
  <2>8. CASE K[j] = "output"
    <3>1. Attention!Output /\ buffers' = buffers /\ rowsKept' = rowsKept
      BY <2>3, <2>8 DEF Attention!Run
    <3>2. k = 5 /\ K[5] = "logits"
      BY <2>1, <2>8 DEF Ways
    <3>3. LogitsIn(logits)
      BY <3>2 DEF Done
    <3>4. OutputIn(output') /\ DOMAIN output' = DOMAIN output /\ DOMAIN logits' = DOMAIN logits
      BY <1>1, <2>2, <3>1, <3>3, OutputFills
    <3> QED BY <2>8, <3>1, <3>4
  <2>9. CASE K[j] \in {"online_model", "online_generic"}
    <3>1. Attention!OnlinePrefill /\ buffers' = buffers /\ rowsKept' = rowsKept /\ logits' = logits
      BY <2>3, <2>9 DEF Attention!Run
    <3>2. shape.headDim <= ModelLayer.headDim
      BY <2>1, <2>9 DEF Ways
    <3>3. OutputIn(output') /\ DOMAIN output' = DOMAIN output
      BY <1>1, <2>2, <3>1, <3>2, PrefillFills
    <3> QED BY <2>9, <3>1, <3>3
  <2>10. CASE K[j] = "online_decode"
    <3>1. Attention!OnlineDecode /\ buffers' = buffers /\ rowsKept' = rowsKept /\ logits' = logits
      BY <2>3, <2>10 DEF Attention!Run
    <3>2. shape.headDim <= ModelLayer.headDim /\ tokens = 1
      BY <2>1, <2>10 DEF Ways
    <3>3. OutputIn(output') /\ DOMAIN output' = DOMAIN output
      BY <1>1, <2>2, <3>1, <3>2, OnlineDecodeFills
    <3> QED BY <2>10, <3>1, <3>3
  <2> QED
    <3>1. K[j] \in {"logits", "decode_logits", "decode_softmax", "decode_output", "output",
                    "online_model", "online_generic", "online_decode"}
      BY <2>1 DEF Ways
    <3> HIDE DEF j
    <3> QED BY <2>5, <2>6, <2>7, <2>8, <2>9, <2>10, <3>1
<1> QED
  <2>1. k = 0 \/ k = 1 \/ k = 2 \/ k = 3 \/ k >= 4
    OBVIOUS
  <2> QED BY <1>4, <1>5, <1>6, <1>7, <1>8, <2>1

\* What a call starts with, and what every end of one leaves.
LEMMA ArraysLeft ==
  ASSUME AttentionCallOK
  PROVE  /\ DOMAIN Attention!Spent(shape).buffers = {"query", "key", "gate"}
         /\ DOMAIN Attention!Spent(shape).logits =
              0..(Attention!WorkspaceFloats(shape, AttentionTokens, AttentionContext) - 1)
         /\ DOMAIN Attention!Spent(shape).output = 0..(AttentionTokens * Attention!QuerySize(shape) - 1)
         /\ CacheHolds(Attention!Zeroed(shape), 0)
<1>1. 0..(0 - 1) = {}
  OBVIOUS
<1>2. DOMAIN Attention!Zeroed(shape) = 0..(2 * AttentionContext * Attention!KvSize(shape) - 1)
  BY DEF Attention!Zeroed, Attention!Range0
<1>3. CacheHolds(Attention!Zeroed(shape), 0)
  BY <1>1, <1>2 DEF CacheHolds
<1> QED
  BY <1>3 DEF Attention!Spent, Attention!Range0

\* Before the first call the cache holds no token.
LEMMA AttendStarts ==
  ASSUME KernelsInit, unit = "attention"
  PROVE  AttendInv
<1>1. AttentionCallOK
  BY GridStarts DEF GridInv
<1>2. Attention!Init
  BY DEF KernelsInit
<1>3. /\ phase = "idle" /\ kernels = <<>> /\ past = 0 /\ rowsKept = Attention!Zeroed(shape)
      /\ buffers = Attention!Spent(shape).buffers /\ logits = Attention!Spent(shape).logits
      /\ output = Attention!Spent(shape).output
  BY <1>2 DEF Attention!Init
<1> QED
  BY <1>1, <1>3, ArraysLeft DEF AttendInv

\* A call has all its kernels before it.
LEMMA CallBegins ==
  AttentionCallOK /\ tokens # 0 /\ Attention!Attend(shape, policy, tokens) # <<>> =>
    Len(CallKernels) \in 5..7 /\ CallKernels = Left(0)
<1> SUFFICES ASSUME AttentionCallOK, tokens # 0, Attention!Attend(shape, policy, tokens) # <<>>
             PROVE  Len(CallKernels) \in 5..7 /\ CallKernels = Left(0)
  OBVIOUS
<1>1. CallKernels \in Seq(KernelNames) /\ Len(CallKernels) \in 5..7
  BY CallIsServed DEF Ways
<1>2. 0 \in 0..Len(CallKernels)
  <2> DEFINE n == Len(CallKernels)
  <2>1. n \in 5..7
    BY <1>1
  <2> HIDE DEF n
  <2>2. 0 \in 0..n
    BY <2>1
  <2> QED BY <2>2 DEF n
<1> QED
  BY <1>1, <1>2, LeftOver

\* The same of the next state.
LEMMA CallBeginsNext ==
  (AttentionCallOK /\ tokens # 0 /\ Attention!Attend(shape, policy, tokens) # <<>> =>
     Len(CallKernels) \in 5..7 /\ CallKernels = Left(0))'
BY CallBegins, PTL

\* A step of the layer keeps it: a kernel, or a call, its end, or a reset.
LEMMA AttendKeeps ==
  ASSUME AttentionCallOK, AttendInv, Attention!Next
  PROVE  AttendInv'
<1>1. AttentionCallOK'
  BY AttentionCallKeeps
<1>2. /\ DOMAIN buffers = {"query", "key", "gate"}
      /\ DOMAIN logits = 0..(Attention!WorkspaceFloats(shape, AttentionTokens, AttentionContext) - 1)
      /\ DOMAIN output = 0..(AttentionTokens * Attention!QuerySize(shape) - 1)
  BY DEF AttendInv
<1>3. ASSUME UNCHANGED <<shape, policy>>, CacheHolds(rowsKept', past')
      PROVE  CacheHolds(rowsKept, past)'
  <2>1. /\ KHeads' = KHeads /\ Places' = Places
        /\ \A t, g : KeyRow(t, g)' = KeyRow(t, g)
        /\ \A t, g, i : Attention!CacheIndex(t, g, i)' = Attention!CacheIndex(t, g, i)
        /\ Attention!Plane' = Attention!Plane
    BY <1>3 DEF KHeads, Places, KeyRow, Attention!CacheIndex, Attention!Plane
  <2> QED BY <1>3, <2>1 DEF CacheHolds
<1>4. CASE Attention!Call
  <2>1. PICK m \in 1..AttentionTokens :
          /\ Attention!Attend(shape, policy, m) # <<>>
          /\ tokens' = m /\ kernels' = Attention!Kernels(shape, policy, m)
    BY <1>4 DEF Attention!Call
  <2>2. /\ phase = "idle" /\ phase' = "busy"
        /\ UNCHANGED <<shape, policy, past, buffers, rowsKept, logits, output>>
    BY <1>4 DEF Attention!Call
  <2>3. (tokens # 0)' /\ (Attention!Attend(shape, policy, tokens) # <<>>)'
    BY <2>1, <2>2
  <2>4. kernels' = CallKernels'
    BY <2>1, <2>2 DEF CallKernels
  <2>5. Len(CallKernels)' \in 5..7 /\ CallKernels' = Left(0)'
    BY <1>1, <2>3, CallBeginsNext
  <2>6. CacheHolds(rowsKept, past)'
    BY <1>3, <2>2 DEF AttendInv
  <2>7. Done(0)'
    <3> DEFINE n == Len(CallKernels)'
               j == 0
    <3>1. n \in 5..7
      BY <2>5
    <3> HIDE DEF n
    <3>2. j # n /\ ~(j >= 1) /\ ~(j >= 2) /\ j # 1 /\ j # 3 /\ j < 4
      BY <3>1
    <3>3. (j = Len(CallKernels))' = FALSE
      BY <3>2 DEF n
    <3> HIDE DEF j
    <3>4. Done(j)'
      BY <2>6, <3>2, <3>3 DEF Done
    <3> QED BY <3>4 DEF j
  <2>8. (\E k \in 0..Len(CallKernels) : kernels = Left(k) /\ Done(k))'
    <3> DEFINE n == Len(CallKernels)'
    <3>1. n \in 5..7
      BY <2>5
    <3> HIDE DEF n
    <3>2. 0 \in 0..n
      BY <3>1
    <3> QED BY <2>4, <2>5, <2>7, <3>2 DEF n
  <2> QED BY <1>2, <2>2, <2>3, <2>8 DEF AttendInv
<1>5. CASE Attention!Launch
  <2>1. /\ phase = "busy" /\ kernels # <<>> /\ Attention!Run(Head(kernels))
        /\ kernels' = Tail(kernels) /\ UNCHANGED <<shape, policy, tokens, past, phase>>
    BY <1>5 DEF Attention!Launch
  <2>2. tokens # 0 /\ Attention!Attend(shape, policy, tokens) # <<>>
    BY <2>1 DEF AttendInv
  <2>3. PICK k \in 0..Len(CallKernels) : kernels = Left(k) /\ Done(k)
    BY <2>1 DEF AttendInv
  <2>4. CallKernels \in Seq(KernelNames) /\ Ways(CallKernels)
    BY <2>2, CallIsServed
  <2> DEFINE n == Len(CallKernels)
  <2>5. n \in Nat
    BY <2>4, LenProperties
  <2>6. k # n
    BY <2>1, <2>3, <2>4, LeftOver
  <2>7. k \in Nat /\ k < n /\ k + 1 \in 0..n
    <3> HIDE DEF n
    <3>1. k \in 0..n
      BY <2>3 DEF n
    <3> QED BY ONLY <2>5, <2>6, <3>1
  <2>8. Head(kernels) = CallKernels[k + 1] /\ Tail(kernels) = Left(k + 1)
    BY <2>3, <2>4, <2>7, LeftOver
  <2>9. /\ DOMAIN buffers' = {"query", "key", "gate"}
        /\ DOMAIN logits' = DOMAIN logits /\ DOMAIN output' = DOMAIN output
        /\ Done(k + 1)'
    <3>1. Attention!Run(CallKernels[k + 1])
      BY <2>1, <2>8
    <3> QED BY <2>1, <2>3, <2>4, <2>7, <3>1, KernelRuns
  <2>10. /\ CallKernels' = CallKernels /\ \A j : Left(j)' = Left(j)
         /\ Attention!Attend(shape, policy, tokens)' = Attention!Attend(shape, policy, tokens)
    BY <2>1, CallStays
  <2>11. (\E j \in 0..Len(CallKernels) : kernels = Left(j) /\ Done(j))'
    <3> DEFINE j == k + 1
    <3>1. j \in 0..Len(CallKernels) /\ kernels' = Left(j) /\ Done(j)'
      BY <2>1, <2>7, <2>8, <2>9
    <3> HIDE DEF j
    <3> QED BY <2>10, <3>1
  <2> QED BY <1>2, <2>1, <2>2, <2>9, <2>10, <2>11 DEF AttendInv
<1>6. CASE Attention!LaunchFails \/ Attention!Return
  <2>1. /\ phase = "busy" /\ UNCHANGED <<shape, policy, rowsKept>>
        /\ buffers' = Attention!Spent(shape).buffers /\ logits' = Attention!Spent(shape).logits
        /\ output' = Attention!Spent(shape).output
    BY <1>6 DEF Attention!LaunchFails, Attention!Return, Attention!Leave
  <2>2. /\ (DOMAIN buffers = {"query", "key", "gate"})'
        /\ (DOMAIN logits = 0..(Attention!WorkspaceFloats(shape, AttentionTokens, AttentionContext) - 1))'
        /\ (DOMAIN output = 0..(AttentionTokens * Attention!QuerySize(shape) - 1))'
    BY <2>1, ArraysLeft
  <2>3. CASE Attention!LaunchFails
    <3>1. phase' = "poisoned" /\ kernels' = <<>>
      BY <2>3 DEF Attention!LaunchFails
    <3> QED BY <2>2, <3>1 DEF AttendInv
  <2>4. CASE Attention!Return
    <3>1. phase' = "idle" /\ kernels = <<>> /\ kernels' = <<>> /\ past' = past + tokens
      BY <2>4 DEF Attention!Return, Attention!Context
    <3>2. tokens # 0 /\ Attention!Attend(shape, policy, tokens) # <<>>
      BY <2>1 DEF AttendInv
    <3>3. PICK k \in 0..Len(CallKernels) : kernels = Left(k) /\ Done(k)
      BY <2>1 DEF AttendInv
    <3>4. CallKernels \in Seq(KernelNames) /\ Len(CallKernels) \in 5..7
      BY <3>2, CallIsServed DEF Ways
    <3>5. k = Len(CallKernels)
      <4> DEFINE n == Len(CallKernels)
      <4>1. ~(k < n)
        BY <3>1, <3>3, <3>4, LeftOver
      <4>2. k \in 0..n /\ n \in 5..7
        BY <3>3, <3>4
      <4> HIDE DEF n
      <4>3. k = n
        BY ONLY <4>1, <4>2
      <4> QED BY <4>3 DEF n
    <3>6. ~(k < 4)
      <4> DEFINE n == Len(CallKernels)
      <4>1. k = n /\ n \in 5..7
        BY <3>4, <3>5
      <4> HIDE DEF n
      <4>2. ~(k < 4)
        BY ONLY <4>1
      <4> QED BY <4>2
    <3>7. CacheHolds(rowsKept, past + tokens)
      BY <3>3, <3>6 DEF Done
    <3>8. CacheHolds(rowsKept, past)'
      BY <1>3, <2>1, <3>1, <3>7
    <3> QED BY <2>2, <3>1, <3>8 DEF AttendInv
  <2> QED BY <1>6, <2>3, <2>4
<1>7. CASE Attention!Reset
  <2>1. /\ phase # "busy" /\ phase' = "idle" /\ past' = 0 /\ rowsKept' = Attention!Zeroed(shape)
        /\ UNCHANGED <<shape, policy, tokens, kernels, buffers, logits, output>>
    BY <1>7 DEF Attention!Reset
  <2>2. CacheHolds(rowsKept, past)'
    <3>1. CacheHolds(rowsKept', past')
      BY <2>1, ArraysLeft
    <3> QED BY <1>3, <2>1, <3>1
  <2>3. kernels' = <<>>
    BY <2>1 DEF AttendInv
  <2> QED BY <1>2, <2>1, <2>2, <2>3 DEF AttendInv
<1> QED
  BY <1>4, <1>5, <1>6, <1>7 DEF Attention!Next

\* A step of another unit, or none, changes nothing here.
LEMMA AttendIdles ==
  ASSUME AttendInv,
         UNCHANGED <<shape, policy, tokens, kernels, phase, past, buffers, rowsKept, logits, output>>
  PROVE  AttendInv'
<1>1. /\ CallKernels' = CallKernels /\ \A k : Left(k)' = Left(k)
      /\ Attention!Attend(shape, policy, tokens)' = Attention!Attend(shape, policy, tokens)
  BY CallStays
<1>2. ASSUME NEW k, Done(k) PROVE Done(k)'
  <2>1. /\ CacheHolds(rowsKept, IF k < 4 THEN past ELSE past + tokens)
        /\ k >= 1 => GatesIn(buffers.gate)
        /\ k = 1 => SplitIn(buffers.query)
        /\ k >= 2 => QueriesIn(buffers.query)
        /\ k = 3 => KeysIn(buffers.key)
        /\ k >= 1 /\ CallKernels[k] \in {"logits", "decode_logits"} => LogitsIn(logits)
        /\ k >= 1 /\ CallKernels[k] = "decode_softmax" => ProbabilitiesIn(logits)
        /\ k = Len(CallKernels) => OutputIn(output)
    BY <1>2 DEF Done
  <2> QED BY <2>1, DoneNext
<1>3. ASSUME CacheHolds(rowsKept, past) PROVE CacheHolds(rowsKept, past)'
  <2>1. /\ KHeads' = KHeads /\ Places' = Places
        /\ \A t, g : KeyRow(t, g)' = KeyRow(t, g)
        /\ \A t, g, i : Attention!CacheIndex(t, g, i)' = Attention!CacheIndex(t, g, i)
        /\ Attention!Plane' = Attention!Plane
    BY DEF KHeads, Places, KeyRow, Attention!CacheIndex, Attention!Plane
  <2> QED BY <1>3, <2>1 DEF CacheHolds
<1>4. phase = "busy" => (\E k \in 0..Len(CallKernels) : kernels = Left(k) /\ Done(k))'
  BY <1>1, <1>2 DEF AttendInv
<1> QED
  BY <1>1, <1>3, <1>4 DEF AttendInv

\* A finished call has in its output what the reference makes.
LEMMA FinishedMatches ==
  ASSUME AttentionCallOK, AttendInv
  PROVE  Attention!MatchesReference
<1> SUFFICES ASSUME phase = "busy", kernels = <<>>,
                    NEW t \in Chunk, NEW j \in 0..(Attention!QuerySize(shape) - 1)
             PROVE  output[t * Attention!QuerySize(shape) + j] = Attention!Attended(shape, past + t)[j]
  BY DEF Attention!MatchesReference, Attention!Range0, Chunk
<1>1. tokens # 0 /\ Attention!Attend(shape, policy, tokens) # <<>>
  BY DEF AttendInv
<1>2. PICK k \in 0..Len(CallKernels) : kernels = Left(k) /\ Done(k)
  BY DEF AttendInv
<1>3. CallKernels \in Seq(KernelNames) /\ Len(CallKernels) \in 5..7
  BY <1>1, CallIsServed DEF Ways
<1>4. k = Len(CallKernels)
  <2> DEFINE n == Len(CallKernels)
  <2>1. ~(k < n)
    BY <1>2, <1>3, LeftOver
  <2>2. k \in 0..n /\ n \in 5..7
    BY <1>2, <1>3
  <2> HIDE DEF n
  <2>3. k = n
    BY ONLY <2>1, <2>2
  <2> QED BY <2>3 DEF n
<1>5. OutputIn(output)
  BY <1>2, <1>4 DEF Done
<1> DEFINE h == j \div shape.headDim
           i == j % shape.headDim
<1>6. h \in QHeads /\ i \in Places /\ j = h * shape.headDim + i
  <2>1. /\ shape.queryHeads \in Nat /\ shape.headDim \in Nat \ {0}
        /\ Attention!QuerySize(shape) = shape.queryHeads * shape.headDim
        /\ Attention!QuerySize(shape) \in Nat
    BY CallNumbers
  <2> DEFINE sz == Attention!QuerySize(shape)
  <2>2. j \in 0..(sz - 1) /\ sz \in Nat
    BY <2>1
  <2> HIDE DEF sz
  <2>3. j \in Nat /\ j < sz
    BY <2>2
  <2>4. j < shape.queryHeads * shape.headDim
    BY <2>1, <2>3 DEF sz
  <2> QED BY <2>1, <2>3, <2>4, DigitsOf DEF QHeads, Places
<1> HIDE DEF h, i
<1>7. Attention!OutputIndex(t, h, i) = t * Attention!QuerySize(shape) + j
  BY <1>6, OutputPlace
<1> QED
  BY <1>5, <1>6, <1>7 DEF OutputIn, AttendedAt

\* However a sequence is cut into chunks, whichever of the kernels serve each and
\* whichever layout the cache has, for every shape, context and tiling: a call
\* leaves in the output what the reference makes of the whole sequence.
THEOREM AttentionIsTheReference == KernelsSpec => []AttentionMatchesReference
<1> DEFINE I == GridInv /\ (unit = "attention" => AttendInv)
<1>1. KernelsInit => I
  BY GridStarts, AttendStarts
<1>2. I /\ [KernelsNext]_kernelsVars => I'
  <2> SUFFICES ASSUME I, [KernelsNext]_kernelsVars PROVE I'
    OBVIOUS
  <2>1. GridInv'
    BY GridKeeps
  <2>2. CASE UNCHANGED kernelsVars
    <3>1. UNCHANGED <<unit, shape, policy, tokens, kernels, phase, past, buffers, rowsKept, logits, output>>
      BY <2>2 DEF kernelsVars, layersOnly
    <3>2. ASSUME unit = "attention" PROVE AttendInv'
      <4>1. AttendInv
        BY <3>2
      <4> QED BY <3>1, <4>1, AttendIdles
    <3> QED BY <2>1, <3>1, <3>2
  <2>3. CASE KernelsNext
    <3>1. unit' = unit
      BY <2>3 DEF KernelsNext
    <3>2. ASSUME unit = "attention" PROVE AttendInv'
      <4>1. Attention!Next
        BY <2>3, <3>2 DEF KernelsNext
      <4> QED BY <3>2, <4>1, AttendKeeps DEF GridInv
    <3> QED BY <2>1, <3>1, <3>2
  <2> QED BY <2>2, <2>3
<1>3. I => AttentionMatchesReference
  BY FinishedMatches DEF GridInv, AttentionMatchesReference
<1> HIDE DEF I
<1> QED
  BY <1>1, <1>2, <1>3, PTL DEF KernelsSpec

-----------------------------------------------------------------------------
(* The sum of a warp *)

\* Twice the subsets with one more element: those without it and those with it.
LEMMA PowersDouble ==
  ASSUME NEW n \in Nat
  PROVE  2^n \in Nat \ {0} /\ 2^(n + 1) = 2 * 2^n
<1> DEFINE A == SUBSET (1..n)
           B == {x \cup {n + 1} : x \in A}
           C == SUBSET (1..(n + 1))
           f == [x \in A |-> x \cup {n + 1}]
<1>1. IsFiniteSet(1..n) /\ Cardinality(1..n) = n
  <2>1. IsFiniteSet(1..n) /\ Cardinality(1..n) = IF 1 > n THEN 0 ELSE n - 1 + 1
    BY FS_Interval
  <2> QED BY <2>1
<1>2. IsFiniteSet(1..(n + 1)) /\ Cardinality(1..(n + 1)) = n + 1
  <2>1. /\ IsFiniteSet(1..(n + 1))
        /\ Cardinality(1..(n + 1)) = IF 1 > n + 1 THEN 0 ELSE (n + 1) - 1 + 1
    <3>1. 1 \in Int /\ n + 1 \in Int
      OBVIOUS
    <3> QED BY ONLY <3>1, FS_Interval
  <2> QED BY <2>1
<1>3. IsFiniteSet(A) /\ Cardinality(A) = 2^n
  BY <1>1, FS_SUBSET
<1>4. IsFiniteSet(C) /\ Cardinality(C) = 2^(n + 1)
  BY <1>2, FS_SUBSET
<1>5. C = A \cup B
  <2>1. ASSUME NEW x \in C PROVE x \in A \cup B
    <3>1. CASE n + 1 \in x
      <4>1. x \ {n + 1} \in A /\ x = (x \ {n + 1}) \cup {n + 1}
        BY <3>1
      <4> QED BY <4>1
    <3>2. CASE n + 1 \notin x
      BY <3>2
    <3> QED BY <3>1, <3>2
  <2>2. ASSUME NEW x \in A \cup B PROVE x \in C
    OBVIOUS
  <2> QED BY <2>1, <2>2
<1>6. A \cap B = {}
  <2>1. \A x \in A : n + 1 \notin x
    OBVIOUS
  <2>2. \A x \in B : n + 1 \in x
    OBVIOUS
  <2> QED BY <2>1, <2>2
<1>7. IsFiniteSet(B) /\ Cardinality(B) = Cardinality(A)
  <2>1. f \in [A -> B] /\ \A y \in B : \E x \in A : f[x] = y
    OBVIOUS
  <2>2. \A x, y \in A : f[x] = f[y] => x = y
    <3> SUFFICES ASSUME NEW x \in A, NEW y \in A, f[x] = f[y] PROVE x = y
      OBVIOUS
    <3>1. n + 1 \notin x /\ n + 1 \notin y /\ x \cup {n + 1} = y \cup {n + 1}
      OBVIOUS
    <3> HIDE DEF f, A
    <3> QED BY <3>1
  <2> HIDE DEF A, B, f
  <2>3. f \in Bijection(A, B)
    BY <2>1, <2>2 DEF Bijection, Injection, Surjection, IsInjective
  <2>4. ExistsBijection(A, B)
    BY <2>3 DEF ExistsBijection
  <2> QED BY <1>3, <2>4, FS_Bijection
<1>8. 2^n \in Nat \ {0}
  <2>1. Cardinality(A) \in Nat
    BY <1>3, FS_CardinalityType
  <2>2. {} \in A
    OBVIOUS
  <2>3. Cardinality(A) # 0
    BY <1>3, <2>2, FS_EmptySet
  <2> QED BY <1>3, <2>1, <2>3
<1> HIDE DEF A, B, C
<1>9. Cardinality(A \cup B) = Cardinality(A) + Cardinality(B) - Cardinality({})
  BY <1>3, <1>6, <1>7, FS_Union
<1>10. Cardinality({}) = 0
  BY FS_EmptySet
<1> QED
  BY <1>3, <1>4, <1>5, <1>7, <1>8, <1>9, <1>10

\* Where a number falls that is dealt to m places.
Dealt(i, m) == i % m

\* Who is dealt the same of twice as many places is dealt the same of half of them.
LEMMA PlacesDouble ==
  ASSUME NEW i \in Nat, NEW m \in Nat \ {0}, NEW l \in 0..(m - 1)
  PROVE  Dealt(i, m) = l <=> (Dealt(i, 2 * m) = l \/ Dealt(i, 2 * m) = l + m)
<1> DEFINE q == i \div (2 * m)
           r == i % (2 * m)
<1>1. q \in Nat /\ r \in 0..(2 * m - 1) /\ i = (2 * m) * q + r
  <2>1. 2 * m \in Nat \ {0}
    OBVIOUS
  <2> QED BY <2>1, Division
<1>0. Dealt(i, 2 * m) = r
  BY DEF Dealt
<1> HIDE DEF q, r
<1>2. CASE r < m
  <2>1. (2 * m) * q = (2 * q) * m
    BY <1>1, SMT
  <2>2. r \in 0..(m - 1) /\ 2 * q \in Nat
    BY <1>1, <1>2
  <2>3. ((2 * q) * m + r) % m = r
    BY <2>2, DivisionUnique
  <2>4. Dealt(i, m) = r
    BY <1>1, <2>1, <2>3 DEF Dealt
  <2> QED BY <1>0, <1>1, <1>2, <2>4
<1>3. CASE r >= m
  <2>1. (2 * m) * q + r = (2 * q + 1) * m + (r - m)
    BY <1>1, SMT
  <2>2. r - m \in 0..(m - 1) /\ 2 * q + 1 \in Nat
    BY <1>1, <1>3
  <2>3. ((2 * q + 1) * m + (r - m)) % m = r - m
    BY <2>2, DivisionUnique
  <2>4. Dealt(i, m) = r - m /\ r \in Int
    BY <1>1, <2>1, <2>3 DEF Dealt
  <2> QED BY <1>0, <1>1, <1>3, <2>4
<1> QED
  BY <1>1, <1>2, <1>3

\* Bags of different things are added like sets.
LEMMA BagsAdd ==
  ASSUME NEW A, NEW B, A \cap B = {}
  PROVE  Delta!(+)(Delta!SetToBag(A), Delta!SetToBag(B)) = Delta!SetToBag(A \cup B)
BY DEF Delta!(+), Delta!SetToBag

\* The things at places that leave l, of numbers taken by m.
Leaving(terms, m, l) == Delta!SetToBag({terms[k] : k \in {i \in DOMAIN terms : Dealt(i, m) = l}})

\* Lane 0 has the sum of all terms: in a round, the lanes that count have what
\* they and those as many places up had.
LEMMA WarpSumIsAll ==
  ASSUME NEW n \in Nat, NEW terms, DOMAIN terms = 0..(n - 1),
         \A i, k \in 0..(n - 1) : terms[i] = terms[k] => i = k
  PROVE  Delta!WarpSum(terms) = Delta!SetToBag({terms[k] : k \in 0..(n - 1)})
<1> DEFINE W == WarpBits
           lanes == 0..(2^W - 1)
           Up(r, l) == IF l + 2^r \in lanes THEN l + 2^r ELSE l
           First == [l \in lanes |-> Leaving(terms, 2^W, l)]
           Round(s, r) == IF r = W THEN First
                          ELSE [l \in lanes |-> Delta!(+)(s[r + 1][l], s[r + 1][Up(r, l)])]
           sum == CHOOSE s : s = [r \in 0..W |-> Round(s, r)]
<1>1. W \in Nat
  BY KernelAssumption DEF Delta!WarpAssumption
<1>2. Delta!WarpSum(terms) = sum[0][0]
  BY DEF Delta!WarpSum, Delta!Rounds, Leaving, Dealt
<1>3. \A r \in Nat : 2^r \in Nat \ {0} /\ 2^(r + 1) = 2 * 2^r
  BY PowersDouble
<1> HIDE DEF W, First, Up, lanes
<1>4. \E s : s = [r \in 0..W |-> Round(s, r)]
  <2> DEFINE P == {m \in 0..W : \E s : s = [r \in (W - m)..W |-> Round(s, r)]}
  <2>1. 0 \in P
    <3> DEFINE s == [r \in (W - 0)..W |-> First]
    <3>1. s = [r \in (W - 0)..W |-> Round(s, r)]
      <4>1. \A r \in (W - 0)..W : r = W
        BY <1>1
      <4> QED BY <4>1
    <3> HIDE DEF s
    <3> QED BY <1>1, <3>1
  <2>2. ASSUME NEW m \in 1..W, m - 1 \in P PROVE m \in P
    <3>1. PICK s : s = [r \in (W - (m - 1))..W |-> Round(s, r)]
      BY <2>2
    <3> DEFINE new == [l \in lanes |-> Delta!(+)(s[(W - m) + 1][l], s[(W - m) + 1][Up(W - m, l)])]
               t == [r \in (W - m)..W |-> IF r = W - m THEN new ELSE s[r]]
    <3>2. t = [r \in (W - m)..W |-> Round(t, r)]
      <4>1. ASSUME NEW r \in (W - m)..W PROVE t[r] = Round(t, r)
        <5>1. CASE r = W - m
          <6>1. r # W /\ r + 1 \in (W - m)..W /\ r + 1 # W - m
            BY <1>1, <5>1
          <6>2. t[r + 1] = s[r + 1]
            BY <6>1
          <6>3. t[r] = new
            BY <5>1
          <6> HIDE DEF t
          <6> QED BY <5>1, <6>1, <6>2, <6>3
        <5>2. CASE r # W - m
          <6>1. r \in (W - (m - 1))..W /\ t[r] = s[r]
            BY <1>1, <5>2
          <6>2. s[r] = Round(s, r)
            <7> HIDE DEF Round
            <7> QED BY <3>1, <6>1
          <6>3. CASE r = W
            BY <6>1, <6>2, <6>3
          <6>4. CASE r # W
            <7>1. r + 1 \in (W - m)..W /\ r + 1 # W - m
              BY <1>1, <5>2, <6>4
            <7>2. t[r + 1] = s[r + 1]
              BY <7>1
            <7> HIDE DEF t
            <7> QED BY <6>1, <6>2, <6>4, <7>2
          <6> QED BY <6>3, <6>4
        <5> QED BY <5>1, <5>2
      <4>2. DOMAIN t = (W - m)..W /\ t = [r \in (W - m)..W |-> t[r]]
        OBVIOUS
      <4> HIDE DEF t, Round
      <4> QED BY <4>1, <4>2
    <3>3. m \in 0..W
      OBVIOUS
    <3> HIDE DEF t, Round
    <3> QED BY <3>2, <3>3
  <2>3. W \in P
    <3> HIDE DEF P
    <3>1. \A m \in 0..W : m \in P
      BY ONLY <1>1, <2>1, <2>2, BoundedInduction
    <3> QED BY <1>1, <3>1
  <2>4. W - W = 0
    BY <1>1
  <2> HIDE DEF Round
  <2> QED BY <2>3, <2>4
<1>5. sum = [r \in 0..W |-> Round(sum, r)]
  <2> HIDE DEF Round
  <2> QED BY <1>4
<1> HIDE DEF sum
<1> DEFINE T == {r \in 0..W : /\ 2^r <= 2^W
                              /\ \A l \in 0..(2^r - 1) : sum[r][l] = Leaving(terms, 2^r, l)}
<1>6. W \in T
  <2>1. sum[W] = First /\ W \in 0..W
    BY <1>1, <1>5
  <2> QED BY <1>1, <1>3, <2>1 DEF First, lanes
<1>7. ASSUME NEW r \in Nat, r + 1 \in T PROVE r \in T
  <2>1. r \in 0..W /\ r # W
    BY <1>1, <1>7
  <2>2. PICK m \in Nat \ {0}, d \in Nat : m = 2^r /\ d = 2^(r + 1) /\ d = 2 * m
    <3>1. 2 * 2^r \in Nat
      BY <1>3
    <3> QED BY <1>3, <3>1
  <2>3. PICK L \in Nat : L = 2^W
    BY <1>1, <1>3
  <2>4. d <= L
    BY <1>7, <2>2, <2>3
  <2>5. ASSUME NEW l \in 0..(m - 1) PROVE sum[r][l] = Leaving(terms, m, l)
    <3>1. l \in lanes /\ Up(r, l) = l + m /\ l + m \in 0..(d - 1) /\ l \in 0..(d - 1)
      BY <2>2, <2>3, <2>4 DEF lanes, Up
    <3>2. sum[r][l] = Delta!(+)(sum[r + 1][l], sum[r + 1][l + m])
      <4>1. sum[r] = Round(sum, r)
        <5> HIDE DEF Round
        <5> QED BY <1>5, <2>1
      <4> QED BY <2>1, <3>1, <4>1
    <3>3. sum[r + 1][l] = Leaving(terms, d, l) /\ sum[r + 1][l + m] = Leaving(terms, d, l + m)
      BY <1>7, <2>2, <3>1
    <3> DEFINE A == {terms[k] : k \in {i \in DOMAIN terms : Dealt(i, d) = l}}
               B == {terms[k] : k \in {i \in DOMAIN terms : Dealt(i, d) = l + m}}
               C == {terms[k] : k \in {i \in DOMAIN terms : Dealt(i, m) = l}}
    <3>4. \A i \in DOMAIN terms : Dealt(i, m) = l <=> (Dealt(i, d) = l \/ Dealt(i, d) = l + m)
      <4> SUFFICES ASSUME NEW i \in DOMAIN terms
                   PROVE  Dealt(i, m) = l <=> (Dealt(i, d) = l \/ Dealt(i, d) = l + m)
        OBVIOUS
      <4>1. i \in Nat
        OBVIOUS
      <4>2. Dealt(i, m) = l <=> (Dealt(i, 2 * m) = l \/ Dealt(i, 2 * m) = l + m)
        BY <4>1, PlacesDouble
      <4> QED BY <2>2, <4>2
    <3>5. C = A \cup B
      BY <3>4
    <3>6. A \cap B = {}
      <4> SUFFICES ASSUME NEW i \in 0..(n - 1), NEW k \in 0..(n - 1), terms[i] = terms[k],
                          Dealt(i, d) = l, Dealt(k, d) = l + m
                   PROVE  FALSE
        OBVIOUS
      <4>1. i = k
        OBVIOUS
      <4> QED BY <4>1
    <3> HIDE DEF A, B, C
    <3>7. Delta!(+)(Delta!SetToBag(A), Delta!SetToBag(B)) = Delta!SetToBag(C)
      BY <3>5, <3>6, BagsAdd
    <3> QED BY <3>2, <3>3, <3>7 DEF Leaving, A, B, C
  <2> HIDE DEF sum
  <2>6. 2^r <= 2^W
    BY <2>2, <2>3, <2>4
  <2> QED BY <2>1, <2>2, <2>5, <2>6
<1>8. 0 \in T
  <2>1. T \in SUBSET Nat
    BY <1>1
  <2> HIDE DEF T
  <2> QED BY <1>6, <1>7, <2>1, DownTo
<1>9. 2^0 = 1
  BY SMT
<1>10. sum[0][0] = Leaving(terms, 1, 0)
  BY <1>8, <1>9
<1>11. {i \in DOMAIN terms : Dealt(i, 1) = 0} = 0..(n - 1)
  BY DEF Dealt
<1> QED
  BY <1>2, <1>10, <1>11 DEF Leaving

\* All terms, once each.
AllOf(terms) == Delta!SetToBag({terms[k] : k \in DOMAIN terms})

\* Whatever kernel adds them.
LEMMA SumIsAll ==
  ASSUME NEW k_, NEW n \in Nat, NEW terms, DOMAIN terms = 0..(n - 1),
         \A i, k \in 0..(n - 1) : terms[i] = terms[k] => i = k
  PROVE  Delta!SumOf(k_, terms) = AllOf(terms)
BY WarpSumIsAll DEF Delta!SumOf, AllOf

-----------------------------------------------------------------------------
(* The reference, token by token *)

\* A run of the reference over n tokens.
StepOf(a, run, first, j) == Delta!DeltaStep(a, run[j - 1].state, first + j - 1)
Runs(a, from, first, n, run) ==
  run = [j \in 0..n |->
          IF j = 0 THEN [state |-> from, outputs |-> <<>>]
          ELSE [state |-> StepOf(a, run, first, j).state,
                outputs |-> Append(run[j - 1].outputs, StepOf(a, run, first, j).output)]]

\* There is one for every number of tokens,
LEMMA RunExists ==
  ASSUME NEW a, NEW from, NEW first, NEW n \in Nat
  PROVE  \E run : Runs(a, from, first, n, run)
<1> DEFINE T == {m \in Nat : \E run : Runs(a, from, first, m, run)}
           start == [state |-> from, outputs |-> <<>>]
           Next_(run, j) ==
             [state |-> StepOf(a, run, first, j).state,
              outputs |-> Append(run[j - 1].outputs, StepOf(a, run, first, j).output)]
<1>1. 0 \in T
  <2> DEFINE run == [j \in 0..0 |-> start]
  <2>1. run = [j \in 0..0 |-> IF j = 0 THEN start ELSE Next_(run, j)]
    <3> HIDE DEF start, Next_
    <3> QED OBVIOUS
  <2> HIDE DEF run
  <2>2. Runs(a, from, first, 0, run)
    BY <2>1 DEF Runs
  <2> QED BY <2>2
<1>2. ASSUME NEW m \in T PROVE m + 1 \in T
  <2>1. PICK run : Runs(a, from, first, m, run)
    OBVIOUS
  <2> DEFINE last == Next_(run, m + 1)
             new == [j \in 0..(m + 1) |-> IF j = m + 1 THEN last ELSE run[j]]
  <2>2. run = [j \in 0..m |-> IF j = 0 THEN start ELSE Next_(run, j)]
    BY <2>1 DEF Runs
  <2>3. \A j \in 1..(m + 1) : new[j - 1] = run[j - 1]
    OBVIOUS
  <2>4. ASSUME NEW j \in 1..(m + 1) PROVE Next_(new, j) = Next_(run, j)
    <3>1. new[j - 1] = run[j - 1]
      BY <2>3
    <3> HIDE DEF new
    <3> QED BY <3>1 DEF StepOf
  <2>5. ASSUME NEW j \in 0..(m + 1) PROVE new[j] = IF j = 0 THEN start ELSE Next_(new, j)
    <3>1. CASE j = m + 1
      <4>1. j \in 1..(m + 1) /\ j # 0
        BY <3>1
      <4>2. new[j] = last
        BY <3>1
      <4>3. Next_(new, j) = Next_(run, j)
        BY <2>4, <4>1
      <4> HIDE DEF new, start, Next_
      <4> QED BY <3>1, <4>1, <4>2, <4>3
    <3>2. CASE j # m + 1
      <4>1. j \in 0..m /\ new[j] = run[j]
        BY <3>2
      <4>2. j # 0 => Next_(new, j) = Next_(run, j)
        <5>1. j # 0 => j \in 1..(m + 1)
          OBVIOUS
        <5> HIDE DEF new, Next_
        <5> QED BY <2>4, <5>1
      <4> HIDE DEF new, start, Next_
      <4> QED BY <2>2, <4>1, <4>2
    <3> QED BY <3>1, <3>2
  <2>6. new = [j \in 0..(m + 1) |-> new[j]]
    OBVIOUS
  <2> HIDE DEF new, start, Next_
  <2>7. new = [j \in 0..(m + 1) |-> IF j = 0 THEN start ELSE Next_(new, j)]
    BY <2>5, <2>6
  <2>8. Runs(a, from, first, m + 1, new)
    BY <2>7 DEF Runs, start, Next_
  <2> QED BY <2>8
<1> HIDE DEF T
<1>3. T = Nat
  <2>1. T \in SUBSET Nat
    BY DEF T
  <2> QED BY <1>1, <1>2, <2>1, UpFrom
<1> QED
  BY <1>3 DEF T

\* and a longer one starts like a shorter one.
LEMMA RunIsOne ==
  ASSUME NEW a, NEW from, NEW first, NEW n \in Nat, NEW run, Runs(a, from, first, n, run),
         NEW m \in 0..n, NEW other, Runs(a, from, first, m, other)
  PROVE  run[m] = other[m]
<1> DEFINE P == {j \in 0..m : run[j] = other[j]}
           start == [state |-> from, outputs |-> <<>>]
           Next_(r, j) ==
             [state |-> StepOf(a, r, first, j).state,
              outputs |-> Append(r[j - 1].outputs, StepOf(a, r, first, j).output)]
<1>1. /\ run = [j \in 0..n |-> IF j = 0 THEN start ELSE Next_(run, j)]
      /\ other = [j \in 0..m |-> IF j = 0 THEN start ELSE Next_(other, j)]
  BY DEF Runs
<1>2. \A j \in 0..m : j \in 0..n
  OBVIOUS
<1>3. 0 \in P
  <2> HIDE DEF start, Next_
  <2> QED BY <1>1, <1>2
<1>4. ASSUME NEW j \in 1..m, j - 1 \in P PROVE j \in P
  <2>1. run[j - 1] = other[j - 1]
    BY <1>4
  <2>2. Next_(run, j) = Next_(other, j)
    BY <2>1 DEF StepOf
  <2>3. j \in 0..m /\ j \in 0..n /\ j # 0
    OBVIOUS
  <2> HIDE DEF start, Next_
  <2> QED BY <1>1, <2>2, <2>3
<1>5. m \in P
  <2> HIDE DEF P
  <2>1. \A j \in 0..m : j \in P
    BY ONLY <1>3, <1>4, m \in 0..n, n \in Nat, BoundedInduction
  <2> QED BY <2>1
<1> QED
  BY <1>5

\* No tokens change nothing; one more is one step more.
GoesOn(a, from, first, n) ==
  LET before == Delta!Prefill(a, from, first, n)
      step == Delta!DeltaStep(a, before.state, first + n)
  IN /\ Delta!Prefill(a, from, first, 0) = [state |-> from, outputs |-> <<>>]
     /\ Delta!Prefill(a, from, first, n + 1) =
          [state |-> step.state, outputs |-> Append(before.outputs, step.output)]

\* The reference goes on from where it is.
LEMMA PrefillSteps ==
  ASSUME NEW a, NEW from, NEW first \in Nat, NEW n \in Nat
  PROVE  GoesOn(a, from, first, n)
<1> DEFINE Of(m) == CHOOSE run : Runs(a, from, first, m, run)
           start == [state |-> from, outputs |-> <<>>]
           Next_(r, j) ==
             [state |-> StepOf(a, r, first, j).state,
              outputs |-> Append(r[j - 1].outputs, StepOf(a, r, first, j).output)]
<1>1. \A m : Delta!Prefill(a, from, first, m) = Of(m)[m]
  BY DEF Delta!Prefill, Runs, StepOf
<1>2. \A m \in Nat : Runs(a, from, first, m, Of(m))
  BY RunExists
<1> HIDE DEF Of
<1>3. \A m \in Nat : Of(m) = [j \in 0..m |-> IF j = 0 THEN start ELSE Next_(Of(m), j)]
  BY <1>2 DEF Runs
<1>4. Of(0)[0] = start
  <2> HIDE DEF start, Next_
  <2>1. 0 \in Nat /\ 0 \in 0..0
    OBVIOUS
  <2> QED BY <1>3, <2>1
<1>5. Of(n + 1)[n + 1] = Next_(Of(n + 1), n + 1)
  <2>1. n + 1 \in Nat /\ n + 1 \in 0..(n + 1) /\ n + 1 # 0
    OBVIOUS
  <2> HIDE DEF start, Next_
  <2> QED BY <1>3, <2>1
<1>6. Of(n + 1)[n] = Of(n)[n]
  <2>1. n + 1 \in Nat /\ n \in 0..(n + 1)
    OBVIOUS
  <2> QED BY <1>2, <2>1, RunIsOne
<1>7. (n + 1) - 1 = n /\ first + (n + 1) - 1 = first + n
  OBVIOUS
<1> QED
  BY <1>1, <1>4, <1>5, <1>6, <1>7 DEF StepOf, GoesOn

-----------------------------------------------------------------------------
(* Delta: what the arrays hold *)

Channels == 0..(Delta!ConvDim(shape) - 1)
Remembers == 0..(shape.width - 2)
DHeads == 0..(shape.valueHeads - 1)
DKeys == 0..(shape.keyDim - 1)
DValues == 0..(shape.valueDim - 1)

\* A state, of the convolution and of the recurrence.
StateOver(s) ==
  /\ s = [convolution |-> s.convolution, recurrent |-> s.recurrent]
  /\ s.convolution = [i \in 0..(Delta!ConvDim(shape) * (shape.width - 1) - 1) |-> s.convolution[i]]
  /\ s.recurrent = [i \in 0..(Delta!ValueSize(shape) * shape.keyDim - 1) |-> s.recurrent[i]]

\* The reference after j tokens of the chunk, and what it makes on the way.
After(from, j) == Delta!Prefill(shape, from, fed + 1, j)
CellsOf(from, j) == Delta!Convolved(shape, After(from, j).state, fed + 1 + j)
UpdatedOf(from, j) ==
  Delta!Updated(shape, After(from, j).state, CellsOf(from, j), fed + 1 + j)
RawAt(from, j, head, v) ==
  Delta!RawOf(shape, UpdatedOf(from, j), CellsOf(from, j), head, v)
MadeOf(from, j) == Delta!Outputs(shape, UpdatedOf(from, j), CellsOf(from, j), fed + 1 + j)

\* Convolved tokens; the same with queries and keys normalized; raw outputs.
ConvolvedIn(array_, from) ==
  \A j \in Chunk, c \in Channels : array_[Delta!Conv(shape, j, c)] = CellsOf(from, j)[c]
NormalizedIn(array_, from) ==
  \A j \in Chunk, head \in DHeads :
    /\ \A k \in DKeys :
         /\ array_[Delta!QueryCell(shape, j, head, k)] = Delta!Query(shape, CellsOf(from, j), head, k)
         /\ array_[Delta!KeyCell(shape, j, head, k)] = Delta!Key(shape, CellsOf(from, j), head, k)
    /\ \A v \in DValues :
         array_[Delta!ValueCell(shape, j, head, v)] = Delta!Value(shape, CellsOf(from, j), head, v)
RawIn(array_, from) ==
  \A j \in Chunk, head \in DHeads, v \in DValues :
    array_[Delta!RawCell(shape, tokens, j, head, v)] = RawAt(from, j, head, v)
MadeIn(array_, from) ==
  \A j \in Chunk : \A i \in 0..(shape.hidden - 1) :
    array_[j * shape.hidden + i] = MadeOf(from, j)[i]

\* The kernels of the call, and those left after k of them.
DeltaKernels == Delta!Kernels(policy, shape)
DeltaLeft(k) == SubSeq(DeltaKernels, k + 1, 4)

\* What k kernels have made of the state a chunk starts from.
DeltaDone(from, k) ==
  /\ state.convolution = (IF k = 0 THEN from ELSE After(from, tokens).state).convolution
  /\ state.recurrent = (IF k < 3 THEN from ELSE After(from, tokens).state).recurrent
  /\ k = 1 => ConvolvedIn(work, from)
  /\ k = 2 => NormalizedIn(work, from)
  /\ k = 3 => RawIn(work, from)
  /\ k = 4 => MadeIn(output, from)

\* The invariant: in a call, whatever k kernels have made is there.
DeltaInv ==
  /\ fed \in Nat
  /\ DOMAIN work = 0..(DeltaTokens * (Delta!ConvDim(shape) + shape.hidden) - 1)
  /\ DOMAIN output = 0..(DeltaTokens * shape.hidden - 1)
  /\ StateOver(state)
  /\ phase = "idle" => Delta!MatchesReference
  /\ phase = "busy" =>
       /\ tokens # 0 /\ tokens <= DeltaTokens /\ Delta!Allowed(policy, shape, tokens)
       /\ \E from : /\ StateOver(from) /\ promised = After(from, tokens)
                    /\ \E k \in 0..4 : kernels = DeltaLeft(k) /\ DeltaDone(from, k)

-----------------------------------------------------------------------------
(* Delta: the reference *)

\* What is known of the numbers of a call.
LEMMA DeltaNumbers ==
  ASSUME DeltaCallOK
  PROVE  /\ shape.hidden \in Nat \ {0} /\ shape.keyHeads \in Nat \ {0} /\ shape.valueHeads \in Nat \ {0}
         /\ shape.keyDim \in Nat \ {0} /\ shape.valueDim \in Nat \ {0} /\ shape.width \in Nat \ {0}
         /\ Delta!KeySize(shape) \in Nat /\ Delta!ValueSize(shape) \in Nat \ {0}
         /\ Delta!ValueSize(shape) = shape.valueHeads * shape.valueDim
         /\ Delta!KeySize(shape) = shape.keyHeads * shape.keyDim
         /\ Delta!ValueSize(shape) = shape.hidden
         /\ Delta!ConvDim(shape) = 2 * Delta!KeySize(shape) + Delta!ValueSize(shape)
         /\ Delta!ConvDim(shape) \in Nat \ {0}
         /\ tokens \in Nat /\ DeltaTokens \in Nat \ {0}
         /\ DeltaFields(shape)
<1>1. DeltaFields(shape) /\ tokens \in Nat
  BY DEF DeltaCallOK
<1>2. DeltaTokens \in Nat \ {0}
  BY KernelAssumption DEF Delta!TokensAssumption
<1>3. Delta!ValueSize(shape) \in Nat \ {0}
  BY <1>1, DeltaShapeFacts
<1>4. Delta!ConvDim(shape) \in Nat \ {0}
  BY <1>1, <1>3, DeltaShapeFacts
<1> QED
  BY <1>1, <1>2, <1>3, <1>4, DeltaShapeFacts

\* A token is a step.
LEMMA AfterSteps ==
  ASSUME fed \in Nat, NEW from, NEW j \in Nat
  PROVE  /\ After(from, 0).state = from /\ After(from, 0).outputs = <<>>
         /\ After(from, j + 1).outputs = Append(After(from, j).outputs, MadeOf(from, j))
         /\ After(from, j + 1).state =
              [convolution |-> Delta!Remembered(shape, After(from, j).state, fed + 1 + j),
               recurrent |-> UpdatedOf(from, j)]
<1> DEFINE s == fed + 1
           before == Delta!Prefill(shape, from, s, j)
           step == Delta!DeltaStep(shape, before.state, s + j)
<1>1. s \in Nat
  OBVIOUS
<1>3. /\ step.output = MadeOf(from, j)
      /\ step.state =
           [convolution |-> Delta!Remembered(shape, After(from, j).state, fed + 1 + j),
            recurrent |-> UpdatedOf(from, j)]
  BY DEF Delta!DeltaStep, MadeOf, UpdatedOf, CellsOf, After
<1>7. GoesOn(shape, from, s, j)
  BY <1>1, PrefillSteps
<1>2. /\ Delta!Prefill(shape, from, s, 0) = [state |-> from, outputs |-> <<>>]
      /\ Delta!Prefill(shape, from, s, j + 1) =
           [state |-> step.state, outputs |-> Append(before.outputs, step.output)]
  BY <1>7 DEF GoesOn
<1> HIDE DEF s, before, step
<1>4. After(from, 0) = [state |-> from, outputs |-> <<>>]
  BY <1>2 DEF After, s
<1>5. After(from, j + 1) = [state |-> step.state, outputs |-> Append(before.outputs, step.output)]
  BY <1>2 DEF After, s
<1>6. before = After(from, j)
  BY DEF After, before, s
<1> QED
  BY <1>3, <1>4, <1>5, <1>6

\* The state stays a state.
LEMMA AfterIsState ==
  ASSUME fed \in Nat, NEW from, StateOver(from), NEW n \in Nat
  PROVE  StateOver(After(from, n).state)
<1> DEFINE P == {j \in Nat : StateOver(After(from, j).state)}
<1>1. 0 \in P
  <2>1. After(from, 0).state = from
    BY AfterSteps
  <2> QED BY <2>1
<1>2. ASSUME NEW j \in P PROVE j + 1 \in P
  <2> DEFINE s == After(from, j).state
             t == After(from, j + 1).state
  <2>1. StateOver(s) /\ j \in Nat /\ j + 1 \in Nat
    OBVIOUS
  <2>2. t = [convolution |-> Delta!Remembered(shape, s, fed + 1 + j), recurrent |-> UpdatedOf(from, j)]
    BY <2>1, AfterSteps
  <2>3. UpdatedOf(from, j) = Delta!Updated(shape, s, CellsOf(from, j), fed + 1 + j)
    BY DEF UpdatedOf
  <2> HIDE DEF s, t
  <2>4. /\ DOMAIN s.convolution = 0..(Delta!ConvDim(shape) * (shape.width - 1) - 1)
        /\ DOMAIN s.recurrent = 0..(Delta!ValueSize(shape) * shape.keyDim - 1)
    BY <2>1 DEF StateOver
  <2>5. t.convolution = [i \in 0..(Delta!ConvDim(shape) * (shape.width - 1) - 1) |-> t.convolution[i]]
    BY <2>2, <2>4 DEF Delta!Remembered
  <2>6. t.recurrent = [i \in 0..(Delta!ValueSize(shape) * shape.keyDim - 1) |-> t.recurrent[i]]
    BY <2>2, <2>3, <2>4 DEF Delta!Updated
  <2>7. StateOver(t)
    BY <2>2, <2>5, <2>6 DEF StateOver
  <2> QED BY <2>1, <2>7 DEF t
<1>3. P = Nat
  <2>1. P \in SUBSET Nat
    OBVIOUS
  <2> HIDE DEF P
  <2> QED BY <1>1, <1>2, <2>1, UpFrom
<1> QED
  BY <1>3

\* There is an output for every token.
LEMMA AfterOutputs ==
  ASSUME fed \in Nat, NEW from, NEW n \in Nat
  PROVE  After(from, n).outputs = [j \in 1..n |-> MadeOf(from, j - 1)]
<1> DEFINE M == {MadeOf(from, j) : j \in Nat}
           Is(s, m) == s \in Seq(M) /\ Len(s) = m /\ \A j \in 1..m : s[j] = MadeOf(from, j - 1)
           P == {m \in Nat : Is(After(from, m).outputs, m)}
<1>1. 0 \in P
  <2>1. After(from, 0).outputs = <<>>
    BY AfterSteps
  <2> HIDE DEF M
  <2>2. <<>> \in Seq(M) /\ Len(<<>>) = 0 /\ 1..0 = {}
    OBVIOUS
  <2> QED BY <2>1, <2>2
<1>2. ASSUME NEW m \in P PROVE m + 1 \in P
  <2> DEFINE s == After(from, m).outputs
             t == After(from, m + 1).outputs
             e == MadeOf(from, m)
  <2>1. t = Append(s, e) /\ m \in Nat
    BY AfterSteps
  <2>2. s \in Seq(M) /\ Len(s) = m /\ e \in M /\ \A j \in 1..m : s[j] = MadeOf(from, j - 1)
    OBVIOUS
  <2> HIDE DEF s, t, e, M
  <2>3. t \in Seq(M) /\ Len(t) = m + 1 /\ t[m + 1] = e /\ \A j \in 1..m : t[j] = s[j]
    BY <2>1, <2>2, AppendProperties
  <2>4. \A j \in 1..(m + 1) : t[j] = MadeOf(from, j - 1)
    <3>1. (m + 1) - 1 = m
      BY <2>1
    <3> QED BY <2>1, <2>2, <2>3, <3>1 DEF e
  <2> QED BY <2>1, <2>3, <2>4 DEF t
<1>3. P = Nat
  <2>1. P \in SUBSET Nat
    OBVIOUS
  <2> HIDE DEF P
  <2> QED BY <1>1, <1>2, <2>1, UpFrom
<1>4. Is(After(from, n).outputs, n)
  BY <1>3
<1> HIDE DEF M
<1>5. DOMAIN After(from, n).outputs = 1..n
  BY <1>4
<1> QED
  <2> DEFINE s == After(from, n).outputs
  <2>1. s \in [1..n -> M]
    BY <1>4, <1>5, SeqDef
  <2>2. \A j \in 1..n : s[j] = MadeOf(from, j - 1)
    BY <1>4
  <2> HIDE DEF s
  <2>3. s = [j \in 1..n |-> MadeOf(from, j - 1)]
    BY <2>1, <2>2
  <2> QED BY <2>3 DEF s

-----------------------------------------------------------------------------
(* Delta: places *)

\* A place of a block of s is its block's and its place there.
LEMMA BlocksReach ==
  ASSUME NEW n \in Nat, NEW s \in Nat \ {0}, NEW i \in 0..(n - 1)
  PROVE  /\ Delta!Blocks(n, s) \in Nat
         /\ i \div s \in 0..(Delta!Blocks(n, s) - 1) /\ i % s \in 0..(s - 1)
         /\ i = ((i \div s) * s) + (i % s)
<1>1. Delta!Blocks(n, s) = Attention!Ceil(n, s)
  BY DEF Delta!Blocks, Attention!Ceil
<1> QED
  BY <1>1, TilesReach

\* What has been written once holds that; what has not is as before.
LEMMA WrittenOnce ==
  ASSUME NEW held, NEW w, NEW t \in DOMAIN w, NEW i \in DOMAIN held, i \in DOMAIN w[t],
         \A u \in DOMAIN w : i \in DOMAIN w[u] => u = t
  PROVE  Delta!Written(held, w)[i] = w[t][i]
<1>1. (CHOOSE u \in DOMAIN w : i \in DOMAIN w[u]) = t
  OBVIOUS
<1> QED
  BY <1>1 DEF Delta!Written

\* A cell nobody writes stays,
LEMMA WrittenNever ==
  ASSUME NEW held, NEW w, NEW i \in DOMAIN held, \A u \in DOMAIN w : i \notin DOMAIN w[u]
  PROVE  Delta!Written(held, w)[i] = held[i]
BY DEF Delta!Written

\* and the array stays the same cells.
LEMMA WrittenDomain ==
  ASSUME NEW held, NEW w
  PROVE  /\ DOMAIN Delta!Written(held, w) = DOMAIN held
         /\ Delta!Written(held, w) = [i \in DOMAIN held |-> Delta!Written(held, w)[i]]
BY DEF Delta!Written

\* Where a channel remembers.
HistoryCell(c, h) == c * (shape.width - 1) + h
HistoryFloats == 0..(Delta!ConvDim(shape) * (shape.width - 1) - 1)

\* A cell of the past belongs to one channel, at one distance.
LEMMA HistoryPlace ==
  ASSUME DeltaCallOK, NEW c \in Channels, NEW h \in Remembers
  PROVE  /\ HistoryCell(c, h) \in HistoryFloats /\ HistoryCell(c, h) \in Nat
         /\ HistoryCell(c, h) \div (shape.width - 1) = c
         /\ h = shape.width - 2 => (HistoryCell(c, h) + 1) % (shape.width - 1) = 0
         /\ h # shape.width - 2 => /\ (HistoryCell(c, h) + 1) % (shape.width - 1) # 0
                                   /\ h + 1 \in Remembers
                                   /\ HistoryCell(c, h) + 1 = HistoryCell(c, h + 1)
         /\ \A d \in Channels, g \in Remembers : HistoryCell(d, g) = HistoryCell(c, h) => d = c /\ g = h
<1> DEFINE w == shape.width - 1
           D == Delta!ConvDim(shape)
<1>1. w \in Nat \ {0} /\ D \in Nat \ {0} /\ c \in Nat /\ h \in 0..(w - 1) /\ c \in 0..(D - 1)
      /\ shape.width - 2 = w - 1
  BY DeltaNumbers DEF Channels, Remembers
<1>2. HistoryCell(c, h) = c * w + h
  BY DEF HistoryCell
<1>3. c * w + h \in Nat /\ c * w + h < D * w /\ D * w \in Nat /\ c * w \in Nat
  BY <1>1, Digits
<1>4. (c * w + h) \div w = c
  BY <1>1, DivisionUnique
<1>5. ASSUME h = w - 1 PROVE (c * w + h + 1) % w = 0
  <2>1. c * w + h + 1 = (c + 1) * w + 0
    <3>1. w * (c + 1) = w * c + w /\ w * c = c * w /\ (c + 1) * w = w * (c + 1)
      BY <1>1, SMT
    <3> QED BY <1>1, <1>3, <1>5, <3>1
  <2>2. ((c + 1) * w + 0) % w = 0
    <3>1. c + 1 \in Nat /\ 0 \in 0..(w - 1)
      BY <1>1
    <3> QED BY <1>1, <3>1, DivisionUnique
  <2> QED BY <2>1, <2>2
<1>6. ASSUME h # w - 1 PROVE (c * w + h + 1) % w # 0
  <2>1. h + 1 \in 0..(w - 1)
    BY <1>1, <1>6
  <2>2. (c * w + (h + 1)) % w = h + 1
    BY <1>1, <2>1, DivisionUnique
  <2>3. c * w + h + 1 = c * w + (h + 1) /\ h + 1 # 0
    BY <1>1, <1>3
  <2> QED BY <2>1, <2>2, <2>3
<1>7. ASSUME NEW d \in Channels, NEW g \in Remembers, HistoryCell(d, g) = HistoryCell(c, h)
      PROVE  d = c /\ g = h
  <2>1. d \in Nat /\ g \in 0..(w - 1)
    BY <1>1 DEF Channels, Remembers
  <2>2. d * w + g = c * w + h
    BY <1>2, <1>7 DEF HistoryCell
  <2> HIDE DEF w
  <2> QED BY ONLY <1>1, <2>1, <2>2, DigitsApart
<1>8. HistoryCell(c, h) \in HistoryFloats
  <2> DEFINE m == D * w
  <2>1. HistoryCell(c, h) \in Nat /\ HistoryCell(c, h) < m /\ m \in Nat
    BY <1>2, <1>3
  <2> HIDE DEF m
  <2>2. HistoryCell(c, h) \in 0..(m - 1)
    BY <2>1
  <2> QED BY <2>2 DEF m, HistoryFloats
<1>9. h = w - 1 => (HistoryCell(c, h) + 1) % w = 0
  BY <1>2, <1>5
<1>10. h # w - 1 => /\ (HistoryCell(c, h) + 1) % w # 0 /\ h + 1 \in 0..(w - 1)
                    /\ HistoryCell(c, h) + 1 = HistoryCell(c, h + 1)
  <2> SUFFICES ASSUME h # w - 1
               PROVE  /\ (HistoryCell(c, h) + 1) % w # 0 /\ h + 1 \in 0..(w - 1)
                      /\ HistoryCell(c, h) + 1 = HistoryCell(c, h + 1)
    OBVIOUS
  <2>1. c * w + h + 1 = c * w + (h + 1) /\ h + 1 \in 0..(w - 1)
    BY <1>1, <1>3
  <2>2. HistoryCell(c, h + 1) = c * w + (h + 1)
    BY DEF HistoryCell
  <2> QED BY <1>2, <1>6, <2>1, <2>2
<1>11. HistoryCell(c, h) \in Nat
  BY <1>2, <1>3
<1> QED
  BY <1>1, <1>2, <1>4, <1>7, <1>8, <1>9, <1>10, <1>11 DEF Remembers

\* There is nothing else there.
LEMMA HistoryFills ==
  ASSUME DeltaCallOK, NEW i \in HistoryFloats
  PROVE  \E c \in Channels, h \in Remembers : i = HistoryCell(c, h)
<1> DEFINE w == shape.width - 1
           D == Delta!ConvDim(shape)
<1>1. w \in Nat /\ D \in Nat \ {0}
  BY DeltaNumbers
<1>2. D * w \in Nat
  BY <1>1, SMT
<1>3. i \in Nat /\ i < D * w
  BY <1>2 DEF HistoryFloats
<1>4. w # 0
  <2> SUFFICES ASSUME w = 0 PROVE FALSE
    OBVIOUS
  <2>1. D * 0 = 0
    BY <1>1
  <2> QED BY <1>3, <2>1
<1> HIDE DEF w, D
<1>5. i \div w \in 0..(D - 1) /\ i % w \in 0..(w - 1) /\ i = ((i \div w) * w) + (i % w)
  BY <1>1, <1>3, <1>4, DigitsOf
<1>6. 0..(w - 1) = Remembers
  BY DeltaNumbers DEF Remembers, w
<1>7. i = HistoryCell(i \div w, i % w)
  BY <1>5 DEF HistoryCell, w
<1> QED
  BY <1>5, <1>6, <1>7 DEF Channels, D

\* Where a channel of a token is.
WorkFloats == 0..(DeltaTokens * (Delta!ConvDim(shape) + shape.hidden) - 1)

\* No two channels of the chunk share a float of the workspace.
LEMMA ChannelPlace ==
  ASSUME DeltaCallOK, tokens <= DeltaTokens, NEW j \in Chunk, NEW c \in Channels
  PROVE  /\ Delta!Conv(shape, j, c) \in WorkFloats
         /\ Delta!Conv(shape, j, c) < tokens * Delta!ConvDim(shape)
         /\ Delta!Conv(shape, j, c) \div Delta!ConvDim(shape) = j
         /\ \A i \in Chunk, d \in Channels :
              Delta!Conv(shape, i, d) = Delta!Conv(shape, j, c) => i = j /\ d = c
<1> DEFINE D == Delta!ConvDim(shape)
           H == shape.hidden
<1>1. D \in Nat \ {0} /\ H \in Nat /\ tokens \in Nat /\ DeltaTokens \in Nat
      /\ j \in 0..(tokens - 1) /\ j \in Nat /\ c \in 0..(D - 1)
  BY DeltaNumbers DEF Chunk, Channels
<1>2. \A x, y : Delta!Conv(shape, x, y) = x * D + y
  BY DEF Delta!Conv
<1>3. j * D + c \in Nat /\ j * D + c < tokens * D /\ tokens * D \in Nat
  BY <1>1, Digits
<1>4. (j * D + c) \div D = j
  BY <1>1, DivisionUnique
<1>5. tokens * D <= DeltaTokens * (D + H) /\ DeltaTokens * (D + H) \in Nat
  <2>1. D * tokens <= D * DeltaTokens /\ D * tokens \in Nat /\ D * DeltaTokens \in Nat
    BY <1>1, Grows
  <2>2. /\ DeltaTokens * (D + H) = DeltaTokens * D + DeltaTokens * H /\ DeltaTokens * H \in Nat
        /\ D * tokens = tokens * D /\ D * DeltaTokens = DeltaTokens * D
    BY <1>1, SMT
  <2> QED BY <2>1, <2>2
<1>6. ASSUME NEW i \in Chunk, NEW d \in Channels, Delta!Conv(shape, i, d) = Delta!Conv(shape, j, c)
      PROVE  i = j /\ d = c
  <2>1. i \in Nat /\ d \in 0..(D - 1)
    BY DeltaNumbers DEF Chunk, Channels
  <2>2. i * D + d = j * D + c
    BY <1>2, <1>6
  <2> HIDE DEF D
  <2> QED BY ONLY <1>1, <2>1, <2>2, DigitsApart
<1>7. Delta!Conv(shape, j, c) \in WorkFloats
  <2> DEFINE m == DeltaTokens * (D + H)
             x == Delta!Conv(shape, j, c)
             y == tokens * D
  <2>1. x \in Nat /\ x < y /\ y <= m /\ m \in Nat /\ y \in Nat
    BY <1>2, <1>3, <1>5
  <2> HIDE DEF m, x, y
  <2>2. x \in 0..(m - 1)
    BY <2>1
  <2> QED BY <2>2 DEF m, x, WorkFloats
<1> QED
  BY <1>2, <1>3, <1>4, <1>6, <1>7

\* Every channel has a thread.
LEMMA ConvolutionThreads ==
  ASSUME DeltaCallOK
  PROVE  Delta!Threads("convolution", shape, tokens) = Channels
<1> DEFINE D == Delta!ConvDim(shape)
           b == ConvolutionBlock
           B == Delta!Blocks(D, b)
<1>1. D \in Nat \ {0} /\ b \in Nat \ {0}
  BY DeltaNumbers, KernelAssumption DEF Delta!GridAssumption
<1>2. Delta!Threads("convolution", shape, tokens) = {c \in 0..(B * b - 1) : c < D}
  BY DEF Delta!Threads
<1> HIDE DEF D, B, b
<1>3. ASSUME NEW c \in 0..(D - 1) PROVE c \in 0..(B * b - 1)
  <2>1. B \in Nat /\ c \div b \in 0..(B - 1) /\ c % b \in 0..(b - 1) /\ c = ((c \div b) * b) + (c % b)
    BY <1>1, BlocksReach DEF B
  <2> DEFINE q == c \div b
             r == c % b
             m == B * b
  <2> HIDE DEF q, r
  <2>2. q * b + r < m /\ m \in Nat
    <3>1. q \in 0..(B - 1) /\ r \in 0..(b - 1) /\ B \in Nat /\ b \in Nat
      BY <1>1, <2>1 DEF q, r
    <3> QED BY ONLY <3>1, Digits DEF m
  <2>3. c \in Nat /\ c < m
    BY <2>1, <2>2 DEF q, r
  <2> HIDE DEF m
  <2>4. c \in 0..(m - 1)
    BY <2>2, <2>3
  <2> QED BY <2>4 DEF m
<1> DEFINE m == B * b
<1>4. ASSUME NEW c \in {x \in 0..(m - 1) : x < D} PROVE c \in 0..(D - 1)
  BY <1>1
<1>5. \A c \in 0..(D - 1) : c \in 0..(m - 1) /\ c < D
  BY <1>1, <1>3
<1>6. {c \in 0..(m - 1) : c < D} = 0..(D - 1)
  <2> HIDE DEF m
  <2> QED BY <1>4, <1>5
<1> QED
  BY <1>2, <1>6 DEF Channels, D

-----------------------------------------------------------------------------
(* Delta: the convolution *)

\* The past of a channel: what is remembered, then the tokens of the chunk.
LEMMA PastIs ==
  ASSUME DeltaCallOK, fed \in Nat, NEW held, NEW c, NEW n \in Nat
  PROVE  /\ n < shape.width - 1 => Delta!Past(held, c, n) = held[HistoryCell(c, n)]
         /\ Delta!Past(held, c, n + (shape.width - 1)) = Delta!Input(fed + 1 + n, c)
<1> DEFINE w == shape.width - 1
<1>1. w \in Nat /\ shape.width \in Nat
  BY DeltaNumbers
<1>2. /\ ~(n + w < w) /\ n + w - w = n /\ fed + n + 1 = fed + 1 + n
  BY <1>1
<1>3. \A m : Delta!Past(held, c, m) =
        IF m < w THEN held[HistoryCell(c, m)] ELSE Delta!Input(fed + (m - w) + 1, c)
  BY DEF Delta!Past, Delta!Packed, HistoryCell
<1> HIDE DEF w
<1>4. Delta!Past(held, c, n + w) = Delta!Input(fed + ((n + w) - w) + 1, c)
  BY <1>2, <1>3
<1>5. n < w => Delta!Past(held, c, n) = held[HistoryCell(c, n)]
  BY <1>3
<1> QED
  BY <1>1, <1>4, <1>5 DEF w

\* After j tokens a channel remembers the past that ends there.
LEMMA RememberedPast ==
  ASSUME DeltaCallOK, fed \in Nat, NEW from, StateOver(from), NEW n \in Nat,
         NEW c \in Channels, NEW h \in Remembers
  PROVE  After(from, n).state.convolution[HistoryCell(c, h)] =
           Delta!Past(from.convolution, c, n + h)
<1> DEFINE w == shape.width - 1
           At(j, g) == After(from, j).state.convolution[HistoryCell(c, g)]
           P == {j \in Nat : \A g \in Remembers : At(j, g) = Delta!Past(from.convolution, c, j + g)}
<1>1. w \in Nat /\ Remembers = 0..(w - 1) /\ shape.width - 2 = w - 1
  <2>1. shape.width \in Nat \ {0}
    BY DeltaNumbers
  <2> QED BY <2>1 DEF Remembers
<1>2. 0 \in P
  <2>1. After(from, 0).state = from
    BY AfterSteps
  <2>2. ASSUME NEW g \in Remembers
        PROVE  from.convolution[HistoryCell(c, g)] = Delta!Past(from.convolution, c, 0 + g)
    <3>1. g \in Nat /\ g < w /\ 0 + g = g
      BY <1>1
    <3> QED BY <3>1, PastIs
  <2> QED BY <2>1, <2>2
<1>3. ASSUME NEW j \in P PROVE j + 1 \in P
  <2>1. j \in Nat
    OBVIOUS
  <2> DEFINE s == After(from, j).state.convolution
  <2>2. DOMAIN s = HistoryFloats
    <3>1. StateOver(After(from, j).state)
      BY <2>1, AfterIsState
    <3> QED BY <3>1 DEF StateOver, HistoryFloats
  <2>3. After(from, j + 1).state.convolution = Delta!Remembered(shape, After(from, j).state, fed + 1 + j)
    <3> DEFINE t == After(from, j + 1).state
    <3>1. t = [convolution |-> Delta!Remembered(shape, After(from, j).state, fed + 1 + j),
               recurrent |-> UpdatedOf(from, j)]
      BY <2>1, AfterSteps
    <3> HIDE DEF t
    <3>2. t.convolution = Delta!Remembered(shape, After(from, j).state, fed + 1 + j)
      BY <3>1
    <3> QED BY <3>2 DEF t
  <2>4. Delta!Remembered(shape, After(from, j).state, fed + 1 + j) =
          [i \in HistoryFloats |-> IF (i + 1) % w = 0 THEN Delta!Input(fed + 1 + j, i \div w)
                                   ELSE s[i + 1]]
    BY <2>2 DEF Delta!Remembered
  <2>5. ASSUME NEW g \in Remembers PROVE At(j + 1, g) = Delta!Past(from.convolution, c, (j + 1) + g)
    <3> DEFINE i == HistoryCell(c, g)
    <3>1. /\ i \in HistoryFloats /\ i \div w = c
          /\ g = w - 1 => (i + 1) % w = 0
          /\ g # w - 1 => (i + 1) % w # 0 /\ g + 1 \in Remembers /\ i + 1 = HistoryCell(c, g + 1)
      BY <1>1, HistoryPlace
    <3>2. At(j + 1, g) = IF (i + 1) % w = 0 THEN Delta!Input(fed + 1 + j, i \div w) ELSE s[i + 1]
      <4> HIDE DEF i, s
      <4> QED BY <2>3, <2>4, <3>1 DEF i
    <3>3. CASE g = w - 1
      <4>1. At(j + 1, g) = Delta!Input(fed + 1 + j, c)
        <5> HIDE DEF i
        <5> QED BY <3>1, <3>2, <3>3
      <4>2. (j + 1) + g = j + w
        <5>1. g \in Nat
          BY <1>1
        <5> HIDE DEF w
        <5> QED BY ONLY <1>1, <2>1, <3>3, <5>1
      <4>3. Delta!Past(from.convolution, c, j + w) = Delta!Input(fed + 1 + j, c)
        BY <2>1, PastIs
      <4> QED BY <4>1, <4>2, <4>3
    <3>4. CASE g # w - 1
      <4>1. At(j + 1, g) = s[HistoryCell(c, g + 1)] /\ g + 1 \in Remembers
        <5> HIDE DEF i, s
        <5> QED BY <3>1, <3>2, <3>4
      <4>2. s[HistoryCell(c, g + 1)] = Delta!Past(from.convolution, c, j + (g + 1))
        BY <4>1
      <4>3. (j + 1) + g = j + (g + 1)
        BY <1>1, <2>1
      <4> QED BY <4>1, <4>2, <4>3
    <3> QED BY <3>3, <3>4
  <2>6. j + 1 \in Nat
    BY <2>1
  <2> QED BY <2>5, <2>6
<1>4. P = Nat
  <2>1. P \in SUBSET Nat
    OBVIOUS
  <2> HIDE DEF P
  <2> QED BY <1>2, <1>3, <2>1, UpFrom
<1> QED
  BY <1>4

\* The window of a channel at token j of the chunk.
Window(held, c, j) == <<"window", [h \in 1..shape.width |-> Delta!Past(held, c, j + h - 1)]>>

\* What the reference convolves at token j is the window that ends there.
LEMMA CellsAreWindows ==
  ASSUME DeltaCallOK, fed \in Nat, NEW from, StateOver(from), NEW j \in Nat, NEW c \in Channels
  PROVE  CellsOf(from, j)[c] = Window(from.convolution, c, j)
<1> DEFINE w == shape.width
           s == After(from, j).state
           old == [h \in 1..w |-> IF h = w THEN Delta!Input(fed + 1 + j, c)
                                  ELSE s.convolution[c * (w - 1) + h - 1]]
           new == [h \in 1..w |-> Delta!Past(from.convolution, c, j + h - 1)]
<1>1. w \in Nat \ {0} /\ Remembers = 0..(w - 2) /\ c \in Nat
  BY DeltaNumbers DEF Remembers, Channels
<1>2. CellsOf(from, j)[c] = <<"window", old>>
  BY DEF CellsOf, Delta!Convolved, Channels
<1>3. ASSUME NEW h \in 1..w PROVE old[h] = new[h]
  <2>1. CASE h = w
    <3>1. j + h - 1 = j + (w - 1)
      BY <1>1, <2>1
    <3>2. Delta!Past(from.convolution, c, j + (w - 1)) = Delta!Input(fed + 1 + j, c)
      BY PastIs
    <3> QED BY <2>1, <3>1, <3>2
  <2>2. CASE h # w
    <3>1. h - 1 \in Remembers /\ j + h - 1 = j + (h - 1)
      BY <1>1, <2>2
    <3>2. c * (w - 1) + h - 1 = HistoryCell(c, h - 1)
      <4>1. c * (w - 1) \in Nat
        BY <1>1, SMT
      <4> QED BY <1>1, <4>1 DEF HistoryCell
    <3>3. s.convolution[HistoryCell(c, h - 1)] = Delta!Past(from.convolution, c, j + (h - 1))
      BY <3>1, RememberedPast
    <3> QED BY <2>2, <3>1, <3>2, <3>3
  <2> QED BY <2>1, <2>2
<1>4. old = new
  <2>1. old = [h \in 1..w |-> old[h]] /\ new = [h \in 1..w |-> new[h]]
    OBVIOUS
  <2> HIDE DEF old, new
  <2> QED BY <1>3, <2>1
<1> QED
  BY <1>2, <1>4 DEF Window

\* Shifting in place leaves the past that ends with the chunk.
LEMMA ShiftedPast ==
  ASSUME DeltaCallOK, fed \in Nat, tokens # 0,
         state.convolution = [i \in HistoryFloats |-> state.convolution[i]],
         NEW c \in Channels, NEW h \in Remembers
  PROVE  Delta!Shifted(c)[HistoryCell(c, h)] = Delta!Past(state.convolution, c, tokens + h)
<1> DEFINE w == shape.width - 1
           b == c * w
           conv == state.convolution
           closed(n) == [i \in HistoryFloats |->
                          IF b <= i /\ i < b + n THEN Delta!Past(conv, c, tokens + (i - b)) ELSE conv[i]]
           Shift(f, n) == IF n = 0 THEN conv
                          ELSE [f[n - 1] EXCEPT ![c * w + n - 1] = Delta!Past(f[n - 1], c, tokens + n - 1)]
           shift == CHOOSE f : f = [n \in 0..w |-> Shift(f, n)]
<1>1. w \in Nat /\ Remembers = 0..(w - 1) /\ c \in Nat /\ tokens \in Nat \ {0} /\ shape.width \in Nat
  <2>1. shape.width \in Nat \ {0} /\ tokens \in Nat
    BY DeltaNumbers
  <2>2. Delta!ConvDim(shape) \in Nat
    BY DeltaNumbers
  <2> QED BY <2>1, <2>2 DEF Remembers, Channels
<1>2. b \in Nat /\ HistoryFloats \subseteq Int
  <2>1. HistoryFloats \subseteq Int
    BY DEF HistoryFloats
  <2> QED BY <1>1, <2>1, SMT
<1>3. Delta!Shifted(c) = shift[w]
  BY DEF Delta!Shifted
<1>4. \A g \in Remembers : HistoryCell(c, g) \in HistoryFloats /\ HistoryCell(c, g) = b + g
  BY HistoryPlace DEF HistoryCell
<1>5. closed(0) = conv
  <2>1. \A i \in HistoryFloats : ~(b <= i /\ i < b + 0)
    <3> HIDE DEF b
    <3> QED BY <1>2
  <2>2. closed(0) = [i \in HistoryFloats |-> conv[i]]
    <3> HIDE DEF b, conv
    <3> QED BY <2>1
  <2> QED BY <2>2
<1>6. ASSUME NEW n \in 1..w
      PROVE  closed(n) = [closed(n - 1) EXCEPT ![c * w + n - 1] = Delta!Past(closed(n - 1), c, tokens + n - 1)]
  <2> DEFINE g == n - 1
             at == b + g
             old == closed(g)
             held == Delta!Past(old, c, tokens + g)
  <2>1. g \in Remembers /\ g \in Nat /\ n = g + 1 /\ tokens + n - 1 = tokens + g
    BY <1>1
  <2>2. c * w + n - 1 = at /\ at \in HistoryFloats /\ at \in Int
    <3>1. HistoryCell(c, g) = b + g /\ HistoryCell(c, g) \in HistoryFloats
      BY <1>4, <2>1
    <3>2. c * w + n - 1 = b + g
      <4> HIDE DEF g, w
      <4>1. c * w = b
        BY DEF w, b
      <4> HIDE DEF b
      <4> QED BY <1>2, <2>1, <4>1
    <3> QED BY <1>2, <3>1, <3>2
  <2>3. held = Delta!Past(conv, c, tokens + g)
    <3> DEFINE p == tokens + g
    <3>1. p \in Nat
      BY <1>1, <2>1
    <3>2. CASE p < w
      <4>1. p \in Remembers
        BY <1>1, <3>1, <3>2
      <4>2. HistoryCell(c, p) \in HistoryFloats /\ HistoryCell(c, p) = b + p
        BY <1>4, <4>1
      <4>3. ~(b + p < b + g)
        <5> HIDE DEF b, g
        <5> QED BY <1>1, <1>2, <2>1
      <4>4. old[HistoryCell(c, p)] = conv[HistoryCell(c, p)]
        <5> HIDE DEF b, g, p, conv
        <5> QED BY <4>2, <4>3
      <4> HIDE DEF p, old, conv
      <4> QED BY <3>1, <3>2, <4>4, PastIs DEF p
    <3>3. CASE ~(p < w)
      <4>1. PICK m \in Nat : p = m + w
        <5>1. p - w \in Nat /\ p = (p - w) + w
          <6> HIDE DEF p, w
          <6> QED BY <1>1, <3>1, <3>3
        <5> QED BY <5>1
      <4> HIDE DEF p, old, conv
      <4> QED BY <4>1, PastIs DEF p
    <3> QED BY <3>2, <3>3
  <2> HIDE DEF g, held
  <2>4. ASSUME NEW i \in HistoryFloats
        PROVE  closed(n)[i] = IF i = at THEN held ELSE old[i]
    <3>1. i \in Int
      BY <1>2
    <3>2. CASE i = at
      <4>1. b <= i /\ i < b + n /\ i - b = g
        <5> HIDE DEF b
        <5> QED BY <1>2, <2>1, <2>2, <3>2
      <4> QED BY <2>3, <3>2, <4>1
    <3>3. CASE i # at
      <4>1. (b <= i /\ i < b + n) <=> (b <= i /\ i < b + g)
        <5> HIDE DEF b
        <5> QED BY <1>2, <2>1, <2>2, <3>1, <3>3
      <4> HIDE DEF b, conv
      <4> QED BY <3>3, <4>1
    <3> QED BY <3>2, <3>3
  <2>5. closed(n) = [i \in HistoryFloats |-> closed(n)[i]] /\ old = [i \in HistoryFloats |-> old[i]]
    OBVIOUS
  <2> HIDE DEF closed, old, at
  <2>6. closed(n) = [old EXCEPT ![at] = held]
    BY <2>2, <2>4, <2>5
  <2> QED BY <2>1, <2>2, <2>6 DEF old, held, g
<1> HIDE DEF closed, conv, b
<1> DEFINE f == [n \in 0..w |-> closed(n)]
<1>7. f = [n \in 0..w |-> Shift(f, n)]
  <2>1. ASSUME NEW n \in 0..w PROVE closed(n) = Shift(f, n)
    <3>1. CASE n = 0
      BY <1>5, <3>1
    <3>2. CASE n # 0
      <4>1. n \in 1..w /\ n - 1 \in 0..w
        BY <1>1, <3>2
      <4>2. f[n - 1] = closed(n - 1)
        BY <4>1
      <4> HIDE DEF f
      <4> QED BY <1>6, <3>2, <4>1, <4>2
    <3> QED BY <3>1, <3>2
  <2>2. \A n \in 0..w : closed(n) = Shift(f, n)
    BY <2>1
  <2>3. f = [n \in 0..w |-> closed(n)]
    OBVIOUS
  <2> HIDE DEF f, Shift, w
  <2> QED BY <2>2, <2>3
<1>8. shift = [n \in 0..w |-> Shift(shift, n)]
  <2> HIDE DEF f, Shift
  <2> QED BY <1>7
<1> HIDE DEF shift, f
<1> DEFINE P == {n \in 0..w : shift[n] = closed(n)}
<1>9. 0 \in P
  <2>1. 0 \in 0..w
    BY <1>1
  <2>2. shift[0] = Shift(shift, 0)
    <3> HIDE DEF Shift, w
    <3> QED BY <1>8, <2>1
  <2> QED BY <1>5, <2>1, <2>2
<1>10. ASSUME NEW n \in 1..w, n - 1 \in P PROVE n \in P
  <2>1. n \in 0..w /\ n # 0
    BY <1>1
  <2>2. shift[n] = Shift(shift, n)
    <3> HIDE DEF Shift, w
    <3> QED BY <1>8, <2>1
  <2>3. shift[n - 1] = closed(n - 1)
    BY <1>10
  <2> QED BY <1>6, <2>1, <2>2, <2>3
<1>11. shift[w] = closed(w)
  <2> HIDE DEF P
  <2>1. \A n \in 0..w : n \in P
    <3> HIDE DEF w
    <3> QED BY ONLY <1>1, <1>9, <1>10, BoundedInduction
  <2>2. w \in 0..w
    BY <1>1
  <2>3. w \in P
    BY <2>1, <2>2
  <2> QED BY <2>3 DEF P
<1>12. closed(w)[b + h] = Delta!Past(conv, c, tokens + h)
  <2>1. b + h \in HistoryFloats
    BY <1>4
  <2>2. b <= b + h /\ b + h < b + w /\ (b + h) - b = h
    <3> HIDE DEF w
    <3> QED BY <1>1, <1>2
  <2> QED BY <2>1, <2>2 DEF closed
<1> QED
  BY <1>3, <1>4, <1>11, <1>12 DEF conv

\* What a kernel is given: a call in a workspace that has room for it.
DeltaGiven(from) ==
  /\ DeltaCallOK /\ fed \in Nat /\ tokens # 0 /\ tokens <= DeltaTokens
  /\ Delta!Allowed(policy, shape, tokens)
  /\ DOMAIN work = WorkFloats /\ DOMAIN output = 0..(DeltaTokens * shape.hidden - 1)
  /\ StateOver(state) /\ StateOver(from)

\* The convolution leaves every token convolved, and the past that ends with them.
LEMMA ConvolutionRuns ==
  ASSUME NEW from, DeltaGiven(from), state.convolution = from.convolution, Delta!Convolution
  PROVE  /\ ConvolvedIn(work', from) /\ DOMAIN work' = WorkFloats /\ output' = output
         /\ state'.convolution = After(from, tokens).state.convolution
         /\ state'.recurrent = state.recurrent
         /\ state' = [convolution |-> state'.convolution, recurrent |-> state'.recurrent]
<1> DEFINE D == Delta!ConvDim(shape)
           w == shape.width - 1
           value(c, i) == <<"window", [h \in 1..shape.width |->
                             Delta!Past(state.convolution, c, i \div D + h - 1)]>>
           W == [c \in Channels |-> [i \in {Delta!Conv(shape, j, c) : j \in Chunk} |-> value(c, i)]]
           S == [c \in Channels |-> [i \in {c * w + h : h \in Remembers} |-> Delta!Shifted(c)[i]]]
<1>0. DeltaCallOK /\ fed \in Nat /\ tokens \in Nat \ {0} /\ tokens <= DeltaTokens
      /\ DOMAIN work = WorkFloats /\ StateOver(state) /\ StateOver(from)
  BY DeltaNumbers DEF DeltaGiven
<1>1. Delta!Threads("convolution", shape, tokens) = Channels
  BY <1>0, ConvolutionThreads
<1>2. work' = Delta!Written(work, W)
  BY <1>1 DEF Delta!Convolution, Delta!Over, Chunk
<1>3. state' = [state EXCEPT !.convolution = Delta!Written(state.convolution, S)]
  BY <1>1 DEF Delta!Convolution, Delta!Over, Remembers
<1>4. output' = output
  BY DEF Delta!Convolution
<1>5. ASSUME NEW j \in Chunk, NEW c \in Channels
      PROVE  work'[Delta!Conv(shape, j, c)] = CellsOf(from, j)[c]
  <2> DEFINE i == Delta!Conv(shape, j, c)
  <2>1. /\ i \in WorkFloats /\ i \div D = j
        /\ \A k \in Chunk, d \in Channels : Delta!Conv(shape, k, d) = i => k = j /\ d = c
    BY <1>0, ChannelPlace
  <2>2. W[c][i] = value(c, i) /\ i \in DOMAIN W[c] /\ DOMAIN W = Channels
    <3> HIDE DEF value
    <3> QED OBVIOUS
  <2>3. \A d \in DOMAIN W : i \in DOMAIN W[d] => d = c
    <3> HIDE DEF value, i
    <3> QED BY <2>1
  <2>4. work'[i] = W[c][i]
    <3>1. i \in DOMAIN work
      BY <1>0, <2>1
    <3> HIDE DEF W, i, value
    <3>2. Delta!Written(work, W)[i] = W[c][i]
      BY ONLY <2>2, <2>3, <3>1, WrittenOnce
    <3> QED BY <1>2, <3>2
  <2>5. value(c, i) = Window(from.convolution, c, j)
    BY <2>1 DEF Window
  <2>6. j \in Nat
    BY <1>0 DEF Chunk
  <2>7. CellsOf(from, j)[c] = Window(from.convolution, c, j)
    BY <1>0, <2>6, CellsAreWindows
  <2> HIDE DEF W, value
  <2> QED BY <2>2, <2>4, <2>5, <2>7
<1>6. DOMAIN work' = WorkFloats
  <2> HIDE DEF W
  <2> QED BY <1>0, <1>2, WrittenDomain
<1> DEFINE t == After(from, tokens).state
           new == Delta!Written(state.convolution, S)
<1>7. /\ state = [convolution |-> state.convolution, recurrent |-> state.recurrent]
      /\ state.convolution = [i \in HistoryFloats |-> state.convolution[i]]
      /\ t.convolution = [i \in HistoryFloats |-> t.convolution[i]]
  <2>1. StateOver(t)
    BY <1>0, AfterIsState
  <2> HIDE DEF t
  <2> QED BY <1>0, <2>1 DEF StateOver, HistoryFloats
<1>8. state'.convolution = new /\ state'.recurrent = state.recurrent
      /\ state' = [convolution |-> state'.convolution, recurrent |-> state'.recurrent]
  <2> HIDE DEF new, S
  <2>1. state' = [state EXCEPT !.convolution = new]
    BY <1>3 DEF new
  <2> DEFINE a == state.convolution
             b == state.recurrent
  <2>2. state = [convolution |-> a, recurrent |-> b]
    BY <1>7
  <2> HIDE DEF a, b
  <2>3. state' = [convolution |-> new, recurrent |-> b]
    BY <2>1, <2>2
  <2> QED BY <2>3 DEF b
<1>9. ASSUME NEW i \in HistoryFloats PROVE new[i] = t.convolution[i]
  <2>1. PICK c \in Channels, h \in Remembers : i = HistoryCell(c, h)
    BY <1>0, HistoryFills
  <2>2. \A d \in Channels, g \in Remembers : HistoryCell(d, g) = HistoryCell(c, h) => d = c /\ g = h
    BY <1>0, HistoryPlace
  <2>3. S = [d \in Channels |-> [k \in {HistoryCell(d, g) : g \in Remembers} |-> Delta!Shifted(d)[k]]]
    BY DEF HistoryCell
  <2>4. S[c][i] = Delta!Shifted(c)[i] /\ i \in DOMAIN S[c] /\ DOMAIN S = Channels
    <3> HIDE DEF S
    <3> QED BY <2>1, <2>3
  <2>5. \A d \in DOMAIN S : i \in DOMAIN S[d] => d = c
    <3> HIDE DEF S
    <3> QED BY <2>1, <2>2, <2>3
  <2>6. new[i] = S[c][i]
    <3>1. i \in DOMAIN state.convolution
      BY <1>7
    <3> HIDE DEF S
    <3> QED BY <2>4, <2>5, <3>1, WrittenOnce
  <2>7. Delta!Shifted(c)[HistoryCell(c, h)] = Delta!Past(from.convolution, c, tokens + h)
    BY <1>0, <1>7, ShiftedPast
  <2>8. t.convolution[HistoryCell(c, h)] = Delta!Past(from.convolution, c, tokens + h)
    BY <1>0, RememberedPast
  <2> HIDE DEF S, new, t
  <2> QED BY <2>1, <2>4, <2>6, <2>7, <2>8
<1>10. new = [i \in HistoryFloats |-> new[i]]
  <2>1. DOMAIN state.convolution = HistoryFloats
    BY <1>7
  <2> HIDE DEF S
  <2> QED BY <2>1, WrittenDomain
<1>11. new = t.convolution
  <2> HIDE DEF new, t
  <2> QED BY <1>7, <1>9, <1>10
<1> QED
  BY <1>4, <1>5, <1>6, <1>8, <1>11 DEF ConvolvedIn

-----------------------------------------------------------------------------
(* Delta: the normalization *)

\* The block of a vector of a token of the chunk.
VectorBlock(j, x) == j * (2 * shape.keyHeads) + x
KeyVectors == 0..(2 * shape.keyHeads - 1)

\* A vector has a block of its own, and the block its channels.
LEMMA VectorPlace ==
  ASSUME DeltaCallOK, NEW j \in Chunk, NEW x \in KeyVectors, NEW d \in DKeys
  PROVE  /\ VectorBlock(j, x) \in Delta!Threads("normalize", shape, tokens)
         /\ Delta!IsQuery(shape, VectorBlock(j, x)) = (x < shape.keyHeads)
         /\ x * shape.keyDim + d \in Channels
         /\ Delta!VectorBase(shape, VectorBlock(j, x)) + d = Delta!Conv(shape, j, x * shape.keyDim + d)
         /\ Delta!VectorBase(shape, VectorBlock(j, x)) \in Int
<1> DEFINE m == 2 * shape.keyHeads
           b == VectorBlock(j, x)
           D == Delta!ConvDim(shape)
<1>1. /\ m \in Nat \ {0} /\ tokens \in Nat /\ j \in Nat /\ j \in 0..(tokens - 1) /\ x \in 0..(m - 1)
      /\ shape.keyHeads \in Nat /\ D \in Nat /\ shape.keyDim \in Nat /\ DeltaFields(shape)
  BY DeltaNumbers DEF Chunk, KeyVectors
<1>2. tokens * 2 * shape.keyHeads = tokens * m
  BY <1>1, Multiplied
<1>3. b = j * m + x
  BY DEF VectorBlock
<1> HIDE DEF m, b
<1>4. b \in Nat /\ b < tokens * m /\ tokens * m \in Nat
  BY <1>1, <1>3, Digits
<1>5. b \in 0..(tokens * m - 1)
  <2> DEFINE p == tokens * m
  <2>1. b \in Nat /\ b < p /\ p \in Nat
    BY <1>4
  <2> HIDE DEF p
  <2>2. b \in 0..(p - 1)
    BY <2>1
  <2> QED BY <2>2 DEF p
<1>6. b \div m = j /\ b % m = x
  BY <1>1, <1>3, DivisionUnique
<1>7. /\ x * shape.keyDim + d \in 0..(D - 1)
      /\ Delta!VectorBase(shape, b) + d = j * D + (x * shape.keyDim + d)
  <2>1. b \in 0..(tokens * 2 * shape.keyHeads - 1) /\ d \in 0..(shape.keyDim - 1)
        /\ j = b \div (2 * shape.keyHeads) /\ x = b % (2 * shape.keyHeads)
    BY <1>2, <1>5, <1>6 DEF m, DKeys
  <2> QED BY <1>1, <2>1, VectorCells
<1>8. Delta!VectorBase(shape, b) \in Int
  <2>1. Delta!VectorBase(shape, b) =
          j * D + (IF x < shape.keyHeads THEN x * shape.keyDim
                   ELSE Delta!KeySize(shape) + (x - shape.keyHeads) * shape.keyDim)
    BY <1>6 DEF Delta!VectorBase, Delta!Conv, m
  <2>2. j * D \in Int /\ x * shape.keyDim \in Int /\ (x - shape.keyHeads) * shape.keyDim \in Int
    BY <1>1, SMT
  <2>3. Delta!KeySize(shape) \in Int
    BY DeltaNumbers
  <2> QED BY <2>1, <2>2, <2>3
<1>9. b \in Delta!Threads("normalize", shape, tokens)
  BY <1>2, <1>5 DEF Delta!Threads
<1>10. Delta!IsQuery(shape, b) = (x < shape.keyHeads)
  BY <1>6 DEF Delta!IsQuery, m
<1>11. Delta!Conv(shape, j, x * shape.keyDim + d) = j * D + (x * shape.keyDim + d)
  BY DEF Delta!Conv
<1> QED
  BY <1>7, <1>8, <1>9, <1>10, <1>11 DEF Channels, b

\* A cell scaled by its vector.
Scaled(cells_, base, d, query) ==
  <<"unit", cells_[base + d], {cells_[base + i] : i \in DKeys}, query>>

\* A vector is scaled by all of it.
LEMMA VectorScaled ==
  ASSUME NEW from, DeltaGiven(from), ConvolvedIn(work, from), Delta!Normalize,
         NEW j \in Chunk, NEW x \in KeyVectors, NEW d \in DKeys
  PROVE  work'[Delta!Conv(shape, j, x * shape.keyDim + d)] =
           Scaled(CellsOf(from, j), x * shape.keyDim, d, x < shape.keyHeads)
<1> DEFINE T == Delta!Threads("normalize", shape, tokens)
           base(b) == Delta!VectorBase(shape, b)
           value(b, i) == Delta!Unit(work, base(b), shape.keyDim, i - base(b), Delta!IsQuery(shape, b))
           W == [b \in T |-> [i \in {base(b) + e : e \in DKeys} |-> value(b, i)]]
           u == VectorBlock(j, x)
           y == x * shape.keyDim
           at == Delta!Conv(shape, j, y + d)
<1>0. DeltaCallOK /\ tokens \in Nat /\ tokens <= DeltaTokens /\ DOMAIN work = WorkFloats
      /\ DKeys \subseteq Int
  BY DeltaNumbers DEF DeltaGiven, DKeys
<1>1. work' = Delta!Written(work, W)
  BY DEF Delta!Normalize, Delta!Over, DKeys
<1>2. /\ u \in T /\ Delta!IsQuery(shape, u) = (x < shape.keyHeads) /\ base(u) \in Int
      /\ \A e \in DKeys : y + e \in Channels /\ base(u) + e = Delta!Conv(shape, j, y + e)
  BY <1>0, VectorPlace
<1>3. at \in WorkFloats
  BY <1>0, <1>2, ChannelPlace
<1>4. W[u][at] = value(u, at) /\ at \in DOMAIN W[u] /\ DOMAIN W = T
  <2>1. at \in {base(u) + e : e \in DKeys}
    BY <1>2
  <2> HIDE DEF at, u, value, base, T
  <2> QED BY <1>2, <2>1
<1>5. ASSUME NEW b \in DOMAIN W, at \in DOMAIN W[b] PROVE b = u
  <2>1. b \in T
    OBVIOUS
  <2>2. /\ Delta!Writes("normalize", shape, policy, tokens, b) = {<<"work", base(b) + e>> : e \in DKeys}
        /\ Delta!Writes("normalize", shape, policy, tokens, u) = {<<"work", base(u) + e>> : e \in DKeys}
    BY DeltaFloats DEF DKeys
  <2>3. \A e \in T : b # e => Apart("normalize", shape, policy, tokens, b, e)
    BY <1>0, <2>1, NormalizeApart DEF DeltaCallOK
  <2>4. at \in {base(b) + e : e \in DKeys} /\ at \in {base(u) + e : e \in DKeys}
    <3>1. at \in {base(u) + e : e \in DKeys}
      BY <1>2
    <3>2. at \in {base(b) + e : e \in DKeys}
      <4> HIDE DEF at, value, base
      <4> QED BY <1>5
    <3> QED BY <3>1, <3>2
  <2> HIDE DEF base, at, u, T
  <2>5. /\ <<"work", at>> \in Delta!Writes("normalize", shape, policy, tokens, b)
        /\ <<"work", at>> \in Delta!Writes("normalize", shape, policy, tokens, u)
    BY <2>2, <2>4
  <2> QED BY <1>2, <2>3, <2>5 DEF Apart
<1>6. work'[at] = value(u, at)
  <2>1. at \in DOMAIN work
    BY <1>0, <1>3
  <2> HIDE DEF W, at, u, value
  <2>2. Delta!Written(work, W)[at] = W[u][at]
    BY ONLY <1>2, <1>4, <1>5, <2>1, WrittenOnce
  <2> QED BY <1>1, <1>4, <2>2
<1>7. \A e \in DKeys : work[base(u) + e] = CellsOf(from, j)[y + e]
  BY <1>2 DEF ConvolvedIn
<1>8. at - base(u) = d
  <2>1. at = base(u) + d /\ d \in Int
    BY <1>0, <1>2
  <2> HIDE DEF at, base
  <2> QED BY <1>2, <2>1
<1>9. value(u, at) = <<"unit", work[base(u) + d], {work[base(u) + e] : e \in DKeys}, x < shape.keyHeads>>
  <2> HIDE DEF at, base, u
  <2> QED BY <1>2, <1>8 DEF Delta!Unit, DKeys
<1> HIDE DEF base, u, y
<1>10. {work[base(u) + e] : e \in DKeys} = {CellsOf(from, j)[y + e] : e \in DKeys}
  BY <1>7
<1> HIDE DEF value
<1> QED
  BY <1>6, <1>7, <1>9, <1>10 DEF Scaled, y

\* The channel of a value comes after the vectors.
ValueChannel(head, v) == 2 * Delta!KeySize(shape) + head * shape.valueDim + v

\* Values are channels that no vector has.
LEMMA ValuePlace ==
  ASSUME DeltaCallOK, NEW head \in DHeads, NEW v \in DValues
  PROVE  /\ ValueChannel(head, v) \in Channels /\ ValueChannel(head, v) >= 2 * Delta!KeySize(shape)
         /\ ValueChannel(head, v) \in Nat
<1> DEFINE K == Delta!KeySize(shape)
           V == Delta!ValueSize(shape)
           x == head * shape.valueDim
<1>1. /\ K \in Nat /\ V \in Nat /\ Delta!ConvDim(shape) = 2 * K + V
      /\ V = shape.valueHeads * shape.valueDim
      /\ shape.valueHeads \in Nat /\ shape.valueDim \in Nat
      /\ head \in 0..(shape.valueHeads - 1) /\ v \in 0..(shape.valueDim - 1)
  BY DeltaNumbers DEF DHeads, DValues
<1>2. x \in Nat /\ v \in Nat /\ x + v < V
  BY <1>1, Digits
<1> HIDE DEF K, V, x
<1>3. 2 * K + x + v \in 0..((2 * K + V) - 1) /\ 2 * K + x + v >= 2 * K /\ 2 * K + x + v \in Nat
  BY <1>1, <1>2
<1> QED
  BY <1>1, <1>3 DEF ValueChannel, Channels, K, x

\* The normalization leaves values as they are.
LEMMA ValuesStay ==
  ASSUME NEW from, DeltaGiven(from), ConvolvedIn(work, from), Delta!Normalize,
         NEW j \in Chunk, NEW c \in Channels, c >= 2 * Delta!KeySize(shape)
  PROVE  work'[Delta!Conv(shape, j, c)] = CellsOf(from, j)[c]
<1> DEFINE T == Delta!Threads("normalize", shape, tokens)
           base(b) == Delta!VectorBase(shape, b)
           value(b, i) == Delta!Unit(work, base(b), shape.keyDim, i - base(b), Delta!IsQuery(shape, b))
           W == [b \in T |-> [i \in {base(b) + e : e \in DKeys} |-> value(b, i)]]
           at == Delta!Conv(shape, j, c)
           D == Delta!ConvDim(shape)
           K == Delta!KeySize(shape)
           m == 2 * shape.keyHeads
<1>0. /\ DeltaCallOK /\ tokens \in Nat /\ tokens <= DeltaTokens /\ DOMAIN work = WorkFloats
      /\ D \in Nat \ {0} /\ K \in Nat /\ K = shape.keyHeads * shape.keyDim /\ DeltaFields(shape)
      /\ shape.keyHeads \in Nat \ {0} /\ shape.keyDim \in Nat
      /\ j \in Nat /\ c \in 0..(D - 1)
  <2>1. DeltaCallOK /\ tokens <= DeltaTokens /\ DOMAIN work = WorkFloats
    BY DEF DeltaGiven
  <2>2. tokens \in Nat
    BY <2>1, DeltaNumbers
  <2>3. j \in Nat /\ c \in 0..(D - 1)
    BY <2>2 DEF Chunk, Channels
  <2> QED BY <2>1, <2>2, <2>3, DeltaNumbers
<1>1. work' = Delta!Written(work, W)
  BY DEF Delta!Normalize, Delta!Over, DKeys
<1>2. at \in WorkFloats /\ at = j * D + c
  BY <1>0, ChannelPlace DEF Delta!Conv
<1>3. ASSUME NEW b \in T, NEW d \in DKeys PROVE base(b) + d # at
  <2> DEFINE token == b \div m
             x == b % m
             r == x * shape.keyDim + d
  <2>1. b \in 0..(tokens * 2 * shape.keyHeads - 1) /\ d \in 0..(shape.keyDim - 1)
    BY DEF Delta!Threads, DKeys
  <2>2. /\ token \in 0..(tokens - 1) /\ x \in 0..(m - 1) /\ r \in 0..(D - 1)
        /\ base(b) + d = token * D + r
    BY <1>0, <2>1, VectorCells
  <2>3. r < 2 * K
    <3>1. m \in Nat
      BY <1>0
    <3>2. r < m * shape.keyDim
      BY <1>0, <2>1, <2>2, <3>1, Digits
    <3>3. m * shape.keyDim = 2 * K
      BY <1>0, Multiplied
    <3> QED BY <3>2, <3>3
  <2>4. token \in Nat
    BY <1>0, <2>2
  <2> HIDE DEF token, x, r, D, base, K, at
  <2>5. SUFFICES ASSUME token * D + r = j * D + c PROVE FALSE
    BY <1>2, <2>2
  <2>6. r = c
    BY ONLY <1>0, <2>2, <2>4, <2>5, DigitsApart
  <2> QED BY <1>0, <2>2, <2>3, <2>6 DEF K
<1>4. \A b \in DOMAIN W : at \notin DOMAIN W[b]
  <2> HIDE DEF base, value, at, T
  <2> QED BY <1>3
<1>5. work'[at] = work[at]
  <2>1. at \in DOMAIN work
    BY <1>0, <1>2
  <2> HIDE DEF W, at
  <2> QED BY <1>1, <1>4, <2>1, WrittenNever
<1> QED
  BY <1>5 DEF ConvolvedIn

\* So queries and keys are normalized, each over its own vector.
LEMMA NormalizeRuns ==
  ASSUME NEW from, DeltaGiven(from), ConvolvedIn(work, from), Delta!Normalize
  PROVE  NormalizedIn(work', from) /\ DOMAIN work' = WorkFloats /\ output' = output /\ state' = state
<1>0. /\ DeltaCallOK /\ DOMAIN work = WorkFloats
      /\ shape.keyHeads \in Nat \ {0} /\ shape.keyDim \in Nat /\ shape.valueHeads \in Nat
      /\ Delta!KeySize(shape) = shape.keyHeads * shape.keyDim /\ Delta!KeySize(shape) \in Nat
  BY DeltaNumbers DEF DeltaGiven
<1>1. ASSUME NEW j \in Chunk, NEW head \in DHeads, NEW k \in DKeys
      PROVE  /\ work'[Delta!QueryCell(shape, j, head, k)] = Delta!Query(shape, CellsOf(from, j), head, k)
             /\ work'[Delta!KeyCell(shape, j, head, k)] = Delta!Key(shape, CellsOf(from, j), head, k)
  <2> DEFINE h == Delta!KeyHead(shape, head)
             H == shape.keyHeads
  <2>1. h \in 0..(H - 1) /\ h \in Nat
    BY <1>0 DEF Delta!KeyHead, DHeads
  <2>2. h \in KeyVectors /\ H + h \in KeyVectors /\ h < H /\ ~(H + h < H)
    BY <1>0, <2>1 DEF KeyVectors
  <2>3. (H + h) * shape.keyDim = Delta!KeySize(shape) + h * shape.keyDim
    <3>1. /\ (H + h) * shape.keyDim = shape.keyDim * (H + h)
          /\ shape.keyDim * (H + h) = shape.keyDim * H + shape.keyDim * h
          /\ shape.keyDim * H = H * shape.keyDim /\ shape.keyDim * h = h * shape.keyDim
      <4>1. H \in Int /\ h \in Int /\ shape.keyDim \in Int /\ H + h \in Int
        BY <1>0, <2>1
      <4> QED BY <4>1, Multiplied
    <3> QED BY <1>0, <3>1
  <2>4. /\ work'[Delta!Conv(shape, j, h * shape.keyDim + k)] =
             Scaled(CellsOf(from, j), h * shape.keyDim, k, TRUE)
        /\ work'[Delta!Conv(shape, j, (H + h) * shape.keyDim + k)] =
             Scaled(CellsOf(from, j), (H + h) * shape.keyDim, k, FALSE)
    <3>1. /\ work'[Delta!Conv(shape, j, h * shape.keyDim + k)] =
               Scaled(CellsOf(from, j), h * shape.keyDim, k, h < H)
          /\ work'[Delta!Conv(shape, j, (H + h) * shape.keyDim + k)] =
               Scaled(CellsOf(from, j), (H + h) * shape.keyDim, k, H + h < H)
      BY <2>2, VectorScaled
    <3>2. (h < H) = TRUE /\ (H + h < H) = FALSE
      BY <2>2
    <3> QED BY <3>1, <3>2
  <2>5. /\ Delta!QueryCell(shape, j, head, k) = Delta!Conv(shape, j, h * shape.keyDim + k)
        /\ Delta!KeyCell(shape, j, head, k) =
             Delta!Conv(shape, j, Delta!KeySize(shape) + h * shape.keyDim + k)
    BY DEF Delta!QueryCell, Delta!KeyCell
  <2>6. /\ Delta!Query(shape, CellsOf(from, j), head, k) =
             Scaled(CellsOf(from, j), h * shape.keyDim, k, TRUE)
        /\ Delta!Key(shape, CellsOf(from, j), head, k) =
             Scaled(CellsOf(from, j), Delta!KeySize(shape) + h * shape.keyDim, k, FALSE)
    BY DEF Delta!Query, Delta!Key, Delta!Unit, Scaled, DKeys
  <2> QED BY <2>3, <2>4, <2>5, <2>6
<1>2. ASSUME NEW j \in Chunk, NEW head \in DHeads, NEW v \in DValues
      PROVE  work'[Delta!ValueCell(shape, j, head, v)] = Delta!Value(shape, CellsOf(from, j), head, v)
  <2> DEFINE c == ValueChannel(head, v)
  <2>1. c \in Channels /\ c >= 2 * Delta!KeySize(shape)
    BY <1>0, ValuePlace
  <2>2. work'[Delta!Conv(shape, j, c)] = CellsOf(from, j)[c]
    BY <2>1, ValuesStay
  <2> QED BY <2>2 DEF Delta!ValueCell, Delta!Value, ValueChannel
<1>3. DOMAIN work' = WorkFloats /\ output' = output /\ state' = state
  BY <1>0 DEF Delta!Normalize, Delta!Written
<1> QED
  BY <1>1, <1>2, <1>3 DEF NormalizedIn

-----------------------------------------------------------------------------
(* Delta: the recurrence *)

\* Every column of every head has a thread, whichever kernel runs.
LEMMA ColumnServed ==
  ASSUME DeltaCallOK, NEW k_ \in Delta!Recurrent, NEW head \in DHeads, NEW v \in DValues
  PROVE  \E t \in Delta!Threads(k_, shape, tokens) :
           Delta!ColumnOf(k_, shape, t).head = head /\ Delta!ColumnOf(k_, shape, t).v = v
<1> DEFINE VD == shape.valueDim
           VH == shape.valueHeads
<1>1. /\ VD \in Nat \ {0} /\ VH \in Nat \ {0} /\ head \in 0..(VH - 1) /\ v \in 0..(VD - 1) /\ v \in Nat
      /\ v < VD /\ ValueTile \in Nat \ {0} /\ Columns \in Nat \ {0}
  <2>1. VD \in Nat \ {0} /\ VH \in Nat \ {0} /\ head \in 0..(VH - 1) /\ v \in 0..(VD - 1)
    BY DeltaNumbers DEF DHeads, DValues
  <2>2. ValueTile \in Nat \ {0} /\ Columns \in Nat \ {0}
    BY KernelAssumption DEF Delta!GridAssumption
  <2> HIDE DEF VD, VH
  <2>3. v \in Nat /\ v < VD
    BY <2>1
  <2> QED BY <2>1, <2>2, <2>3
<1>2. CASE k_ = "tiled"
  <2> DEFINE m == Delta!Blocks(VD, ValueTile)
             q == v \div ValueTile
             r == v % ValueTile
             b == head * m + q
             t == <<b, r>>
  <2>1. m \in Nat /\ q \in 0..(m - 1) /\ r \in 0..(ValueTile - 1) /\ v = (q * ValueTile) + r
    <3> HIDE DEF VD
    <3> QED BY <1>1, BlocksReach
  <2> HIDE DEF m, q, r
  <2>2. b \in Nat /\ b < VH * m /\ VH * m \in Nat /\ b \div m = head /\ b % m = q
    <3> HIDE DEF VH
    <3>1. head \in Nat /\ m \in Nat \ {0}
      BY <1>1, <2>1
    <3> QED BY <1>1, <2>1, <3>1, Digits, DivisionUnique
  <2>3. b \in 0..(VH * m - 1)
    <3> DEFINE p == VH * m
    <3>1. b \in Nat /\ b < p /\ p \in Nat
      BY <2>2
    <3> HIDE DEF p, b
    <3>2. b \in 0..(p - 1)
      BY <3>1
    <3> QED BY <3>2 DEF p
  <2>4. Delta!ColumnOf(k_, shape, t) = [head |-> b \div m, v |-> (b % m) * ValueTile + r]
    BY <1>2 DEF Delta!ColumnOf, Delta!TileColumn, m
  <2>5. Delta!ColumnOf(k_, shape, t).head = head /\ Delta!ColumnOf(k_, shape, t).v = v
    <3> HIDE DEF t, b
    <3> QED BY <2>1, <2>2, <2>4
  <2>6. Delta!Threads(k_, shape, tokens) =
          {x \in (0..(VH * m - 1)) \X (0..(ValueTile - 1)) : Delta!ColumnOf(k_, shape, x).v < VD}
    BY <1>2 DEF Delta!Threads, m
  <2>7. t \in Delta!Threads(k_, shape, tokens)
    <3>1. t \in (0..(VH * m - 1)) \X (0..(ValueTile - 1))
      BY <2>1, <2>3
    <3> HIDE DEF t, VH, VD
    <3> QED BY <1>1, <2>5, <2>6, <3>1
  <2> QED BY <2>5, <2>7
<1>3. CASE k_ \in {"register", "register_128"}
  <2> DEFINE m == Delta!Blocks(VD, Columns)
             q == v \div Columns
             r == v % Columns
             t == <<head, q, r>>
  <2>1. m \in Nat /\ q \in 0..(m - 1) /\ r \in 0..(Columns - 1) /\ v = (q * Columns) + r
    <3> HIDE DEF VD
    <3> QED BY <1>1, BlocksReach
  <2> HIDE DEF m, q, r
  <2>2. Delta!ColumnOf(k_, shape, t) = [head |-> head, v |-> q * Columns + r]
    BY <1>3 DEF Delta!ColumnOf
  <2>3. Delta!ColumnOf(k_, shape, t).head = head /\ Delta!ColumnOf(k_, shape, t).v = v
    <3> HIDE DEF t
    <3> QED BY <2>1, <2>2
  <2>4. Delta!Threads(k_, shape, tokens) =
          {x \in (0..(VH - 1)) \X (0..(m - 1)) \X (0..(Columns - 1)) : Delta!ColumnOf(k_, shape, x).v < VD}
    BY <1>3 DEF Delta!Threads, m
  <2>5. t \in Delta!Threads(k_, shape, tokens)
    <3>1. t \in (0..(VH - 1)) \X (0..(m - 1)) \X (0..(Columns - 1))
      BY <1>1, <2>1
    <3> HIDE DEF t, VH, VD
    <3> QED BY <1>1, <2>3, <2>4, <3>1
  <2> QED BY <2>3, <2>5
<1> QED
  BY <1>2, <1>3 DEF Delta!Recurrent

\* Where a float of the recurrent state is.
RecurrentCell(head, k, v) == Delta!StateCell(shape, head, k, v)
StateFloats == 0..(Delta!ValueSize(shape) * shape.keyDim - 1)

\* A cell of the state gives away its head, key and value.
LEMMA RecurrentPlace ==
  ASSUME DeltaCallOK, NEW head \in DHeads, NEW k \in DKeys, NEW v \in DValues
  PROVE  /\ RecurrentCell(head, k, v) \in StateFloats
         /\ Delta!RecurrentAt(shape, head, k, v) = RecurrentCell(head, k, v)
         /\ RecurrentCell(head, k, v) \div (shape.keyDim * shape.valueDim) = head
         /\ (RecurrentCell(head, k, v) \div shape.valueDim) % shape.keyDim = k
         /\ RecurrentCell(head, k, v) % shape.valueDim = v
<1> DEFINE i == RecurrentCell(head, k, v)
           x == (head * shape.keyDim + k) * shape.valueDim + v
           m == Delta!ValueSize(shape) * shape.keyDim
<1>1. /\ head \in 0..(shape.valueHeads - 1) /\ k \in 0..(shape.keyDim - 1) /\ v \in 0..(shape.valueDim - 1)
      /\ shape.valueHeads \in Nat /\ shape.keyDim \in Nat /\ shape.valueDim \in Nat
      /\ DeltaFields(shape) /\ Delta!ValueSize(shape) \in Nat
  BY DeltaNumbers DEF DHeads, DKeys, DValues
<1>2. i = x /\ i < m
  BY <1>1, StateCells DEF RecurrentCell
<1>3. Spelled(x, shape.valueHeads, shape.keyDim, shape.valueDim, head, k, v)
  BY <1>1, ThreeDigits
<1>4. m \in Nat
  BY <1>1, SMT
<1> HIDE DEF x, m, i
<1>5. i \in Nat /\ i \in 0..(m - 1)
  BY <1>2, <1>3, <1>4 DEF Spelled
<1>6. /\ i \div (shape.keyDim * shape.valueDim) = head
      /\ (i \div shape.valueDim) % shape.keyDim = k /\ i % shape.valueDim = v
  BY <1>2, <1>3 DEF Spelled
<1>7. Delta!RecurrentAt(shape, head, k, v) = i
  BY <1>2 DEF Delta!RecurrentAt, x
<1> QED
  BY <1>5, <1>6, <1>7 DEF i, m, StateFloats

\* There is nothing else there.
LEMMA RecurrentFills ==
  ASSUME DeltaCallOK, NEW i \in StateFloats
  PROVE  \E head \in DHeads, k \in DKeys, v \in DValues : i = RecurrentCell(head, k, v)
<1> DEFINE VH == shape.valueHeads
           KD == shape.keyDim
           VD == shape.valueDim
           m == Delta!ValueSize(shape) * shape.keyDim
           r == i \div VD
           v == i % VD
           head == r \div KD
           k == r % KD
<1>1. /\ VH \in Nat \ {0} /\ KD \in Nat \ {0} /\ VD \in Nat \ {0}
      /\ DeltaFields(shape) /\ Delta!ValueSize(shape) = VH * VD
  BY DeltaNumbers
<1>2. m = (VH * KD) * VD /\ VH * KD \in Nat /\ m \in Nat
  <2>1. (VH * VD) * KD = VH * (VD * KD) /\ VD * KD = KD * VD /\ (VH * KD) * VD = VH * (KD * VD)
    BY <1>1, Multiplied
  <2>2. VH * KD \in Nat /\ (VH * VD) * KD \in Nat
    BY <1>1, SMT
  <2> QED BY <1>1, <2>1, <2>2
<1>3. i \in Nat /\ i < m
  BY <1>2 DEF StateFloats
<1> HIDE DEF VH, KD, VD, m
<1>4. r \in 0..(VH * KD - 1) /\ v \in 0..(VD - 1) /\ i = r * VD + v
  BY <1>1, <1>2, <1>3, DigitsOf
<1> HIDE DEF r, v
<1>5. head \in 0..(VH - 1) /\ k \in 0..(KD - 1) /\ r = head * KD + k
  <2>1. r \in Nat /\ r < VH * KD
    BY <1>2, <1>4
  <2> QED BY <1>1, <2>1, DigitsOf
<1> HIDE DEF head, k
<1>6. head \in DHeads /\ k \in DKeys /\ v \in DValues
  BY <1>4, <1>5 DEF DHeads, DKeys, DValues, VH, KD, VD
<1>7. RecurrentCell(head, k, v) = (head * KD + k) * VD + v
  BY <1>1, <1>6, StateCells DEF RecurrentCell, DHeads, DKeys, DValues, KD, VD
<1> QED
  BY <1>4, <1>5, <1>6, <1>7

\* No two channels of a token are convolved to the same.
LEMMA WindowsDiffer ==
  ASSUME DeltaCallOK, fed \in Nat, NEW from, StateOver(from), NEW j \in Nat,
         NEW c \in Channels, NEW d \in Channels, CellsOf(from, j)[c] = CellsOf(from, j)[d]
  PROVE  c = d
<1> DEFINE w == shape.width
           x(e) == [h \in 1..w |-> Delta!Past(from.convolution, e, j + h - 1)]
<1>1. w \in Nat \ {0}
  BY DeltaNumbers
<1>2. <<"window", x(c)>> = <<"window", x(d)>>
  <2>1. Window(from.convolution, c, j) = Window(from.convolution, d, j)
    BY CellsAreWindows
  <2> QED BY <2>1 DEF Window
<1>3. x(c)[w] = x(d)[w]
  <2> HIDE DEF x
  <2> QED BY <1>2
<1>4. j + w - 1 = j + (w - 1) /\ w \in 1..w
  BY <1>1
<1>5. \A e : x(e)[w] = <<"in", fed + 1 + j, e>>
  BY <1>4, PastIs DEF Delta!Input
<1> HIDE DEF x
<1>6. <<"in", fed + 1 + j, c>> = <<"in", fed + 1 + j, d>>
  BY <1>3, <1>5
<1> QED
  BY <1>6

\* So no two places of a key, or of a query, hold the same.
LEMMA KeysDiffer ==
  ASSUME DeltaCallOK, fed \in Nat, NEW from, StateOver(from), NEW j \in Nat,
         NEW head \in DHeads, NEW k \in DKeys, NEW i \in DKeys,
         \/ Delta!Key(shape, CellsOf(from, j), head, k) = Delta!Key(shape, CellsOf(from, j), head, i)
         \/ Delta!Query(shape, CellsOf(from, j), head, k) = Delta!Query(shape, CellsOf(from, j), head, i)
  PROVE  k = i
<1> DEFINE h == Delta!KeyHead(shape, head)
           K == Delta!KeySize(shape)
           H == shape.keyHeads
           y == h * shape.keyDim
           cells_ == CellsOf(from, j)
<1>1. /\ H \in Nat \ {0} /\ shape.keyDim \in Nat /\ K = H * shape.keyDim /\ K \in Nat
      /\ Delta!ConvDim(shape) = 2 * K + Delta!ValueSize(shape) /\ Delta!ValueSize(shape) \in Nat
  BY DeltaNumbers
<1>2. h \in 0..(H - 1)
  <2>1. shape.valueHeads \in Nat
    BY DeltaNumbers
  <2> QED BY <1>1, <2>1 DEF Delta!KeyHead, DHeads
<1>3. y \in Nat /\ k \in Nat /\ i \in Nat /\ y + k < K /\ y + i < K
  <2>1. k \in 0..(shape.keyDim - 1) /\ i \in 0..(shape.keyDim - 1) /\ H \in Nat
    BY <1>1 DEF DKeys
  <2> HIDE DEF h
  <2> QED BY <1>1, <1>2, <2>1, Digits
<1> HIDE DEF y, K
<1>4. y + k \in Channels /\ y + i \in Channels /\ K + y + k \in Channels /\ K + y + i \in Channels
  BY <1>1, <1>3 DEF Channels
<1>5. CASE Delta!Key(shape, cells_, head, k) = Delta!Key(shape, cells_, head, i)
  <2>1. \A e : Delta!Key(shape, cells_, head, e) =
                 <<"unit", cells_[K + y + e], {cells_[K + y + g] : g \in DKeys}, FALSE>>
    BY DEF Delta!Key, Delta!Unit, DKeys, y, K
  <2> HIDE DEF cells_
  <2> DEFINE all == {cells_[K + y + g] : g \in DKeys}
             a == cells_[K + y + k]
             b == cells_[K + y + i]
  <2>4. <<"unit", a, all, FALSE>> = <<"unit", b, all, FALSE>>
    BY <1>5, <2>1
  <2>2. a = b
    <3> HIDE DEF a, b, all
    <3> QED BY <2>4
  <2>3. K + y + k = K + y + i
    BY <1>4, <2>2, WindowsDiffer DEF cells_
  <2> QED BY <1>1, <1>3, <2>3
<1>6. CASE Delta!Query(shape, cells_, head, k) = Delta!Query(shape, cells_, head, i)
  <2>1. \A e : Delta!Query(shape, cells_, head, e) =
                 <<"unit", cells_[y + e], {cells_[y + g] : g \in DKeys}, TRUE>>
    BY DEF Delta!Query, Delta!Unit, DKeys, y
  <2> HIDE DEF cells_
  <2> DEFINE all == {cells_[y + g] : g \in DKeys}
             a == cells_[y + k]
             b == cells_[y + i]
  <2>4. <<"unit", a, all, TRUE>> = <<"unit", b, all, TRUE>>
    BY <1>6, <2>1
  <2>2. a = b
    <3> HIDE DEF a, b, all
    <3> QED BY <2>4
  <2>3. y + k = y + i
    BY <1>4, <2>2, WindowsDiffer DEF cells_
  <2> QED BY <1>1, <1>3, <2>3
<1> QED
  BY <1>5, <1>6

\* What the state of a head holds in column v, by key, after j tokens.
ColumnAt(from, head, v, j) ==
  [k \in DKeys |-> After(from, j).state.recurrent[RecurrentCell(head, k, v)]]

\* The terms of what it recalls under the key of the next token, and what is
\* appended then.
Recalled(from, head, v, j) ==
  [k \in DKeys |-> <<Len(ColumnAt(from, head, v, j)[k]), Delta!Key(shape, CellsOf(from, j), head, k)>>]
Told(from, head, v, j, k) ==
  <<Delta!Key(shape, CellsOf(from, j), head, k), Delta!Value(shape, CellsOf(from, j), head, v),
    Delta!Input(fed + 1 + j, Delta!ConvDim(shape) + head),
    Delta!Input(fed + 1 + j, Delta!ConvDim(shape) + shape.valueHeads + head),
    Delta!SetToBag({Recalled(from, head, v, j)[i] : i \in DKeys})>>

\* A token appends to every float of a column.
LEMMA ColumnGrows ==
  ASSUME DeltaCallOK, fed \in Nat, NEW from, StateOver(from), NEW j \in Nat,
         NEW head \in DHeads, NEW v \in DValues, NEW k \in DKeys
  PROVE  UpdatedOf(from, j)[RecurrentCell(head, k, v)] =
           Append(ColumnAt(from, head, v, j)[k], Told(from, head, v, j, k))
<1> DEFINE s == After(from, j).state
           cells_ == CellsOf(from, j)
           t == fed + 1 + j
           i == RecurrentCell(head, k, v)
           R(e) == Delta!RecurrentAt(shape, head, e, v)
<1>1. DOMAIN s.recurrent = StateFloats
  <2>1. StateOver(s)
    BY AfterIsState
  <2> HIDE DEF s
  <2> QED BY <2>1 DEF StateOver, StateFloats
<1>2. /\ i \in StateFloats /\ i \div (shape.keyDim * shape.valueDim) = head
      /\ (i \div shape.valueDim) % shape.keyDim = k /\ i % shape.valueDim = v
  BY RecurrentPlace
<1>3. \A e \in DKeys : R(e) = RecurrentCell(head, e, v)
  BY RecurrentPlace
<1> HIDE DEF s, cells_, t, i
<1>4. UpdatedOf(from, j)[i] =
        Append(s.recurrent[i],
          <<Delta!Key(shape, cells_, head, k), Delta!Value(shape, cells_, head, v),
            Delta!Input(t, Delta!ConvDim(shape) + head),
            Delta!Input(t, Delta!ConvDim(shape) + shape.valueHeads + head),
            Delta!SetToBag({<<Len(s.recurrent[R(e)]), Delta!Key(shape, cells_, head, e)>> : e \in DKeys})>>)
  <2>1. UpdatedOf(from, j) = Delta!Updated(shape, s, cells_, t)
    BY DEF UpdatedOf, s, cells_, t
  <2> QED BY <1>1, <1>2, <2>1 DEF Delta!Updated, DKeys
<1>5. {<<Len(s.recurrent[R(e)]), Delta!Key(shape, cells_, head, e)>> : e \in DKeys} =
        {Recalled(from, head, v, j)[e] : e \in DKeys}
  <2>1. \A e \in DKeys : Recalled(from, head, v, j)[e] =
                           <<Len(s.recurrent[RecurrentCell(head, e, v)]), Delta!Key(shape, cells_, head, e)>>
    BY DEF Recalled, ColumnAt, s, cells_
  <2> HIDE DEF R
  <2> QED BY <1>3, <2>1
<1>6. ColumnAt(from, head, v, j)[k] = s.recurrent[i]
  BY DEF ColumnAt, s, i
<1> QED
  BY <1>4, <1>5, <1>6 DEF Told, cells_, t, i

\* The keys of a column are added whole.
LEMMA SumOverKeys ==
  ASSUME shape.keyDim \in Nat, NEW k_, NEW terms, DOMAIN terms = DKeys,
         \A i, k \in DKeys : terms[i] = terms[k] => i = k
  PROVE  Delta!SumOf(k_, terms) = AllOf(terms)
BY SumIsAll DEF DKeys

\* What a thread with a column has of it is what the reference has.
LEMMA ColumnIsAt ==
  ASSUME DeltaCallOK, fed \in Nat, NEW from, StateOver(from), state.recurrent = from.recurrent,
         NormalizedIn(work, from), NEW k_, NEW n \in 0..tokens,
         NEW c, c.head \in DHeads, c.v \in DValues
  PROVE  Delta!Column(k_, c, n) = ColumnAt(from, c.head, c.v, n)
<1> DEFINE first == [k \in DKeys |-> state.recurrent[RecurrentCell(c.head, k, c.v)]]
           Memory(f, i) == Delta!SumOf(k_, [k \in DKeys |->
                             <<Len(f[i - 1][k]), work[Delta!KeyCell(shape, i - 1, c.head, k)]>>])
           Next_(f, i) == [k \in DKeys |-> Append(f[i - 1][k],
                   <<work[Delta!KeyCell(shape, i - 1, c.head, k)],
                     work[Delta!ValueCell(shape, i - 1, c.head, c.v)],
                     Delta!Packed(i - 1, Delta!ConvDim(shape) + c.head),
                     Delta!Packed(i - 1, Delta!ConvDim(shape) + shape.valueHeads + c.head), Memory(f, i)>>)]
           column == CHOOSE f : f = [i \in 0..n |-> IF i = 0 THEN first ELSE Next_(f, i)]
           At(i) == ColumnAt(from, c.head, c.v, i)
           f_ == [i \in 0..n |-> At(i)]
<1>0. tokens \in Nat /\ n \in Nat /\ shape.keyDim \in Nat /\ DKeys = 0..(shape.keyDim - 1)
      /\ \A i \in 1..n : i - 1 \in Chunk /\ i - 1 \in Nat /\ (i - 1) + 1 = i /\ fed + (i - 1) + 1 = fed + 1 + (i - 1)
  <2>1. tokens \in Nat /\ shape.keyDim \in Nat
    BY DeltaNumbers
  <2> QED BY <2>1 DEF DKeys, Chunk
<1>1. Delta!Column(k_, c, n) = column[n]
  BY DEF Delta!Column, DKeys, RecurrentCell
<1>2. At(0) = first
  <2>1. After(from, 0).state = from
    BY AfterSteps
  <2> QED BY <2>1 DEF ColumnAt
<1>3. ASSUME NEW i \in 1..n, NEW f, f[i - 1] = At(i - 1)
      PROVE  Next_(f, i) = At(i)
  <2> DEFINE j == i - 1
             terms == [k \in DKeys |-> <<Len(f[j][k]), work[Delta!KeyCell(shape, j, c.head, k)]>>]
             terms2 == Recalled(from, c.head, c.v, j)
  <2>1. j \in Chunk /\ j \in Nat /\ j + 1 = i /\ fed + j + 1 = fed + 1 + j /\ f[j] = At(j)
    BY <1>0, <1>3
  <2>2. /\ \A k \in DKeys : work[Delta!KeyCell(shape, j, c.head, k)] =
                              Delta!Key(shape, CellsOf(from, j), c.head, k)
        /\ work[Delta!ValueCell(shape, j, c.head, c.v)] =
             Delta!Value(shape, CellsOf(from, j), c.head, c.v)
    BY <2>1 DEF NormalizedIn
  <2>3. \A e : Delta!Packed(j, e) = Delta!Input(fed + 1 + j, e)
    BY <2>1 DEF Delta!Packed
  <2>4. terms = terms2
    <3> HIDE DEF j
    <3> QED BY <2>1, <2>2 DEF Recalled
  <2>5. DOMAIN terms = 0..(shape.keyDim - 1)
    BY <1>0
  <2>6. ASSUME NEW k \in 0..(shape.keyDim - 1), NEW e \in 0..(shape.keyDim - 1), terms[k] = terms[e]
        PROVE  k = e
    <3>1. k \in DKeys /\ e \in DKeys
      BY <1>0
    <3>2. <<Len(At(j)[k]), Delta!Key(shape, CellsOf(from, j), c.head, k)>> =
          <<Len(At(j)[e]), Delta!Key(shape, CellsOf(from, j), c.head, e)>>
      <4>1. terms2[k] = terms2[e]
        BY <2>4, <2>6
      <4> HIDE DEF j
      <4> QED BY <3>1, <4>1 DEF Recalled
    <3>3. Delta!Key(shape, CellsOf(from, j), c.head, k) = Delta!Key(shape, CellsOf(from, j), c.head, e)
      BY <3>2
    <3> HIDE DEF j
    <3> QED BY <2>1, <3>1, <3>3, KeysDiffer
  <2>7. Memory(f, i) = Delta!SetToBag({terms2[k] : k \in DKeys})
    <3>1. Memory(f, i) = Delta!SumOf(k_, terms)
      OBVIOUS
    <3>2. Delta!SumOf(k_, terms) = AllOf(terms)
      <4>1. DOMAIN terms = DKeys /\ \A k, e \in DKeys : terms[k] = terms[e] => k = e
        BY <1>0, <2>5, <2>6
      <4> HIDE DEF terms
      <4> QED BY ONLY <1>0, <4>1, SumOverKeys
    <3>3. AllOf(terms2) = Delta!SetToBag({terms2[k] : k \in DKeys})
      <4>1. DOMAIN terms2 = DKeys
        BY DEF Recalled
      <4> HIDE DEF terms2
      <4> QED BY <4>1 DEF AllOf
    <3> HIDE DEF terms, terms2, Memory
    <3> QED BY <2>4, <3>1, <3>2, <3>3
  <2>8. ASSUME NEW k \in DKeys PROVE Next_(f, i)[k] = At(i)[k]
    <3>1. Next_(f, i)[k] = Append(At(j)[k], Told(from, c.head, c.v, j, k))
      <4>1. Next_(f, i)[k] =
              Append(f[j][k], <<work[Delta!KeyCell(shape, j, c.head, k)],
                work[Delta!ValueCell(shape, j, c.head, c.v)],
                Delta!Packed(j, Delta!ConvDim(shape) + c.head),
                Delta!Packed(j, Delta!ConvDim(shape) + shape.valueHeads + c.head), Memory(f, i)>>)
        <5> HIDE DEF Memory
        <5> QED OBVIOUS
      <4> HIDE DEF Memory, j, Next_
      <4> QED BY <2>1, <2>2, <2>3, <2>7, <4>1 DEF Told
    <3>2. UpdatedOf(from, j)[RecurrentCell(c.head, k, c.v)] = Append(At(j)[k], Told(from, c.head, c.v, j, k))
      <4> HIDE DEF j
      <4> QED BY <2>1, ColumnGrows
    <3>3. After(from, i).state.recurrent = UpdatedOf(from, j)
      <4> DEFINE t == After(from, j + 1).state
      <4>1. t = [convolution |-> Delta!Remembered(shape, After(from, j).state, fed + 1 + j),
                 recurrent |-> UpdatedOf(from, j)]
        <5> HIDE DEF j
        <5> QED BY <2>1, AfterSteps
      <4> HIDE DEF t, j
      <4>2. t.recurrent = UpdatedOf(from, j)
        BY <4>1
      <4> QED BY <2>1, <4>2 DEF t
    <3>4. At(i)[k] = After(from, i).state.recurrent[RecurrentCell(c.head, k, c.v)]
      BY DEF ColumnAt
    <3> HIDE DEF Next_, j
    <3> QED BY <3>1, <3>2, <3>3, <3>4
  <2>9. Next_(f, i) = [k \in DKeys |-> Next_(f, i)[k]] /\ At(i) = [k \in DKeys |-> At(i)[k]]
    BY DEF ColumnAt
  <2> HIDE DEF Next_, At
  <2> QED BY <2>8, <2>9
<1> HIDE DEF Next_, At, first
<1>4. f_ = [i \in 0..n |-> IF i = 0 THEN first ELSE Next_(f_, i)]
  <2>1. ASSUME NEW i \in 0..n PROVE At(i) = IF i = 0 THEN first ELSE Next_(f_, i)
    <3>1. CASE i = 0
      BY <1>2, <3>1
    <3>2. CASE i # 0
      <4>1. i \in 1..n /\ i - 1 \in 0..n
        BY <1>0, <3>2
      <4>2. f_[i - 1] = At(i - 1)
        BY <4>1
      <4> HIDE DEF f_
      <4> QED BY <1>3, <3>2, <4>1, <4>2
    <3> QED BY <3>1, <3>2
  <2>2. f_ = [i \in 0..n |-> At(i)]
    OBVIOUS
  <2> HIDE DEF f_
  <2> QED BY <2>1, <2>2
<1> HIDE DEF f_
<1>5. column = [i \in 0..n |-> IF i = 0 THEN first ELSE Next_(column, i)]
  BY <1>4
<1> HIDE DEF column
<1> DEFINE P == {i \in 0..n : column[i] = At(i)}
<1>6. 0 \in P
  <2>1. 0 \in 0..n
    BY <1>0
  <2> QED BY <1>2, <1>5, <2>1
<1>7. ASSUME NEW i \in 1..n, i - 1 \in P PROVE i \in P
  <2>1. i \in 0..n /\ i # 0
    BY <1>0
  <2>2. column[i] = Next_(column, i)
    BY <1>5, <2>1
  <2>3. column[i - 1] = At(i - 1)
    BY <1>7
  <2> QED BY <1>3, <2>1, <2>2, <2>3
<1>8. column[n] = At(n)
  <2> HIDE DEF P
  <2>1. \A i \in 0..n : i \in P
    BY ONLY <1>0, <1>6, <1>7, BoundedInduction
  <2>2. n \in 0..n
    BY <1>0
  <2>3. n \in P
    BY <2>1, <2>2
  <2> QED BY <2>3 DEF P
<1> QED
  BY <1>1, <1>8 DEF At

\* And what it makes of it is the reference's.
LEMMA RawIsAt ==
  ASSUME DeltaCallOK, fed \in Nat, NEW from, StateOver(from), state.recurrent = from.recurrent,
         NormalizedIn(work, from), NEW k_, NEW j \in Chunk,
         NEW c, c.head \in DHeads, c.v \in DValues
  PROVE  Delta!Raw(k_, c, j) = RawAt(from, j, c.head, c.v)
<1> DEFINE column == Delta!Column(k_, c, j + 1)
           terms == [k \in DOMAIN column |->
                      <<Len(column[k]), work[Delta!QueryCell(shape, j, c.head, k)]>>]
           updated == UpdatedOf(from, j)
           cells_ == CellsOf(from, j)
           Term(k) == <<Len(updated[Delta!RecurrentAt(shape, c.head, k, c.v)]),
                        Delta!Query(shape, cells_, c.head, k)>>
<1>0. /\ tokens \in Nat /\ shape.keyDim \in Nat /\ DKeys = 0..(shape.keyDim - 1)
      /\ j \in Nat /\ j + 1 \in 0..tokens
  <2>1. tokens \in Nat /\ shape.keyDim \in Nat
    BY DeltaNumbers
  <2> QED BY <2>1 DEF DKeys, Chunk
<1>1. Delta!Raw(k_, c, j) = <<"raw", Delta!SumOf(k_, terms)>>
  BY DEF Delta!Raw
<1>2. column = ColumnAt(from, c.head, c.v, j + 1)
  BY <1>0, ColumnIsAt
<1>3. After(from, j + 1).state.recurrent = updated
  <2> DEFINE t == After(from, j + 1).state
  <2>1. t = [convolution |-> Delta!Remembered(shape, After(from, j).state, fed + 1 + j),
             recurrent |-> UpdatedOf(from, j)]
    BY <1>0, AfterSteps
  <2> HIDE DEF t
  <2>2. t.recurrent = UpdatedOf(from, j)
    BY <2>1
  <2> QED BY <2>2 DEF t
<1>4. DOMAIN column = DKeys
  BY <1>2 DEF ColumnAt
<1> HIDE DEF updated, cells_
<1>5. \A k \in DKeys : column[k] = updated[Delta!RecurrentAt(shape, c.head, k, c.v)]
  <2>1. \A k \in DKeys : column[k] = updated[RecurrentCell(c.head, k, c.v)]
    BY <1>2, <1>3 DEF ColumnAt
  <2> HIDE DEF column
  <2> QED BY <2>1, RecurrentPlace
<1>6. \A k \in DKeys : work[Delta!QueryCell(shape, j, c.head, k)] = Delta!Query(shape, cells_, c.head, k)
  BY DEF NormalizedIn, cells_
<1> HIDE DEF column
<1>7. DOMAIN terms = DKeys
  BY <1>4
<1>8. \A k \in DKeys : terms[k] = Term(k)
  BY <1>4, <1>5, <1>6
<1> HIDE DEF terms
<1>9. ASSUME NEW k \in DKeys, NEW e \in DKeys, terms[k] = terms[e] PROVE k = e
  <2>1. Term(k) = Term(e)
    BY <1>8, <1>9
  <2>2. Delta!Query(shape, cells_, c.head, k) = Delta!Query(shape, cells_, c.head, e)
    BY <2>1
  <2> HIDE DEF Term
  <2> QED BY <1>0, <2>2, KeysDiffer DEF cells_
<1>10. Delta!SumOf(k_, terms) = AllOf(terms)
  BY ONLY <1>0, <1>7, <1>9, SumOverKeys
<1>11. AllOf(terms) = Delta!SetToBag({Term(k) : k \in DKeys})
  <2>1. {terms[k] : k \in DKeys} = {Term(k) : k \in DKeys}
    <3> HIDE DEF Term
    <3> QED BY <1>8
  <2> HIDE DEF Term
  <2> QED BY <1>7, <2>1 DEF AllOf
<1>12. RawAt(from, j, c.head, c.v) = <<"raw", Delta!SetToBag({Term(k) : k \in DKeys})>>
  BY DEF RawAt, Delta!RawOf, DKeys, updated, cells_
<1> HIDE DEF Term
<1> QED
  BY <1>1, <1>10, <1>11, <1>12

\* Where a raw output of the chunk is.
LEMMA RawPlace ==
  ASSUME DeltaCallOK, tokens <= DeltaTokens, NEW j \in Chunk, NEW head \in DHeads, NEW v \in DValues
  PROVE  /\ Delta!RawCell(shape, tokens, j, head, v) \in WorkFloats
         /\ Delta!RawCell(shape, tokens, j, head, v) =
              Delta!RawCell(shape, tokens, 0, head, v) + j * Delta!ValueSize(shape)
         /\ (Delta!RawCell(shape, tokens, j, head, v) - Delta!RawCell(shape, tokens, 0, head, v))
              \div Delta!ValueSize(shape) = j
<1> DEFINE D == Delta!ConvDim(shape)
           V == Delta!ValueSize(shape)
           H == shape.hidden
           x == head * shape.valueDim + v
           R(i) == Delta!RawCell(shape, tokens, i, head, v)
<1>1. /\ tokens \in Nat /\ DeltaTokens \in Nat /\ D \in Nat /\ V \in Nat \ {0} /\ H \in Nat
      /\ DeltaFields(shape) /\ j \in 0..(tokens - 1) /\ 0 \in 0..(tokens - 1) /\ j \in Nat
  <2>1. tokens \in Nat /\ DeltaTokens \in Nat /\ D \in Nat /\ V \in Nat \ {0} /\ H \in Nat /\ DeltaFields(shape)
    BY DeltaNumbers
  <2>2. j \in 0..(tokens - 1) /\ 0 \in 0..(tokens - 1) /\ j \in Nat
    BY <2>1 DEF Chunk
  <2> QED BY <2>1, <2>2
<1>2. /\ x \in 0..(V - 1) /\ tokens * D \in Nat /\ j * V \in Nat /\ 0 * V \in Nat
      /\ R(j) = tokens * D + (j * V + x) /\ R(0) = tokens * D + (0 * V + x)
      /\ R(j) < tokens * (D + H)
  <2>1. ASSUME NEW i \in 0..(tokens - 1)
        PROVE  /\ x \in 0..(V - 1) /\ tokens * D \in Nat /\ i * V \in Nat
               /\ R(i) = tokens * D + (i * V + x) /\ R(i) < tokens * (D + H)
    <3>1. head \in 0..(shape.valueHeads - 1) /\ v \in 0..(shape.valueDim - 1)
      BY DEF DHeads, DValues
    <3> QED BY <1>1, <3>1, RawCells
  <2> HIDE DEF x, R, V, D
  <2> QED BY <1>1, <2>1
<1>3. 0 * V = 0
  BY <1>1
<1>4. tokens * (D + H) <= DeltaTokens * (D + H) /\ tokens * (D + H) \in Nat /\ DeltaTokens * (D + H) \in Nat
  <2> DEFINE s == D + H
  <2>1. s \in Nat
    BY <1>1
  <2> HIDE DEF s
  <2>2. s * tokens <= s * DeltaTokens /\ s * tokens \in Nat /\ s * DeltaTokens \in Nat
    BY <1>1, <2>1, Grows
  <2>3. s * tokens = tokens * s /\ s * DeltaTokens = DeltaTokens * s
    BY <1>1, <2>1, Multiplied
  <2>4. tokens * s <= DeltaTokens * s /\ tokens * s \in Nat /\ DeltaTokens * s \in Nat
    BY <2>2, <2>3
  <2> QED BY <2>4 DEF s
<1> HIDE DEF R, x
<1>5. R(j) \in WorkFloats
  <2> DEFINE m == DeltaTokens * (D + H)
             p == tokens * (D + H)
  <2>1. R(j) \in Nat /\ R(j) < p /\ p <= m /\ p \in Nat /\ m \in Nat
    BY <1>1, <1>2, <1>4
  <2> HIDE DEF m, p
  <2>2. R(j) \in 0..(m - 1)
    BY <2>1
  <2> QED BY <2>2 DEF m, WorkFloats
<1>6. R(j) = R(0) + j * V /\ R(j) - R(0) = j * V
  BY <1>1, <1>2, <1>3
<1>7. (j * V) \div V = j
  <2>1. 0 \in 0..(V - 1) /\ j * V + 0 = j * V
    BY <1>1, <1>2
  <2>2. (j * V + 0) \div V = j
    BY <1>1, <2>1, DivisionUnique
  <2> QED BY <2>1, <2>2
<1> QED
  BY <1>5, <1>6, <1>7 DEF R

\* Only one thread has a float of the state, or of the raw outputs.
LEMMA ColumnsApart ==
  ASSUME DeltaCallOK, tokens # 0, NEW k_ \in Delta!Recurrent,
         NEW t \in Delta!Threads(k_, shape, tokens), NEW u \in Delta!Threads(k_, shape, tokens),
         NEW c, c = Delta!ColumnOf(k_, shape, t), NEW d, d = Delta!ColumnOf(k_, shape, u),
         \/ \E k \in DKeys, e \in DKeys : RecurrentCell(c.head, k, c.v) = RecurrentCell(d.head, e, d.v)
         \/ \E i \in 0..(Delta!Steps(policy, tokens) - 1), j \in 0..(Delta!Steps(policy, tokens) - 1) :
              Delta!RawCell(shape, tokens, i, c.head, c.v) = Delta!RawCell(shape, tokens, j, d.head, d.v)
  PROVE  t = u
<1> DEFINE S == 0..(Delta!Steps(policy, tokens) - 1)
           Written(x) == {<<"recurrent", RecurrentCell(x.head, k, x.v)>> : k \in DKeys} \cup
                      {<<"work", Delta!RawCell(shape, tokens, j, x.head, x.v)>> : j \in S}
<1>1. /\ Delta!Writes(k_, shape, policy, tokens, t) = Written(c)
      /\ Delta!Writes(k_, shape, policy, tokens, u) = Written(d)
  BY RecurrentFloats DEF RecurrentCell, DKeys
<1>2. t # u => Apart(k_, shape, policy, tokens, t, u)
  <2>1. tokens \in Nat \ {0} /\ DeltaFields(shape)
    BY DEF DeltaCallOK
  <2> QED BY <2>1, RecurrenceApart
<1>3. t # u => Written(c) \cap Written(d) = {}
  <2> HIDE DEF Mine
  <2> QED BY <1>1, <1>2 DEF Apart
<1>4. CASE \E k \in DKeys, e \in DKeys : RecurrentCell(c.head, k, c.v) = RecurrentCell(d.head, e, d.v)
  <2>1. PICK k \in DKeys, e \in DKeys : RecurrentCell(c.head, k, c.v) = RecurrentCell(d.head, e, d.v)
    BY <1>4
  <2>2. <<"recurrent", RecurrentCell(c.head, k, c.v)>> \in Written(c)
        /\ <<"recurrent", RecurrentCell(d.head, e, d.v)>> \in Written(d)
    OBVIOUS
  <2> HIDE DEF Mine
  <2> QED BY <1>3, <2>1, <2>2
<1>5. CASE \E i \in S, j \in S :
             Delta!RawCell(shape, tokens, i, c.head, c.v) = Delta!RawCell(shape, tokens, j, d.head, d.v)
  <2>1. PICK i \in S, j \in S :
          Delta!RawCell(shape, tokens, i, c.head, c.v) = Delta!RawCell(shape, tokens, j, d.head, d.v)
    BY <1>5
  <2>2. <<"work", Delta!RawCell(shape, tokens, i, c.head, c.v)>> \in Written(c)
        /\ <<"work", Delta!RawCell(shape, tokens, j, d.head, d.v)>> \in Written(d)
    OBVIOUS
  <2> HIDE DEF Mine
  <2> QED BY <1>3, <2>1, <2>2
<1> QED
  BY <1>4, <1>5

\* The columns have a head and a value of the layer.
LEMMA ColumnIn ==
  ASSUME DeltaCallOK, NEW k_ \in Delta!Recurrent, NEW t \in Delta!Threads(k_, shape, tokens)
  PROVE  Delta!ColumnOf(k_, shape, t).head \in DHeads /\ Delta!ColumnOf(k_, shape, t).v \in DValues
<1>1. DeltaFields(shape) /\ tokens \in Nat
  BY DEF DeltaCallOK
<1> QED
  BY <1>1, ColumnFacts DEF DHeads, DValues

\* The recurrence leaves every raw output, and the state after the chunk.
LEMMA RecurrenceRuns ==
  ASSUME NEW from, DeltaGiven(from), state.recurrent = from.recurrent, NormalizedIn(work, from),
         NEW k_ \in Delta!Recurrent, Delta!Recur(k_)
  PROVE  /\ RawIn(work', from) /\ DOMAIN work' = WorkFloats /\ output' = output
         /\ state'.recurrent = After(from, tokens).state.recurrent
         /\ state'.convolution = state.convolution
         /\ state' = [convolution |-> state'.convolution, recurrent |-> state'.recurrent]
<1> DEFINE T == Delta!Threads(k_, shape, tokens)
           col(t) == Delta!ColumnOf(k_, shape, t)
           base(t) == Delta!RawCell(shape, tokens, 0, col(t).head, col(t).v)
           V == Delta!ValueSize(shape)
           raw(t, i) == Delta!Raw(k_, col(t), (i - base(t)) \div V)
           kept(t, i) == Delta!Column(k_, col(t), tokens)[(i \div shape.valueDim) % shape.keyDim]
           W == [t \in T |-> [i \in {base(t) + j * V : j \in Chunk} |-> raw(t, i)]]
           S == [t \in T |-> [i \in {RecurrentCell(col(t).head, k, col(t).v) : k \in DKeys} |-> kept(t, i)]]
<1>0. /\ DeltaCallOK /\ fed \in Nat /\ tokens \in Nat \ {0} /\ tokens <= DeltaTokens
      /\ DOMAIN work = WorkFloats /\ StateOver(state) /\ StateOver(from)
  BY DeltaNumbers DEF DeltaGiven
<1>1. Delta!Steps(policy, tokens) = tokens
  BY DEF DeltaGiven, Delta!Allowed, Delta!Steps
<1>2. work' = Delta!Written(work, W)
  BY <1>1 DEF Delta!Recur, Delta!Over, Chunk
<1>3. state' = [state EXCEPT !.recurrent = Delta!Written(state.recurrent, S)]
  BY <1>1 DEF Delta!Recur, Delta!Over, DKeys, RecurrentCell
<1>4. output' = output
  BY DEF Delta!Recur
<1>5. \A t \in T : col(t).head \in DHeads /\ col(t).v \in DValues
  BY <1>0, ColumnIn
<1>6. ASSUME NEW j \in Chunk, NEW head \in DHeads, NEW v \in DValues
      PROVE  work'[Delta!RawCell(shape, tokens, j, head, v)] = RawAt(from, j, head, v)
  <2> DEFINE i == Delta!RawCell(shape, tokens, j, head, v)
  <2>1. PICK t \in T : col(t).head = head /\ col(t).v = v
    BY <1>0, ColumnServed
  <2>2. i \in WorkFloats /\ i = base(t) + j * V /\ (i - base(t)) \div V = j
    BY <1>0, <2>1, RawPlace
  <2>3. W[t][i] = raw(t, i) /\ i \in DOMAIN W[t] /\ DOMAIN W = T
    <3>1. i \in {base(t) + e * V : e \in Chunk}
      BY <2>2
    <3> HIDE DEF i, raw, base, T
    <3> QED BY <3>1
  <2>4. ASSUME NEW u \in DOMAIN W, i \in DOMAIN W[u] PROVE u = t
    <3>1. u \in T
      OBVIOUS
    <3>2. PICK e \in Chunk : i = base(u) + e * V
      <4>1. i \in {base(u) + e * V : e \in Chunk}
        <5> HIDE DEF i, raw, base
        <5> QED BY <2>4
      <4> QED BY <4>1
    <3>3. Delta!RawCell(shape, tokens, e, col(u).head, col(u).v) = base(u) + e * V
      BY <1>0, <1>5, <3>1, RawPlace
    <3>4. Delta!RawCell(shape, tokens, j, col(t).head, col(t).v) =
            Delta!RawCell(shape, tokens, e, col(u).head, col(u).v)
      BY <2>1, <3>2, <3>3
    <3>5. j \in 0..(Delta!Steps(policy, tokens) - 1) /\ e \in 0..(Delta!Steps(policy, tokens) - 1)
      BY <1>1 DEF Chunk
    <3> QED BY <1>0, <3>1, <3>4, <3>5, ColumnsApart
  <2>5. work'[i] = raw(t, i)
    <3>1. i \in DOMAIN work
      BY <1>0, <2>2
    <3> HIDE DEF W, i, raw
    <3>2. Delta!Written(work, W)[i] = W[t][i]
      BY ONLY <2>3, <2>4, <3>1, WrittenOnce
    <3> QED BY <1>2, <2>3, <3>2
  <2>6. raw(t, i) = Delta!Raw(k_, col(t), j)
    BY <2>2
  <2>7. Delta!Raw(k_, col(t), j) = RawAt(from, j, head, v)
    <3> DEFINE c == col(t)
    <3>1. c.head \in DHeads /\ c.v \in DValues /\ c.head = head /\ c.v = v
      BY <2>1
    <3> HIDE DEF c
    <3>2. Delta!Raw(k_, c, j) = RawAt(from, j, c.head, c.v)
      BY <1>0, <3>1, RawIsAt
    <3> QED BY <3>1, <3>2 DEF c
  <2> HIDE DEF raw
  <2> QED BY <2>5, <2>6, <2>7
<1>7. DOMAIN work' = WorkFloats
  <2> HIDE DEF W
  <2> QED BY <1>0, <1>2, WrittenDomain
<1> DEFINE s == After(from, tokens).state
           new == Delta!Written(state.recurrent, S)
<1>8. /\ state = [convolution |-> state.convolution, recurrent |-> state.recurrent]
      /\ DOMAIN state.recurrent = StateFloats
      /\ s.recurrent = [i \in StateFloats |-> s.recurrent[i]]
  <2>1. StateOver(s)
    BY <1>0, AfterIsState
  <2> HIDE DEF s
  <2> QED BY <1>0, <2>1 DEF StateOver, StateFloats
<1>9. state'.recurrent = new /\ state'.convolution = state.convolution
      /\ state' = [convolution |-> state'.convolution, recurrent |-> state'.recurrent]
  <2> HIDE DEF new, S
  <2>1. state' = [state EXCEPT !.recurrent = new]
    BY <1>3 DEF new
  <2> DEFINE a == state.convolution
             b == state.recurrent
  <2>2. state = [convolution |-> a, recurrent |-> b]
    BY <1>8
  <2> HIDE DEF a, b
  <2>3. state' = [convolution |-> a, recurrent |-> new]
    BY <2>1, <2>2
  <2> QED BY <2>3 DEF a
<1>10. ASSUME NEW i \in StateFloats PROVE new[i] = s.recurrent[i]
  <2>1. PICK head \in DHeads, k \in DKeys, v \in DValues : i = RecurrentCell(head, k, v)
    BY <1>0, RecurrentFills
  <2>2. (i \div shape.valueDim) % shape.keyDim = k
    BY <1>0, <2>1, RecurrentPlace
  <2>3. PICK t \in T : col(t).head = head /\ col(t).v = v
    BY <1>0, ColumnServed
  <2>4. S[t][i] = kept(t, i) /\ i \in DOMAIN S[t] /\ DOMAIN S = T
    <3>1. i \in {RecurrentCell(col(t).head, e, col(t).v) : e \in DKeys}
      BY <2>1, <2>3
    <3> HIDE DEF kept, T, col
    <3> QED BY <3>1
  <2>5. ASSUME NEW u \in DOMAIN S, i \in DOMAIN S[u] PROVE u = t
    <3>1. u \in T
      OBVIOUS
    <3>2. PICK e \in DKeys : i = RecurrentCell(col(u).head, e, col(u).v)
      <4>1. i \in {RecurrentCell(col(u).head, e, col(u).v) : e \in DKeys}
        <5> HIDE DEF kept, col
        <5> QED BY <2>5
      <4> QED BY <4>1
    <3>3. RecurrentCell(col(t).head, k, col(t).v) = RecurrentCell(col(u).head, e, col(u).v)
      BY <2>1, <2>3, <3>2
    <3> QED BY <1>0, <3>1, <3>3, ColumnsApart
  <2>6. new[i] = S[t][i]
    <3>1. i \in DOMAIN state.recurrent
      BY <1>8
    <3> HIDE DEF S, T
    <3> QED BY ONLY <2>4, <2>5, <3>1, WrittenOnce
  <2>7. Delta!Column(k_, col(t), tokens) = ColumnAt(from, head, v, tokens)
    <3> DEFINE c == col(t)
    <3>1. c.head \in DHeads /\ c.v \in DValues /\ c.head = head /\ c.v = v /\ tokens \in 0..tokens
      BY <1>0, <2>3
    <3> HIDE DEF c
    <3>2. Delta!Column(k_, c, tokens) = ColumnAt(from, c.head, c.v, tokens)
      BY <1>0, <3>1, ColumnIsAt
    <3> QED BY <3>1, <3>2 DEF c
  <2>8. kept(t, i) = ColumnAt(from, head, v, tokens)[k]
    BY <2>2, <2>7
  <2>9. ColumnAt(from, head, v, tokens)[k] = s.recurrent[i]
    BY <2>1 DEF ColumnAt
  <2> HIDE DEF S, new, s, kept
  <2> QED BY <2>4, <2>6, <2>8, <2>9
<1>11. new = [i \in StateFloats |-> new[i]]
  <2> HIDE DEF S
  <2> QED BY <1>8, WrittenDomain
<1>12. new = s.recurrent
  <2> HIDE DEF new, s
  <2> QED BY <1>8, <1>10, <1>11
<1> QED
  BY <1>4, <1>6, <1>7, <1>9, <1>12 DEF RawIn

-----------------------------------------------------------------------------
(* Delta: the output *)

\* Where an output of the chunk is.
MadeBlock(j, head) == j * shape.valueHeads + head

\* An output gives away its token, head and value.
LEMMA MadePlace ==
  ASSUME DeltaCallOK, tokens <= DeltaTokens, NEW j \in Chunk, NEW i \in 0..(shape.hidden - 1),
         NEW head, head = i \div shape.valueDim, NEW v, v = i % shape.valueDim,
         NEW b, b = MadeBlock(j, head), NEW at, at = j * shape.hidden + i
  PROVE  /\ head \in DHeads /\ v \in DValues /\ i = head * shape.valueDim + v /\ i \in Nat
         /\ at \in 0..(DeltaTokens * shape.hidden - 1)
         /\ at = b * shape.valueDim + v /\ at % shape.valueDim = v
         /\ b \in Delta!Threads("output", shape, tokens) /\ b \in Nat
         /\ b \div shape.valueHeads = j /\ b % shape.valueHeads = head
<1> DEFINE VH == shape.valueHeads
           VD == shape.valueDim
           H == shape.hidden
<1>1. /\ VH \in Nat \ {0} /\ VD \in Nat \ {0} /\ H = VH * VD /\ H \in Nat \ {0}
      /\ tokens \in Nat /\ DeltaTokens \in Nat
  BY DeltaNumbers
<1>2. j \in 0..(tokens - 1) /\ i \in Nat /\ i < VH * VD
  BY <1>1 DEF Chunk
<1>3. head = i \div VD /\ v = i % VD /\ b = j * VH + head /\ at = j * H + i
  BY DEF MadeBlock
<1>0. tokens <= DeltaTokens
  OBVIOUS
<1> HIDE DEF VH, VD, H
<1>4. head \in 0..(VH - 1) /\ v \in 0..(VD - 1) /\ i = head * VD + v
  BY ONLY <1>1, <1>2, <1>3, DigitsOf
<1>5. Spelled(b * VD + v, tokens, VH, VD, j, head, v)
  BY ONLY <1>1, <1>2, <1>3, <1>4, ThreeDigits
<1>6. /\ b * VD + v = j * (VH * VD) + (head * VD + v) /\ (b * VD + v) % VD = v
      /\ b \in Nat /\ b \div VH = j /\ b % VH = head
      /\ b * VD + v \in Nat /\ b * VD + v < tokens * (VH * VD) /\ tokens * (VH * VD) \in Nat
  BY ONLY <1>3, <1>5 DEF Spelled
<1>7. at = b * VD + v /\ at \in Nat /\ at < tokens * H /\ tokens * H \in Nat
  BY <1>1, <1>3, <1>4, <1>6
<1>8. H * tokens <= H * DeltaTokens /\ H * tokens \in Nat /\ H * DeltaTokens \in Nat
  BY <1>0, <1>1, Grows
<1>9. H * tokens = tokens * H /\ H * DeltaTokens = DeltaTokens * H
  BY <1>1, Multiplied
<1>10. at \in 0..(DeltaTokens * H - 1)
  <2> DEFINE m == DeltaTokens * H
             p == tokens * H
  <2>1. at < p /\ p <= m /\ m \in Nat /\ p \in Nat
    BY <1>7, <1>8, <1>9
  <2> HIDE DEF m, p
  <2>2. at \in 0..(m - 1)
    BY <1>7, <2>1
  <2> QED BY <2>2 DEF m
<1>11. b \in 0..(tokens * VH - 1)
  <2> DEFINE m == tokens * VH
  <2>1. j * VH + head < m /\ m \in Nat
    BY <1>1, <1>2, <1>4, Digits
  <2> HIDE DEF m
  <2>2. b \in 0..(m - 1)
    BY <1>3, <1>6, <2>1
  <2> QED BY <2>2 DEF m
<1>12. b \in Delta!Threads("output", shape, tokens)
  BY <1>11 DEF Delta!Threads, VH
<1> QED
  BY <1>2, <1>4, <1>6, <1>7, <1>10, <1>12 DEF VH, VD, H, DHeads, DValues

\* The output is scaled by all of a head and gated.
OutputRunsTo(from) ==
  MadeIn(output', from) /\ DOMAIN output' = DOMAIN output /\ work' = work /\ state' = state

\* So the output is what the reference makes.
LEMMA OutputRuns ==
  ASSUME NEW from, DeltaGiven(from), RawIn(work, from), Delta!Output
  PROVE  OutputRunsTo(from)
<1> DEFINE T == Delta!Threads("output", shape, tokens)
           VD == shape.valueDim
           VH == shape.valueHeads
           raw(b, v) == work[Delta!RawCell(shape, tokens, b \div VH, b % VH, v)]
           value(b, i) == <<"out", raw(b, i % VD), {raw(b, u) : u \in DValues}, i % VD,
                            Delta!Packed(b \div VH, Delta!ConvDim(shape) + 2 * VH + (b % VH) * VD + (i % VD))>>
           W == [b \in T |-> [i \in {b * VD + v : v \in DValues} |-> value(b, i)]]
<1>0. /\ DeltaCallOK /\ fed \in Nat /\ tokens \in Nat /\ tokens <= DeltaTokens
      /\ DOMAIN output = 0..(DeltaTokens * shape.hidden - 1)
      /\ VH \in Nat \ {0} /\ VD \in Nat \ {0} /\ Delta!ConvDim(shape) \in Nat
  BY DeltaNumbers DEF DeltaGiven
<1>1. output' = Delta!Written(output, W)
  BY DEF Delta!Output, Delta!Over, DValues
<1>2. work' = work /\ state' = state
  BY DEF Delta!Output
<1>3. ASSUME NEW j \in Chunk, NEW i \in 0..(shape.hidden - 1)
      PROVE  output'[j * shape.hidden + i] = MadeOf(from, j)[i]
  <2> DEFINE head == i \div VD
             v == i % VD
             b == MadeBlock(j, head)
             at == j * shape.hidden + i
             t == fed + 1 + j
  <2>1. /\ head \in DHeads /\ v \in DValues /\ i = head * VD + v /\ i \in Nat
        /\ at \in 0..(DeltaTokens * shape.hidden - 1)
        /\ at = b * VD + v /\ at % VD = v /\ b \in T /\ b \in Nat
        /\ b \div VH = j /\ b % VH = head
    BY <1>0, MadePlace
  <2>2. W[b][at] = value(b, at) /\ at \in DOMAIN W[b] /\ DOMAIN W = T
    <3>1. at \in {b * VD + u : u \in DValues}
      BY <2>1
    <3> HIDE DEF at, b, value, T
    <3> QED BY <2>1, <3>1
  <2>3. ASSUME NEW u \in DOMAIN W, at \in DOMAIN W[u] PROVE u = b
    <3>1. u \in T
      OBVIOUS
    <3>2. PICK e \in DValues : at = u * VD + e
      <4>1. at \in {u * VD + e : e \in DValues}
        <5> HIDE DEF at, value
        <5> QED BY <2>3
      <4> QED BY <4>1
    <3>3. u \in Nat
      <4>1. u \in 0..(tokens * VH - 1)
        BY <3>1 DEF Delta!Threads
      <4>2. tokens * VH \in Nat
        BY <1>0, SMT
      <4> QED BY <4>1, <4>2
    <3>4. e \in 0..(VD - 1) /\ v \in 0..(VD - 1)
      BY <2>1 DEF DValues
    <3> HIDE DEF at, b, v, VD
    <3> QED BY <1>0, <2>1, <3>2, <3>3, <3>4, DigitsApart
  <2>4. output'[at] = value(b, at)
    <3>1. at \in DOMAIN output
      BY <1>0, <2>1
    <3> HIDE DEF W, at, b, value, T
    <3>2. Delta!Written(output, W)[at] = W[b][at]
      BY ONLY <2>1, <2>2, <2>3, <3>1, WrittenOnce
    <3> QED BY <1>1, <2>2, <3>2
  <2>5. \A u \in DValues : raw(b, u) = RawAt(from, j, head, u)
    <3>1. \A u \in DValues : raw(b, u) = work[Delta!RawCell(shape, tokens, j, head, u)]
      BY <2>1
    <3>2. \A u \in DValues : work[Delta!RawCell(shape, tokens, j, head, u)] = RawAt(from, j, head, u)
      BY <2>1 DEF RawIn
    <3> HIDE DEF raw, head, b
    <3> QED BY <3>1, <3>2
  <2>6. Delta!Packed(b \div VH, Delta!ConvDim(shape) + 2 * VH + (b % VH) * VD + v) =
          Delta!Input(t, Delta!ConvDim(shape) + 2 * VH + i)
    <3>1. fed + j + 1 = t /\ j \in Nat
      BY <1>0 DEF Chunk
    <3>2. Delta!ConvDim(shape) + 2 * VH + head * VD + v = Delta!ConvDim(shape) + 2 * VH + i
      <4> DEFINE x == head * VD
                 C == Delta!ConvDim(shape) + 2 * VH
      <4>1. head \in Int /\ v \in Int
        <5>1. head \in 0..(VH - 1) /\ v \in 0..(VD - 1)
          <6> HIDE DEF head, v
          <6> QED BY <2>1 DEF DHeads, DValues
        <5> HIDE DEF head, v, VH, VD
        <5> QED BY <1>0, <5>1
      <4>2. x \in Int /\ C \in Int
        <5> HIDE DEF head, VH, VD
        <5> QED BY <1>0, <4>1, SMT
      <4>3. i = x + v
        BY <2>1
      <4> HIDE DEF x, v, C
      <4>4. C + x + v = C + i
        BY ONLY <4>1, <4>2, <4>3
      <4> QED BY <4>4 DEF x, C
    <3> QED BY <2>1, <3>1, <3>2 DEF Delta!Packed
  <2>7. value(b, at) = <<"out", raw(b, v), {raw(b, u) : u \in DValues}, v,
                         Delta!Input(t, Delta!ConvDim(shape) + 2 * VH + i)>>
    <3> HIDE DEF raw, b, at, t, v
    <3> QED BY <2>1, <2>6
  <2>8. {raw(b, u) : u \in DValues} = {RawAt(from, j, head, u) : u \in DValues}
    <3> HIDE DEF raw, b, head
    <3> QED BY <2>5
  <2>9. MadeOf(from, j)[i] =
          <<"out", RawAt(from, j, head, v), {RawAt(from, j, head, u) : u \in DValues}, v,
            Delta!Input(t, Delta!ConvDim(shape) + 2 * VH + i)>>
    BY DEF MadeOf, Delta!Outputs, RawAt, DValues
  <2> HIDE DEF raw, value, b, head, v, t
  <2> QED BY <2>1, <2>4, <2>5, <2>7, <2>8, <2>9
<1>4. DOMAIN output' = DOMAIN output
  <2> HIDE DEF W
  <2> QED BY <1>1, WrittenDomain
<1> QED
  BY <1>2, <1>3, <1>4 DEF MadeIn, OutputRunsTo

-----------------------------------------------------------------------------
(* Delta: kernel by kernel *)

\* The kernel that runs the recurrence.
DeltaWay == DeltaKernels[3]

\* The kernels of a call, and what is left of them after k.
LEMMA DeltaLeftOver ==
  ASSUME NEW k \in 0..4
  PROVE  /\ DeltaKernels[1] = "convolution" /\ DeltaKernels[2] = "normalize"
         /\ DeltaKernels[4] = "output" /\ DeltaWay \in Delta!Recurrent
         /\ DeltaWay = "register" => Delta!Registers(policy)
         /\ DeltaLeft(0) = DeltaKernels
         /\ k = 4 => DeltaLeft(k) = <<>>
         /\ k < 4 => /\ DeltaLeft(k) # <<>> /\ Head(DeltaLeft(k)) = DeltaKernels[k + 1]
                     /\ Tail(DeltaLeft(k)) = DeltaLeft(k + 1)
<1> DEFINE way == IF Delta!Registers(policy) THEN "register"
                  ELSE IF shape.keyDim = LargeDim THEN "register_128" ELSE "tiled"
           N == {"convolution", "normalize", "output"} \cup Delta!Recurrent
           K == <<"convolution", "normalize", way, "output">>
<1>1. DeltaKernels = K
  BY DEF DeltaKernels, Delta!Kernels
<1>2. way \in Delta!Recurrent /\ (way = "register" => Delta!Registers(policy))
  BY DEF Delta!Recurrent
<1> HIDE DEF way
<1>3. K \in Seq(N) /\ Len(K) = 4
  BY <1>2
<1>4. K[1] = "convolution" /\ K[2] = "normalize" /\ K[3] = way /\ K[4] = "output"
  OBVIOUS
<1> HIDE DEF K, N
<1>5. \A j : DeltaLeft(j) = SubSeq(K, j + 1, 4)
  BY <1>1 DEF DeltaLeft
<1>6. /\ SubSeq(K, 0 + 1, 4) = K
      /\ k = 4 => SubSeq(K, k + 1, 4) = <<>>
      /\ k < 4 => /\ SubSeq(K, k + 1, 4) # <<>>
                  /\ Head(SubSeq(K, k + 1, 4)) = K[k + 1]
                  /\ Tail(SubSeq(K, k + 1, 4)) = SubSeq(K, (k + 1) + 1, 4)
  BY <1>3, RestOf
<1> QED
  BY <1>1, <1>2, <1>4, <1>5, <1>6 DEF DeltaWay

\* While a call lasts, what it asks for stays.
LEMMA DeltaStays ==
  ASSUME UNCHANGED <<shape, policy, tokens, fed>>, NEW from
  PROVE  /\ DeltaKernels' = DeltaKernels /\ \A k : DeltaLeft(k)' = DeltaLeft(k)
         /\ \A n : After(from, n)' = After(from, n)
         /\ \A j : CellsOf(from, j)' = CellsOf(from, j)
         /\ \A j : MadeOf(from, j)' = MadeOf(from, j)
         /\ \A j, head, v : RawAt(from, j, head, v)' = RawAt(from, j, head, v)
<1>1. DeltaKernels' = DeltaKernels
  BY DEF DeltaKernels
<1>2. \A n : After(from, n)' = After(from, n)
  BY DEF After
<1>3. \A j : CellsOf(from, j)' = CellsOf(from, j)
  BY <1>2 DEF CellsOf
<1>4. \A j : UpdatedOf(from, j)' = UpdatedOf(from, j)
  BY <1>2, <1>3 DEF UpdatedOf
<1> QED
  BY <1>1, <1>2, <1>3, <1>4 DEF DeltaLeft, MadeOf, RawAt

\* So what the arrays hold for the call now they hold for it later.
LEMMA DeltaDoneNext ==
  ASSUME UNCHANGED <<shape, policy, tokens, fed>>, NEW from, NEW k,
         state'.convolution = (IF k = 0 THEN from ELSE After(from, tokens).state).convolution,
         state'.recurrent = (IF k < 3 THEN from ELSE After(from, tokens).state).recurrent,
         k = 1 => ConvolvedIn(work', from),
         k = 2 => NormalizedIn(work', from),
         k = 3 => RawIn(work', from),
         k = 4 => MadeIn(output', from)
  PROVE  DeltaDone(from, k)'
<1>1. /\ Chunk' = Chunk /\ Channels' = Channels /\ DHeads' = DHeads
      /\ DKeys' = DKeys /\ DValues' = DValues
  BY DEF Chunk, Channels, DHeads, DKeys, DValues
<1>2. /\ \A n : After(from, n)' = After(from, n)
      /\ \A j : CellsOf(from, j)' = CellsOf(from, j)
      /\ \A j : MadeOf(from, j)' = MadeOf(from, j)
      /\ \A j, head, v : RawAt(from, j, head, v)' = RawAt(from, j, head, v)
  BY DeltaStays
<1>3. k = 1 => ConvolvedIn(work, from)'
  BY <1>1, <1>2 DEF ConvolvedIn
<1>4. k = 2 => NormalizedIn(work, from)'
  BY <1>1, <1>2 DEF NormalizedIn
<1>5. k = 3 => RawIn(work, from)'
  BY <1>1, <1>2 DEF RawIn
<1>6. k = 4 => MadeIn(output, from)'
  BY <1>1, <1>2 DEF MadeIn
<1>7. After(from, tokens)' = After(from, tokens)
  BY DeltaStays DEF After
<1> QED
  BY <1>3, <1>4, <1>5, <1>6, <1>7 DEF DeltaDone

\* The parts of two states are a state.
LEMMA StateOfParts ==
  ASSUME NEW s, StateOver(s), NEW t, StateOver(t),
         NEW r, r = [convolution |-> s.convolution, recurrent |-> t.recurrent]
  PROVE  StateOver(r)
<1>1. r.convolution = s.convolution /\ r.recurrent = t.recurrent
  OBVIOUS
<1> QED
  BY <1>1 DEF StateOver

\* A kernel makes what the next ones read.
LEMMA DeltaKernelRuns ==
  ASSUME NEW from, DeltaGiven(from), NEW k \in 0..3, DeltaDone(from, k),
         Delta!Run(DeltaKernels[k + 1]), UNCHANGED <<shape, policy, tokens, fed>>
  PROVE  /\ DOMAIN work' = WorkFloats /\ DOMAIN output' = DOMAIN output
         /\ StateOver(state') /\ DeltaDone(from, k + 1)'
<1> DEFINE end == After(from, tokens).state
<1>1. /\ tokens \in Nat /\ fed \in Nat /\ StateOver(state) /\ StateOver(from)
      /\ DOMAIN work = WorkFloats /\ Delta!Allowed(policy, shape, tokens)
  BY DeltaNumbers DEF DeltaGiven
<1>2. StateOver(end)
  BY <1>1, AfterIsState
<1>3. /\ DeltaKernels[1] = "convolution" /\ DeltaKernels[2] = "normalize"
      /\ DeltaKernels[4] = "output" /\ DeltaWay \in Delta!Recurrent
      /\ DeltaWay = "register" => Delta!Registers(policy)
  BY DeltaLeftOver
<1>4. /\ state.convolution = (IF k = 0 THEN from ELSE end).convolution
      /\ state.recurrent = (IF k < 3 THEN from ELSE end).recurrent
      /\ k = 1 => ConvolvedIn(work, from)
      /\ k = 2 => NormalizedIn(work, from)
      /\ k = 3 => RawIn(work, from)
  BY DEF DeltaDone
<1>5. state = [convolution |-> state.convolution, recurrent |-> state.recurrent]
  BY <1>1 DEF StateOver
<1> HIDE DEF end
<1>6. CASE k = 0
  <2>1. Delta!Convolution
    <3>1. Delta!Run("convolution")
      BY <1>3, <1>6
    <3> QED BY <3>1 DEF Delta!Run
  <2>2. state.convolution = from.convolution /\ state.recurrent = from.recurrent
    BY <1>4, <1>6
  <2>3. /\ ConvolvedIn(work', from) /\ DOMAIN work' = WorkFloats /\ output' = output
        /\ state'.convolution = end.convolution
        /\ state'.recurrent = state.recurrent
        /\ state' = [convolution |-> state'.convolution, recurrent |-> state'.recurrent]
    BY <2>1, <2>2, ConvolutionRuns DEF end
  <2>4. StateOver(state')
    BY <1>1, <1>2, <2>3, StateOfParts
  <2>5. DeltaDone(from, 1)'
    <3> DEFINE j == 1
    <3>1. j # 0 /\ j < 3 /\ j # 2 /\ j # 3 /\ j # 4
      OBVIOUS
    <3> HIDE DEF j
    <3>2. DeltaDone(from, j)'
      BY <2>2, <2>3, <3>1, DeltaDoneNext DEF end
    <3> QED BY <3>2 DEF j
  <2> QED BY <1>6, <2>3, <2>4, <2>5
<1>7. CASE k = 1
  <2>1. Delta!Normalize
    <3>1. Delta!Run("normalize")
      BY <1>3, <1>7
    <3> QED BY <3>1 DEF Delta!Run
  <2>2. state.convolution = end.convolution /\ state.recurrent = from.recurrent
    BY <1>4, <1>7
  <2>3. NormalizedIn(work', from) /\ DOMAIN work' = WorkFloats /\ output' = output /\ state' = state
    BY <1>4, <1>7, <2>1, NormalizeRuns
  <2>5. DeltaDone(from, 2)'
    <3> DEFINE j == 2
    <3>1. j # 0 /\ j < 3 /\ j # 1 /\ j # 3 /\ j # 4
      OBVIOUS
    <3> HIDE DEF j
    <3>2. DeltaDone(from, j)'
      BY <2>2, <2>3, <3>1, DeltaDoneNext DEF end
    <3> QED BY <3>2 DEF j
  <2> QED BY <1>1, <1>7, <2>3, <2>5
<1>8. CASE k = 2
  <2>1. Delta!Recur(DeltaWay)
    <3>1. Delta!Run(DeltaWay)
      BY <1>8 DEF DeltaWay
    <3>2. DeltaWay = "register" => shape.keyDim = shape.valueDim /\ shape.keyDim \in {SmallDim, LargeDim}
      BY <1>1, <1>3 DEF Delta!Allowed
    <3> QED BY <1>3, <3>1, <3>2 DEF Delta!Run, Delta!Recurrent
  <2>2. state.convolution = end.convolution /\ state.recurrent = from.recurrent
    BY <1>4, <1>8
  <2>3. /\ RawIn(work', from) /\ DOMAIN work' = WorkFloats /\ output' = output
        /\ state'.recurrent = end.recurrent
        /\ state'.convolution = state.convolution
        /\ state' = [convolution |-> state'.convolution, recurrent |-> state'.recurrent]
    BY <1>3, <1>4, <1>8, <2>1, <2>2, RecurrenceRuns DEF end
  <2>4. StateOver(state')
    BY <1>1, <1>2, <2>3, StateOfParts
  <2>5. DeltaDone(from, 3)'
    <3> DEFINE j == 3
    <3>1. j # 0 /\ ~(j < 3) /\ j # 1 /\ j # 2 /\ j # 4
      OBVIOUS
    <3> HIDE DEF j
    <3>2. DeltaDone(from, j)'
      BY <2>2, <2>3, <3>1, DeltaDoneNext DEF end
    <3> QED BY <3>2 DEF j
  <2> QED BY <1>8, <2>3, <2>4, <2>5
<1>9. CASE k = 3
  <2>1. Delta!Output
    <3>1. Delta!Run("output")
      BY <1>3, <1>9
    <3> QED BY <3>1 DEF Delta!Run
  <2>2. state.convolution = end.convolution /\ state.recurrent = end.recurrent
    BY <1>4, <1>9
  <2>3. MadeIn(output', from) /\ DOMAIN output' = DOMAIN output /\ work' = work /\ state' = state
    BY <1>4, <1>9, <2>1, OutputRuns DEF OutputRunsTo
  <2>5. DeltaDone(from, 4)'
    <3> DEFINE j == 4
    <3>1. j # 0 /\ ~(j < 3) /\ j # 1 /\ j # 2 /\ j # 3
      OBVIOUS
    <3> HIDE DEF j
    <3>2. DeltaDone(from, j)'
      BY <2>2, <2>3, <3>1, DeltaDoneNext DEF end
    <3> QED BY <3>2 DEF j
  <2> QED BY <1>1, <1>9, <2>3, <2>5
<1> QED
  BY <1>6, <1>7, <1>8, <1>9

-----------------------------------------------------------------------------
(* Delta: the invariant *)

\* What a layer starts from, and what every call leaves in the arrays.
LEMMA DeltaLeaves ==
  ASSUME DeltaCallOK
  PROVE  /\ StateOver(Delta!ZeroState(shape))
         /\ DOMAIN Delta!Spent(shape).work = WorkFloats
         /\ DOMAIN Delta!Spent(shape).output = 0..(DeltaTokens * shape.hidden - 1)
BY DEF StateOver, Delta!ZeroState, Delta!Spent, WorkFloats

\* Before the first call the reference has been given no token.
LEMMA DeltaStarts ==
  ASSUME KernelsInit, unit = "delta"
  PROVE  DeltaInv
<1>1. DeltaCallOK
  BY GridStarts DEF GridInv
<1>2. Delta!Init
  BY DEF KernelsInit
<1>3. /\ phase = "idle" /\ fed = 0 /\ state = Delta!ZeroState(shape)
      /\ work = Delta!Spent(shape).work /\ output = Delta!Spent(shape).output
      /\ promised = [state |-> Delta!ZeroState(shape), outputs |-> <<>>]
  BY <1>2 DEF Delta!Init
<1>4. Delta!MatchesReference
  <2>1. promised.state = state /\ promised.outputs = <<>> /\ DOMAIN <<>> = {}
    BY <1>3
  <2> QED BY <2>1 DEF Delta!MatchesReference
<1> QED
  BY <1>1, <1>3, <1>4, DeltaLeaves DEF DeltaInv, WorkFloats

\* All kernels of a call are before it.
LEMMA DeltaCallBegins == DeltaLeft(0) = DeltaKernels
<1>1. 0 \in 0..4
  OBVIOUS
<1> QED
  BY <1>1, DeltaLeftOver

\* The same of the next state.
LEMMA DeltaCallBeginsNext == (DeltaLeft(0) = DeltaKernels)'
BY DeltaCallBegins, PTL

\* A chunk that is through has left what the reference makes of it.
LEMMA DeltaFinished ==
  ASSUME DeltaCallOK, DeltaInv, phase = "busy", kernels = <<>>
  PROVE  /\ state = promised.state
         /\ \A j \in DOMAIN promised.outputs : \A i \in 0..(shape.hidden - 1) :
              output[(j - 1) * shape.hidden + i] = promised.outputs[j][i]
<1>1. PICK from : /\ StateOver(from) /\ promised = After(from, tokens)
                  /\ \E k \in 0..4 : kernels = DeltaLeft(k) /\ DeltaDone(from, k)
  BY DEF DeltaInv
<1>2. PICK k \in 0..4 : kernels = DeltaLeft(k) /\ DeltaDone(from, k)
  BY <1>1
<1>3. k = 4
  <2>1. ~(k < 4)
    BY <1>2, DeltaLeftOver
  <2> QED BY <2>1
<1>4. tokens \in Nat /\ fed \in Nat /\ StateOver(state)
  BY DeltaNumbers DEF DeltaInv
<1> DEFINE end == After(from, tokens).state
<1>5. StateOver(end)
  BY <1>1, <1>4, AfterIsState
<1>6. state.convolution = end.convolution /\ state.recurrent = end.recurrent /\ MadeIn(output, from)
  <2>1. k # 0 /\ ~(k < 3)
    BY <1>3
  <2> QED BY <1>2, <1>3, <2>1 DEF DeltaDone
<1>7. state = end
  <2>1. /\ state = [convolution |-> state.convolution, recurrent |-> state.recurrent]
        /\ end = [convolution |-> end.convolution, recurrent |-> end.recurrent]
    BY <1>4, <1>5 DEF StateOver
  <2> HIDE DEF end
  <2> QED BY <1>6, <2>1
<1>8. ASSUME NEW j \in DOMAIN promised.outputs, NEW i \in 0..(shape.hidden - 1)
      PROVE  output[(j - 1) * shape.hidden + i] = promised.outputs[j][i]
  <2>1. promised.outputs = [m \in 1..tokens |-> MadeOf(from, m - 1)]
    BY <1>1, <1>4, AfterOutputs
  <2>2. j \in 1..tokens /\ promised.outputs[j] = MadeOf(from, j - 1)
    BY <2>1
  <2>3. j - 1 \in Chunk
    BY <1>4, <2>2 DEF Chunk
  <2> QED BY <1>6, <2>2, <2>3 DEF MadeIn
<1> QED
  BY <1>1, <1>7, <1>8

\* A step of the layer keeps it: a kernel, or a call, its end, or a reset.
LEMMA DeltaKeeps ==
  ASSUME DeltaCallOK, DeltaInv, Delta!Next
  PROVE  DeltaInv'
<1>1. /\ fed \in Nat /\ tokens \in Nat /\ DOMAIN work = WorkFloats
      /\ DOMAIN output = 0..(DeltaTokens * shape.hidden - 1)
      /\ StateOver(state)
  BY DeltaNumbers DEF DeltaInv, WorkFloats
<1>2. ASSUME UNCHANGED shape, NEW s, StateOver(s) PROVE StateOver(s)'
  BY <1>2 DEF StateOver
<1>3. ASSUME UNCHANGED shape, StateOver(state') PROVE StateOver(state)'
  BY <1>3 DEF StateOver
<1>4. CASE Delta!Call
  <2>1. PICK n \in 1..DeltaTokens, p \in DeltaPolicies :
          /\ Delta!Allowed(p, shape, n) /\ tokens' = n /\ policy' = p
          /\ promised' = Delta!Prefill(shape, promised.state, fed + 1, n)
          /\ kernels' = Delta!Kernels(p, shape)
    BY <1>4 DEF Delta!Call
  <2>2. /\ phase = "idle" /\ phase' = "busy" /\ UNCHANGED <<shape, fed, state>>
        /\ work' = Delta!Spent(shape).work /\ output' = Delta!Spent(shape).output
    BY <1>4 DEF Delta!Call
  <2>3. PICK from : from = state
    OBVIOUS
  <2>4. from = promised.state
    BY <2>2, <2>3 DEF DeltaInv, Delta!MatchesReference
  <2>5. tokens' # 0 /\ tokens' <= DeltaTokens /\ Delta!Allowed(policy, shape, tokens)'
    <3>1. n # 0 /\ n <= DeltaTokens
      BY DeltaNumbers
    <3> QED BY <2>1, <2>2, <3>1
  <2>6. StateOver(from)' /\ (promised = After(from, tokens))' /\ (kernels = DeltaLeft(0))'
    <3>1. promised' = After(from, tokens)'
      BY <2>1, <2>2, <2>4 DEF After
    <3>2. kernels' = DeltaKernels'
      BY <2>1, <2>2 DEF DeltaKernels
    <3> QED BY <1>1, <1>2, <2>2, <2>3, <3>1, <3>2, DeltaCallBeginsNext
  <2>7. DeltaDone(from, 0)'
    <3> DEFINE j == 0
    <3>1. j = 0 /\ j < 3 /\ j # 1 /\ j # 2 /\ j # 3 /\ j # 4
      OBVIOUS
    <3> HIDE DEF j
    <3>2. DeltaDone(from, j)'
      BY <2>2, <2>3, <3>1 DEF DeltaDone
    <3> QED BY <3>2 DEF j
  <2>8. (\E k \in 0..4 : kernels = DeltaLeft(k) /\ DeltaDone(from, k))'
    <3>1. 0 \in 0..4
      OBVIOUS
    <3> QED BY <2>6, <2>7, <3>1
  <2>9. DOMAIN work' = WorkFloats /\ DOMAIN output' = 0..(DeltaTokens * shape.hidden - 1)
    BY <2>2, DeltaLeaves
  <2>10. StateOver(state)'
    BY <1>1, <1>3, <2>2
  <2> QED BY <1>1, <2>2, <2>5, <2>6, <2>8, <2>9, <2>10 DEF DeltaInv, WorkFloats
<1>5. CASE Delta!Launch
  <2>1. /\ phase = "busy" /\ phase' = "busy" /\ kernels # <<>> /\ Delta!Run(Head(kernels))
        /\ kernels' = Tail(kernels) /\ UNCHANGED <<shape, policy, tokens, fed, promised>>
    BY <1>5 DEF Delta!Launch
  <2>2. tokens # 0 /\ tokens <= DeltaTokens /\ Delta!Allowed(policy, shape, tokens)
    BY <2>1 DEF DeltaInv
  <2>3. PICK from : /\ StateOver(from) /\ promised = After(from, tokens)
                    /\ \E k \in 0..4 : kernels = DeltaLeft(k) /\ DeltaDone(from, k)
    BY <2>1 DEF DeltaInv
  <2>4. PICK k \in 0..4 : kernels = DeltaLeft(k) /\ DeltaDone(from, k)
    BY <2>3
  <2>5. k \in 0..3 /\ k + 1 \in 0..4
    <3>1. k # 4
      BY <2>1, <2>4, DeltaLeftOver
    <3> QED BY <3>1
  <2>6. Head(kernels) = DeltaKernels[k + 1] /\ Tail(kernels) = DeltaLeft(k + 1)
    <3>1. k < 4
      BY <2>5
    <3> QED BY <2>4, <3>1, DeltaLeftOver
  <2>7. DeltaGiven(from)
    BY <1>1, <2>2, <2>3 DEF DeltaGiven
  <2>8. /\ DOMAIN work' = WorkFloats /\ DOMAIN output' = DOMAIN output
        /\ StateOver(state') /\ DeltaDone(from, k + 1)'
    BY <2>1, <2>4, <2>5, <2>6, <2>7, DeltaKernelRuns
  <2>9. StateOver(from)' /\ (promised = After(from, tokens))' /\ \A j : DeltaLeft(j)' = DeltaLeft(j)
    <3>1. After(from, tokens)' = After(from, tokens)
      BY <2>1 DEF After
    <3> QED BY <1>2, <2>1, <2>3, <3>1, DeltaStays
  <2>10. (\E j \in 0..4 : kernels = DeltaLeft(j) /\ DeltaDone(from, j))'
    <3> DEFINE j == k + 1
    <3>1. j \in 0..4 /\ kernels' = DeltaLeft(j) /\ DeltaDone(from, j)'
      BY <2>1, <2>5, <2>6, <2>8
    <3> HIDE DEF j
    <3> QED BY <2>9, <3>1
  <2>11. StateOver(state)'
    BY <1>3, <2>1, <2>8
  <2> QED BY <1>1, <2>1, <2>2, <2>8, <2>9, <2>10, <2>11 DEF DeltaInv, WorkFloats
<1>6. CASE Delta!LaunchFails
  <2>1. phase' = "poisoned" /\ UNCHANGED <<shape, fed, state, work, output>>
    BY <1>6 DEF Delta!LaunchFails
  <2>2. StateOver(state)'
    BY <1>1, <1>3, <2>1
  <2> QED BY <1>1, <2>1, <2>2 DEF DeltaInv, WorkFloats
<1>7. CASE Delta!Return
  <2>1. /\ phase = "busy" /\ kernels = <<>> /\ phase' = "idle" /\ fed' = fed + tokens
        /\ UNCHANGED <<shape, state, work, output, promised>>
    BY <1>7 DEF Delta!Return
  <2>2. StateOver(state)'
    BY <1>1, <1>3, <2>1
  <2>3. Delta!MatchesReference'
    BY <2>1, DeltaFinished DEF Delta!MatchesReference
  <2>4. fed' \in Nat
    BY <1>1, <2>1
  <2> QED BY <1>1, <2>1, <2>2, <2>3, <2>4 DEF DeltaInv, WorkFloats
<1>8. CASE Delta!Reset
  <2>1. /\ state' = Delta!ZeroState(shape) /\ fed' = 0 /\ phase' = "idle"
        /\ promised' = [state |-> Delta!ZeroState(shape), outputs |-> <<>>]
        /\ UNCHANGED <<shape, work, output>>
    BY <1>8 DEF Delta!Reset
  <2>2. StateOver(state)'
    BY <1>3, <2>1, DeltaLeaves
  <2>3. Delta!MatchesReference'
    <3>1. promised'.state = state' /\ promised'.outputs = <<>> /\ DOMAIN <<>> = {}
      BY <2>1
    <3> QED BY <3>1 DEF Delta!MatchesReference
  <2> QED BY <1>1, <2>1, <2>2, <2>3 DEF DeltaInv, WorkFloats
<1> QED
  BY <1>4, <1>5, <1>6, <1>7, <1>8 DEF Delta!Next

\* A step that changes nothing keeps it.
LEMMA DeltaIdles ==
  ASSUME DeltaInv,
         UNCHANGED <<shape, policy, tokens, kernels, phase, fed, state, work, output, promised>>
  PROVE  DeltaInv'
<1>1. ASSUME NEW s, StateOver(s) PROVE StateOver(s)'
  BY <1>1 DEF StateOver
<1>2. StateOver(state)'
  BY DEF DeltaInv, StateOver
<1>3. (phase = "idle" => Delta!MatchesReference)'
  BY DEF DeltaInv, Delta!MatchesReference
<1>4. ASSUME phase = "busy"
      PROVE  (\E from : /\ StateOver(from) /\ promised = After(from, tokens)
                        /\ \E k \in 0..4 : kernels = DeltaLeft(k) /\ DeltaDone(from, k))'
  <2>1. PICK from : /\ StateOver(from) /\ promised = After(from, tokens)
                    /\ \E k \in 0..4 : kernels = DeltaLeft(k) /\ DeltaDone(from, k)
    BY <1>4 DEF DeltaInv
  <2>2. ASSUME NEW k, DeltaDone(from, k) PROVE DeltaDone(from, k)'
    <3>1. /\ state.convolution = (IF k = 0 THEN from ELSE After(from, tokens).state).convolution
          /\ state.recurrent = (IF k < 3 THEN from ELSE After(from, tokens).state).recurrent
          /\ k = 1 => ConvolvedIn(work, from)
          /\ k = 2 => NormalizedIn(work, from)
          /\ k = 3 => RawIn(work, from)
          /\ k = 4 => MadeIn(output, from)
      BY <2>2 DEF DeltaDone
    <3> QED BY <3>1, DeltaDoneNext
  <2>3. (promised = After(from, tokens))'
    BY <2>1 DEF After
  <2>4. (\E k \in 0..4 : kernels = DeltaLeft(k) /\ DeltaDone(from, k))'
    BY <2>1, <2>2, DeltaStays
  <2> QED BY <1>1, <2>1, <2>3, <2>4
<1> QED
  BY <1>2, <1>3, <1>4 DEF DeltaInv

\* However a stream is cut into chunks and whichever schedule runs each, for every
\* shape, block, tile and warp: every chunk leaves in the state and in the output
\* what the reference backend makes of the same tokens one after the other.
THEOREM DeltaIsTheReference == KernelsSpec => []DeltaMatchesReference
<1> DEFINE I == GridInv /\ (unit = "delta" => DeltaInv)
<1>1. KernelsInit => I
  BY GridStarts, DeltaStarts
<1>2. I /\ [KernelsNext]_kernelsVars => I'
  <2> SUFFICES ASSUME I, [KernelsNext]_kernelsVars PROVE I'
    OBVIOUS
  <2>1. GridInv'
    BY GridKeeps
  <2>2. CASE UNCHANGED kernelsVars
    <3>1. UNCHANGED <<unit, shape, policy, tokens, kernels, phase, fed, state, work, output, promised>>
      BY <2>2 DEF kernelsVars, layersOnly
    <3>2. ASSUME unit = "delta" PROVE DeltaInv'
      <4>1. DeltaInv
        BY <3>2
      <4> QED BY <3>1, <4>1, DeltaIdles
    <3> QED BY <2>1, <3>1, <3>2
  <2>3. CASE KernelsNext
    <3>1. unit' = unit
      BY <2>3 DEF KernelsNext
    <3>2. ASSUME unit = "delta" PROVE DeltaInv'
      <4>1. Delta!Next
        BY <2>3, <3>2 DEF KernelsNext
      <4> QED BY <3>2, <4>1, DeltaKeeps DEF GridInv
    <3> QED BY <2>1, <3>1, <3>2
  <2> QED BY <2>2, <2>3
<1>3. I => DeltaMatchesReference
  BY DEF DeltaInv, DeltaMatchesReference, Delta!MatchesReference
<1> HIDE DEF I
<1> QED
  BY <1>1, <1>2, <1>3, PTL DEF KernelsSpec
=============================================================================
