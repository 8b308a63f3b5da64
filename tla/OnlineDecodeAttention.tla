----------------------- MODULE OnlineDecodeAttention ------------------------
(***************************************************************************)
(* One full-attention decode step on the device: the cache append, the     *)
(* single-block kernel, and the split-K partition and merge kernels, which *)
(* are launched in that order on one stream.  Every kernel decides from    *)
(* the device position whether the step is its own.  The blocks of the     *)
(* partition kernel run in any order.  A launch is either eager (the plan  *)
(* is computed for the position) or the replay of the graph variant mapped *)
(* to the position, whose plan was frozen when it was created.  Partial    *)
(* results of earlier launches stay in the workspace.                      *)
(***************************************************************************)
EXTENDS DecodePlan

CONSTANT QueryHeads   \* number of query heads

ASSUME QueryHeadsAssumption == QueryHeads \in Nat \ {0}

Heads == 0 .. QueryHeads - 1
Slot == 0 .. QueryHeads * MaxPartitions - 1   \* partial_count of the layout

VARIABLES
  position,  \* the position the kernels read
  plan,      \* the plan the launch was made with
  pc,        \* the kernel the stream is at
  pending,   \* partition blocks that have not run yet
  cache,     \* positions whose key and value are in the cache
  partial,   \* what each workspace slot covers, and whether this launch wrote it
  covered,   \* per head, the positions the attention output was computed from
  writer     \* the kernel that wrote the output of this launch

vars == <<position, plan, pc, pending, cache, partial, covered, writer>>

Init ==
  /\ position = 0
  /\ plan = EagerPlan(0)
  /\ pc = "idle"
  /\ pending = {}
  /\ cache = {}
  /\ partial = [s \in Slot |-> [tokens |-> {}, fresh |-> FALSE]]
  /\ covered = [h \in Heads |-> {}]
  /\ writer = "none"

Context == position + 1

-----------------------------------------------------------------------------
(* Launches *)

Launch(p) ==
  /\ pc = "idle"
  /\ position < MaxContext
  /\ plan' = p
  /\ pc' = "append"
  /\ partial' = [s \in Slot |-> [partial[s] EXCEPT !.fresh = FALSE]]
  /\ covered' = [h \in Heads |-> {}]
  /\ writer' = "none"
  /\ UNCHANGED <<position, pending, cache>>

LaunchEager == Launch(EagerPlan(position))

LaunchGraph == Launch(VariantPlan(VariantIndex[position]))

-----------------------------------------------------------------------------
(* Kernels *)

AppendCache ==
  /\ pc = "append"
  /\ cache' = cache \union {position}
  /\ pc' = "model"
  /\ UNCHANGED <<position, plan, pending, partial, covered, writer>>

\* The single-block kernel leaves contexts at or past the threshold alone.
SingleBlockServes == plan.threshold = 0 \/ Context < plan.threshold

ModelKernel ==
  /\ pc = "model"
  /\ IF SingleBlockServes
       THEN /\ covered' = [h \in Heads |-> 0 .. position]
            /\ writer' = "model"
       ELSE UNCHANGED <<covered, writer>>
  /\ IF plan.partition = 0
       THEN pc' = "done" /\ UNCHANGED pending
       ELSE /\ pc' = "partition"
            /\ pending' = 0 .. QueryHeads * plan.capacity - 1
  /\ UNCHANGED <<position, plan, cache, partial>>

\* Mutation: the share of the last, partly filled partition is not cut to the
\* context.
MutPartitionEnd(begin) == begin + plan.partition

\* End of the share of a partition: the context or the next partition.
PartitionEnd(begin) ==
  IF Context < begin + plan.partition THEN Context ELSE begin + plan.partition

\* Mutation: a partition that is not full is skipped.
MutShareIsEmpty(begin) == begin + plan.partition > Context

ShareIsEmpty(begin) == begin >= Context

\* One block of the partition kernel: it scans its share of the context for
\* one head, unless the context is below the threshold or its share is empty.
PartitionBlock(block) ==
  LET head  == block \div plan.capacity
      part  == block % plan.capacity
      begin == part * plan.partition
  IN  /\ pc = "partition"
      /\ block \in pending
      /\ pending' = pending \ {block}
      /\ IF Context < plan.threshold \/ ShareIsEmpty(begin)
           THEN UNCHANGED partial
           ELSE partial' = [partial EXCEPT
                  ![head * MaxPartitions + part] =
                    [tokens |-> begin .. PartitionEnd(begin) - 1, fresh |-> TRUE]]
      /\ UNCHANGED <<position, plan, pc, cache, covered, writer>>

PartitionDone ==
  /\ pc = "partition"
  /\ pending = {}
  /\ pc' = "merge"
  /\ UNCHANGED <<position, plan, pending, cache, partial, covered, writer>>

ActivePartitions == CeilDiv(Context, plan.partition)

HeadSlots(head) ==
  {head * MaxPartitions + part : part \in 0 .. ActivePartitions - 1}

\* The merge kernel traps when the context needs more partitions than planned.
MergeKernel ==
  /\ pc = "merge"
  /\ IF Context < plan.threshold
       THEN pc' = "done" /\ UNCHANGED <<covered, writer>>
     ELSE IF ActivePartitions > plan.capacity
       THEN pc' = "trapped" /\ UNCHANGED <<covered, writer>>
     ELSE /\ pc' = "done"
          /\ covered' = [h \in Heads |->
                           UNION {partial[s].tokens : s \in HeadSlots(h)}]
          /\ writer' = "merge"
  /\ UNCHANGED <<position, plan, pending, cache, partial>>

-----------------------------------------------------------------------------
(* Between launches *)

\* The next decode is one position further on.
NextPosition ==
  /\ pc = "done"
  /\ pc' = "idle"
  /\ position' = position + 1
  /\ UNCHANGED <<plan, pending, cache, partial, covered, writer>>

\* A reset clears the cache and the position, not the workspace.
Reset ==
  /\ pc = "idle"
  /\ position > 0
  /\ position' = 0
  /\ cache' = {}
  /\ UNCHANGED <<plan, pc, pending, partial, covered, writer>>

Next ==
  \/ LaunchEager
  \/ LaunchGraph
  \/ AppendCache
  \/ ModelKernel
  \/ \E block \in pending : PartitionBlock(block)
  \/ PartitionDone
  \/ MergeKernel
  \/ NextPosition
  \/ Reset

\* Work on the stream is executed in order and the device makes progress.
Device ==
  \/ AppendCache
  \/ ModelKernel
  \/ \E block \in pending : PartitionBlock(block)
  \/ PartitionDone
  \/ MergeKernel

Spec == Init /\ [][Next]_vars /\ WF_vars(Device)

-----------------------------------------------------------------------------
(* Properties *)

\* When a step is done, every head's output was computed from the whole
\* context and from nothing else, whichever kernels ran and whatever the
\* workspace held before; the merge kernel only combines partial results of
\* its own launch.
AttendsWholeContext ==
  /\ pc = "done" => /\ \A h \in Heads : covered[h] = 0 .. position
                    /\ 0 .. position \subseteq cache
  /\ (pc = "merge" /\ Context >= plan.threshold) =>
       \A h \in Heads : \A s \in HeadSlots(h) : partial[s].fresh

\* The attention output of a step comes from the same kernel whether the step
\* ran eagerly or by replay: the graph position map switches to split-K at the
\* very position at which the eager plan does.
SameKernelAsEager ==
  pc = "done" =>
    writer = IF Partition # 0 /\ Context >= Partition THEN "merge" ELSE "model"

\* Every launched step comes to an end: a graph frozen for a context bucket is
\* never replayed for a context it cannot hold, where the merge kernel traps.
LaunchCompletes == (pc = "append") ~> (pc = "done")

=============================================================================
