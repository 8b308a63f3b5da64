---------------------------- MODULE BlockBarriers ----------------------------
(***************************************************************************)
(* Two kinds of blocks whose threads wait for each other at barriers.      *)
(*                                                                         *)
(* The first makes one vector of another: its threads add the squares of   *)
(* the elements they have, halve the sums in shared memory from barrier to *)
(* barrier, and then all read the one sum and scale their elements.  Three *)
(* kinds of kernel do so: one writes another array, one also turns pairs,  *)
(* and so reads elements of other threads while these write theirs, and    *)
(* one scales the array it reads, in place.  A sum is the set of the       *)
(* elements in it, each with how often it was added.                       *)
(*                                                                         *)
(* The second, of a token and a head, computes its logits one key after    *)
(* another: every warp adds the products of the elements its threads have, *)
(* leaves its sum in shared memory, and the first warp adds these up and   *)
(* stores the logit, while the others may be on their way to the next key. *)
(* The same cells of shared memory serve every key.  Another block then    *)
(* makes probabilities of the logits in place and mixes the values by      *)
(* them, all its warps reading what all have written.  A warp is one       *)
(* actor: its threads run the same code and exchange values in registers.  *)
(* A sum is the set of its products.                                       *)
(***************************************************************************)
EXTENDS BlockHalving, Sequences, FiniteSets

CONSTANTS
  Sizes,       \* of vectors
  Warps,       \* the warps of a block of logits
  WarpSize,
  HeadDims,    \* elements of a head
  KeyCounts    \* how many keys a token sees

SizeAssumption == Sizes \subseteq Nat \ {0}
WarpAssumption == Warps \in Nat \ {0} /\ WarpSize \in Nat /\ WarpSize >= Warps
RowAssumption == HeadDims \subseteq Nat /\ KeyCounts \subseteq Nat \ {0}

-----------------------------------------------------------------------------
(* A vector is made of another *)

VARIABLES
  kind,       \* "norm", "turn" or "in_place"
  size,
  stages,     \* of each thread: what it does next
  cursor,     \* of each thread: the next of its elements, in the last stage
  sums,       \* of each thread, in shared memory
  array,      \* what is read, and in place written
  output

normVars == <<kind, size, stages, cursor, sums, array, output>>

Indices == 0..(size - 1)

Mine(t) == {i \in Indices : i % BlockSize = t}

\* Sums as bags of elements.
Count(sum, i) == IF i \in DOMAIN sum THEN sum[i] ELSE 0
Plus(left, right) ==
  [i \in DOMAIN left \cup DOMAIN right |-> Count(left, i) + Count(right, i)]

\* What an element is at first.
Given(i) == <<"x", i>>

NormInit ==
  /\ kind \in {"norm", "turn", "in_place"}
  /\ size \in Sizes
  /\ kind = "turn" => size % 2 = 0
  /\ stages = [t \in Threads |-> 1]
  /\ cursor = [t \in Threads |-> t]
  /\ sums = [t \in Threads |-> [x \in {<<"junk">>} |-> 1]]
  /\ array = [i \in Indices |-> Given(i)]
  /\ output = [i \in Indices |-> <<"junk">>]

\* Mutation: the loop over strides has no barrier.
MutMayRun(t, s) == stages[t] = s

\* __syncthreads before every stage but the first
MayRun(t, s) == stages[t] = s /\ \A u \in Threads : stages[u] >= s

Pass(t) == stages' = [stages EXCEPT ![t] = @ + 1]

\* The squares of a thread, in a register, and then in shared memory.
Square(t) ==
  /\ MayRun(t, 1)
  /\ sums' = [sums EXCEPT ![t] = [x \in {array[i] : i \in Mine(t)} |-> 1]]
  /\ Pass(t)
  /\ UNCHANGED <<kind, size, cursor, array, output>>

Adds(t, s) == t < Stride(s)

AddHalf(t) ==
  \E s \in 2..(LastStage - 1) :
    /\ MayRun(t, s)
    /\ sums' = IF Adds(t, s) THEN [sums EXCEPT ![t] = Plus(@, sums[t + Stride(s)])]
               ELSE sums
    /\ Pass(t)
    /\ UNCHANGED <<kind, size, cursor, array, output>>

\* The other of a pair.
Partner(i) == IF i < size \div 2 THEN i + size \div 2 ELSE i - size \div 2

\* Mutation: a kernel that turns pairs works in place.
MutInPlace == kind # "norm"

InPlace == kind = "in_place"

\* What an element becomes.
ScaledAs(i, sum, before) ==
  IF kind = "turn" THEN <<"turned", before[i], before[Partner(i)], sum>>
  ELSE <<"scaled", before[i], sum>>

\* An element of a thread, and on to its next.
Scale(t) ==
  /\ MayRun(t, LastStage) /\ cursor[t] \in Indices
  /\ LET value == ScaledAs(cursor[t], sums[0], array) IN
       IF InPlace
       THEN array' = [array EXCEPT ![cursor[t]] = value] /\ UNCHANGED output
       ELSE output' = [output EXCEPT ![cursor[t]] = value] /\ UNCHANGED array
  /\ cursor' = [cursor EXCEPT ![t] = @ + BlockSize]
  /\ UNCHANGED <<kind, size, stages, sums>>

Leave(t) ==
  /\ MayRun(t, LastStage) /\ cursor[t] \notin Indices
  /\ Pass(t)
  /\ UNCHANGED <<kind, size, cursor, sums, array, output>>

NormDone == \A t \in Threads : stages[t] > LastStage

NormNext ==
  \/ \E t \in Threads : Square(t) \/ AddHalf(t) \/ Scale(t) \/ Leave(t)
  \/ NormDone /\ UNCHANGED normVars

NormSpec == NormInit /\ [][NormNext]_normVars

-----------------------------------------------------------------------------
(* A row of logits *)

VARIABLES
  dims, keys,
  warpAt,      \* of each warp: "add", "sum", "next"; then "scan", "soften", "mix", "out"
  key,         \* of each warp: the key it is at
  barrier,     \* of each warp: the barriers it has come to
  cells,       \* of shared memory: a sum for each warp; later the maximum and the denominator
  row,         \* the logits
  mixed        \* for each element of the head, the logits it was mixed by

rowVars == <<dims, keys, warpAt, key, barrier, cells, row, mixed>>

Warp == 0..(Warps - 1)
Products(k) == {<<k, d>> : d \in 0..(dims - 1)}
Logit(products) == <<"logit", products>>

\* The elements that the threads of a warp have.
MyDims(w) == {d \in 0..(dims - 1) : (d % (Warps * WarpSize)) \div WarpSize = w}
MyKeys(w) == {k \in 0..(keys - 1) : (k % (Warps * WarpSize)) \div WarpSize = w}

RowInit ==
  /\ dims \in HeadDims /\ keys \in KeyCounts
  /\ warpAt = [w \in Warp |-> "add"]
  /\ key = [w \in Warp |-> 0]
  /\ barrier = [w \in Warp |-> 0]
  /\ cells = [w \in Warp |-> {}]
  /\ row = [k \in 0..(keys - 1) |-> <<"junk">>]
  /\ mixed = [d \in 0..(dims - 1) |-> {}]

\* __syncthreads: a warp is through when all have come to it.
Passed(w) == \A u \in Warp : barrier[u] >= barrier[w]

Arrive(w) == barrier' = [barrier EXCEPT ![w] = @ + 1]
Goto(w, label) == warpAt' = [warpAt EXCEPT ![w] = label]

-----------------------------------------------------------------------------
(* logits_kernel *)

AddProducts(w) ==
  /\ warpAt[w] = "add" /\ Passed(w)
  /\ cells' = [cells EXCEPT ![w] = {<<key[w], d>> : d \in MyDims(w)}]
  /\ Arrive(w) /\ Goto(w, "sum")
  /\ UNCHANGED <<dims, keys, key, row, mixed>>

\* Mutation: no barrier after the logit is stored.
MutLogitBarrier(w) == UNCHANGED barrier

\* Before shared memory is used for the next key.
LogitBarrier(w) == Arrive(w)

SumWarps(w) ==
  /\ warpAt[w] = "sum" /\ Passed(w)
  /\ row' = IF w = 0
               THEN [row EXCEPT ![key[w]] = Logit(UNION {cells[u] : u \in Warp})]
               ELSE row
  /\ LogitBarrier(w) /\ Goto(w, "next")
  /\ UNCHANGED <<dims, keys, key, cells, mixed>>

\* The bound of the loop is the same for all threads of the block.
More(w) == key[w] + 1 < keys

\* The loop goes on to the next key, or the kernel ends for this warp.
NextKey(w) ==
  /\ warpAt[w] = "next" /\ Passed(w)
  /\ IF More(w)
     THEN key' = [key EXCEPT ![w] = @ + 1] /\ Goto(w, "add")
     ELSE key' = key /\ Goto(w, "end")
  /\ UNCHANGED <<dims, keys, barrier, cells, row, mixed>>

-----------------------------------------------------------------------------
(* output_kernel, after the whole grid *)

OutputStarts ==
  /\ \A w \in Warp : warpAt[w] = "end"
  /\ warpAt' = [w \in Warp |-> "scan"]
  /\ barrier' = [w \in Warp |-> 0]
  /\ cells' = [w \in Warp |-> {}]
  /\ UNCHANGED <<dims, keys, key, row, mixed>>

\* The first thread finds the maximum and the denominator.
ScanLogits(w) ==
  /\ warpAt[w] = "scan"
  /\ cells' = IF w = 0 THEN [cells EXCEPT ![0] = {<<k, row[k]>> : k \in DOMAIN row}]
               ELSE cells
  /\ Arrive(w) /\ Goto(w, "soften")
  /\ UNCHANGED <<dims, keys, key, row, mixed>>

\* Mutation: a warp mixes as soon as its own probabilities are there.
MutSoftenBarrier(w) == UNCHANGED barrier

SoftenBarrier(w) == Arrive(w)

\* Probabilities in place of the logits of a warp's threads.
Soften(w) ==
  /\ warpAt[w] = "soften" /\ Passed(w)
  /\ row' = [k \in DOMAIN row |->
       IF k \in MyKeys(w) THEN <<"p", row[k], cells[0]>> ELSE row[k]]
  /\ SoftenBarrier(w) /\ Goto(w, "mix")
  /\ UNCHANGED <<dims, keys, key, cells, mixed>>

Mix(w) ==
  /\ warpAt[w] = "mix" /\ Passed(w)
  /\ mixed' = [d \in DOMAIN mixed |->
       IF d \in MyDims(w) THEN {<<k, row[k]>> : k \in DOMAIN row} ELSE mixed[d]]
  /\ Goto(w, "out")
  /\ UNCHANGED <<dims, keys, key, barrier, cells, row>>

RowDone == \A w \in Warp : warpAt[w] = "out"

Step(w) ==
  AddProducts(w) \/ SumWarps(w) \/ NextKey(w) \/ ScanLogits(w) \/ Soften(w) \/ Mix(w)

\* Only where all warps are done may none go on: a barrier that some never come to
\* is a deadlock.
RowNext == (\E w \in Warp : Step(w)) \/ OutputStarts \/ (RowDone /\ UNCHANGED rowVars)

RowSpec == RowInit /\ [][RowNext]_rowVars

-----------------------------------------------------------------------------
(* Properties *)

\* Every element is scaled by the sum of all elements as they were given, each
\* added once, and pairs are turned from what both were, whichever threads are
\* ahead of others.
ScaledByWhole ==
  NormDone =>
    LET whole == [x \in {Given(i) : i \in Indices} |-> 1]
    IN \A i \in Indices :
         (IF kind = "in_place" THEN array ELSE output)[i] = ScaledAs(i, whole, [x \in Indices |-> Given(x)])

\* When the logits are done, each is the sum of all products of its own key and
\* none of another, however far some warps are ahead of the first.
LogitsAreWhole ==
  (\A w \in Warp : warpAt[w] = "end") => \A k \in DOMAIN row : row[k] = Logit(Products(k))

\* Every element is mixed by probabilities, none by a logit that is yet to be made
\* one, and each probability is relative to all logits of the row.
MixesProbabilities ==
  \A d \in DOMAIN mixed : mixed[d] # {} =>
    mixed[d] = {<<k, <<"p", Logit(Products(k)), {<<j, Logit(Products(j))>> : j \in DOMAIN row}>>>> :
                   k \in DOMAIN row}

\* Threads that share memory wait for each other often enough: every element of a
\* norm is scaled by the sum of all of them as they were given, in place too, and
\* the logits of a row are whole before they are softened, the probabilities before
\* values are mixed by them.
BarriersSuffice == ScaledByWhole /\ LogitsAreWhole /\ MixesProbabilities
=============================================================================
