---------------------------- MODULE ParallelArgmax ----------------------------
(***************************************************************************)
(* The choice of the next token on the device: blocks of threads scan the  *)
(* logits with a stride, halve what they have found in shared memory from  *)
(* barrier to barrier, and leave a partial each; one more block goes over  *)
(* the partials.  A single block can do it alone.  Threads of a block run  *)
(* in any order between barriers, and so do blocks.                        *)
(***************************************************************************)
EXTENDS BlockHalving, FiniteSets

CONSTANTS
  Vectors,      \* vectors of logits
  MaxBlocks     \* kArgmaxMaxBlocks

GridAssumption == MaxBlocks \in 1..BlockSize

VARIABLES
  logits,     \* from 0
  kernel,     \* "partials", then "finalize", or "typed" alone; "done"
  stage,      \* of each thread of each block: what it does next
  shared,     \* a value and an index, by block and thread
  partials,   \* the same, by block
  result

argmaxVars == <<logits, kernel, stage, shared, partials, result>>

\* A float as an integer: two below all numbers, in no order with them.
NaN == -2
Infinite == -1

Junk == <<NaN, 0>>
Nothing == <<Infinite, 0>>

Elements == Cardinality(DOMAIN logits)

\* qwen35_parallel_argmax_workspace_bytes, in partials
BlocksFor(n) ==
  LET blocks == (n + BlockSize - 1) \div BlockSize
  IN IF blocks < MaxBlocks THEN blocks ELSE MaxBlocks

Blocks(k) == IF k = "partials" THEN 0..(BlocksFor(Elements) - 1) ELSE {0}

\* There are logits, and each is a number, an infinity or no number.
LogitsAssumption ==
  \A l \in Vectors :
    /\ Cardinality(DOMAIN l) \in Nat \ {0} /\ DOMAIN l = 0..(Cardinality(DOMAIN l) - 1)
    /\ \A i \in DOMAIN l : l[i] \in Nat \cup {NaN, Infinite}

\* Mutation: what is found later wins when it is as large.
MutPrecedes(candidate, current) ==
  candidate[1] # NaN /\ current[1] # NaN /\ candidate[1] >= current[1]

\* argmax_precedes: NaN is neither larger nor the same.
Precedes(candidate, current) ==
  /\ candidate[1] # NaN /\ current[1] # NaN
  /\ \/ candidate[1] > current[1]
     \/ candidate[1] = current[1] /\ candidate[2] < current[2]

Better(candidate, current) == IF Precedes(candidate, current) THEN candidate ELSE current

\* The best of every so many logits.
Scanned(first, stride) ==
  LET count == IF first >= Elements THEN 0 ELSE (Elements - first - 1) \div stride + 1
      seen[k \in 0..count] ==
        IF k = 0 THEN Nothing
        ELSE LET index == first + (k - 1) * stride
             IN Better(<<logits[index], index>>, seen[k - 1])
  IN seen[count]

\* What a thread starts from.
Start(b, t) ==
  CASE kernel = "partials" ->
         Scanned(b * BlockSize + t, BlocksFor(Elements) * BlockSize)
    [] kernel = "typed" -> Scanned(t, BlockSize)
    [] kernel = "finalize" -> IF t < BlocksFor(Elements) THEN partials[t] ELSE Nothing

Begin(k) ==
  /\ kernel' = k
  /\ stage' = [b \in Blocks(k) |-> [t \in Threads |-> 1]]
  /\ shared' = [b \in Blocks(k) |-> [t \in Threads |-> Junk]]

ArgmaxInit ==
  /\ logits \in Vectors
  /\ kernel \in {"partials", "typed"}
  /\ stage = [b \in Blocks(kernel) |-> [t \in Threads |-> 1]]
  /\ shared = [b \in Blocks(kernel) |-> [t \in Threads |-> Junk]]
  /\ partials = [b \in 0..(BlocksFor(Elements) - 1) |-> Junk]
  /\ result = NaN

\* Mutation: the threads of a block do not wait between halvings.
MutReady(b, t, s) == stage[b][t] = s

\* __syncthreads before every stage but the first
Ready(b, t, s) == stage[b][t] = s /\ \A u \in Threads : stage[b][u] >= s

Advance(b, t) == stage' = [stage EXCEPT ![b][t] = @ + 1]

Scan(b, t) ==
  /\ Ready(b, t, 1)
  /\ shared' = [shared EXCEPT ![b][t] = Start(b, t)]
  /\ Advance(b, t)
  /\ UNCHANGED <<logits, kernel, partials, result>>

\* One turn of the loop over strides: threads below the stride take from above it.
Halve(b, t) ==
  \E s \in 2..(LastStage - 1) :
    /\ Ready(b, t, s)
    /\ shared' = IF t < Stride(s)
                 THEN [shared EXCEPT ![b][t] = Better(shared[b][t + Stride(s)], @)] ELSE shared
    /\ Advance(b, t)
    /\ UNCHANGED <<logits, kernel, partials, result>>

Write(b, t) ==
  /\ Ready(b, t, LastStage)
  /\ partials' = IF t = 0 /\ kernel = "partials"
                THEN [partials EXCEPT ![b] = shared[b][0]] ELSE partials
  /\ result' = IF t = 0 /\ kernel # "partials" THEN shared[b][0][2] ELSE result
  /\ Advance(b, t)
  /\ UNCHANGED <<logits, kernel, shared>>

KernelEnds ==
  /\ kernel # "done"
  /\ \A b \in DOMAIN stage, t \in Threads : stage[b][t] > LastStage
  /\ IF kernel = "partials" THEN Begin("finalize")
     ELSE kernel' = "done" /\ UNCHANGED <<stage, shared>>
  /\ UNCHANGED <<logits, partials, result>>

ArgmaxNext ==
  \/ kernel # "done" /\ \E b \in DOMAIN stage, t \in Threads : Scan(b, t) \/ Halve(b, t) \/ Write(b, t)
  \/ KernelEnds
  \/ kernel = "done" /\ UNCHANGED argmaxVars

ArgmaxSpec == ArgmaxInit /\ [][ArgmaxNext]_argmaxVars

-----------------------------------------------------------------------------
(* The reference *)

\* argmax of the reference backend
ReferenceArgmax ==
  LET best[i \in 0..(Elements - 1)] ==
        IF i = 0 THEN 0
        ELSE IF logits[i] # NaN /\ logits[best[i - 1]] # NaN /\ logits[i] > logits[best[i - 1]]
        THEN i ELSE best[i - 1]
  IN best[Elements - 1]

-----------------------------------------------------------------------------
(* Properties *)

\* Whatever the order of threads and blocks, the token is the first of the largest
\* logits, as the reference chooses, in one scan or two.  Logits that are no
\* numbers are passed over, where the reference stays at the first; then nothing
\* but an infinity may be larger than the logit of the token.
FirstOfLargest ==
  kernel = "done" =>
    /\ logits[0] # NaN => result = ReferenceArgmax
    /\ \A i \in DOMAIN logits : logits[i] > logits[result] => logits[result] = NaN /\ logits[i] = Infinite

\* The cells of shared memory that the next step of a thread reads and writes.
Reads(t, s) == IF s \in 2..(LastStage - 1) /\ t < Stride(s) THEN {t, t + Stride(s)}
               ELSE IF s = LastStage /\ t = 0 THEN {0} ELSE {}
Writes(t, s) == IF s = 1 THEN {t} ELSE IF s < LastStage /\ t < Stride(s) THEN {t} ELSE {}

\* No thread writes what another that could run next reads or writes.
NoRace ==
  \A b \in DOMAIN stage, t, u \in Threads :
    LET mine == stage[b][t]
        other == stage[b][u]
    IN t # u /\ Ready(b, t, mine) /\ Ready(b, u, other) /\ mine <= LastStage /\ other <= LastStage =>
         Writes(t, mine) \cap (Reads(u, other) \cup Writes(u, other)) = {}

ArgmaxIsFirst == FirstOfLargest /\ NoRace
=============================================================================
