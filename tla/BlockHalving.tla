----------------------------- MODULE BlockHalving -----------------------------
(***************************************************************************)
(* What blocks of threads have in common that reduce what each thread has  *)
(* to one: stage 1 leaves it in the thread's cell of shared memory, every  *)
(* stage after it halves the cells that count, and the last stage has the  *)
(* first cell to itself.                                                   *)
(***************************************************************************)
EXTENDS Integers

CONSTANT BlockSize       \* kBlockSize

Threads == 0..(BlockSize - 1)

\* The threads of a block, halved again and again.
Halved[k \in 0..BlockSize] == IF k = 0 THEN BlockSize ELSE Halved[k - 1] \div 2

Levels == CHOOSE k \in 1..BlockSize : Halved[k] = 1
LastStage == Levels + 2
Stride(s) == Halved[s - 1]

\* Halving leaves no thread out.
BlockAssumption ==
  /\ BlockSize \in Nat /\ Levels \in 1..BlockSize /\ Halved[Levels] = 1
  /\ \A k \in 1..Levels : Halved[k - 1] = 2 * Halved[k]
=============================================================================
