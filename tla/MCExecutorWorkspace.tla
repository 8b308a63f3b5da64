------------------------ MODULE MCExecutorWorkspace ------------------------
\* The real constants; a word of 30 bits.  Models of the release's attention
\* signature and smaller ones, contexts on both sides of every threshold, and
\* configurations that are refused.
EXTENDS ExecutorWorkspace

Small ==
  [vocabulary |-> 300, hidden |-> 8, intermediate |-> 12, context |-> 600,
   maxContext |-> 3, heads |-> 4, kvHeads |-> 2, headDim |-> 2, keyHeads |-> 1,
   valueHeads |-> 2, linearDim |-> 4, convWidth |-> 4,
   blocks |-> <<"linear", "full">>, weight |-> "bf16"]

Release ==
  [Small EXCEPT !.hidden = 4096, !.heads = 16, !.kvHeads = 4, !.headDim = 256,
                !.valueHeads = 32, !.linearDim = 128, !.keyHeads = 16]

MCConfig ==
  {Small, Release,
   [Small EXCEPT !.maxContext = 1, !.intermediate = 3],
   [Small EXCEPT !.maxContext = 600, !.convWidth = 1, !.weight = "f16"],
   [Small EXCEPT !.blocks = <<"linear", "linear">>, !.maxContext = 20],
   [Small EXCEPT !.blocks = <<"full", "full">>, !.maxContext = 130],
   [Small EXCEPT !.weight = "f32"],
   [Small EXCEPT !.maxContext = 601],
   [Small EXCEPT !.hidden = 6],
   [Small EXCEPT !.heads = 8],
   [Small EXCEPT !.heads = 2],
   [Small EXCEPT !.vocabulary = 268435456 + 100],
   [Release EXCEPT !.maxContext = 255],
   [Release EXCEPT !.maxContext = 256, !.intermediate = 9000],
   [Release EXCEPT !.maxContext = 511],
   [Release EXCEPT !.maxContext = 600, !.intermediate = 9000],
   [Release EXCEPT !.maxContext = 100000, !.context = 100000,
                   !.blocks = <<"full", "linear">>]}

MCBucket == {1, 2, 4, 17, 128, 512}
=============================================================================
