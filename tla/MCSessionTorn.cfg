CONSTANTS
  MaxContext = 4
  MinContextBucket = 2
  Partition = 2
  Token = {"a", "b"}
  Blank = "blank"
  ContextLength = 5
  ChunkSizes = {1, 2}
  DecodeGraph = TRUE
  FullLayer = {1, 2}
  Argmax <- MCArgmax
SPECIFICATION Spec
INVARIANT HealthyStateIsWhole
