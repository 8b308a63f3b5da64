CONSTANTS
  MaxContext = 4
  MinContextBucket = 2
  Partition = 2
  Token = {"a", "b"}
  Blank = "blank"
  ContextLength = 5
  ChunkSizes = {1, 2}
  DecodeGraph = TRUE
  Argmax <- MCArgmax
SPECIFICATION DriverSpec
INVARIANTS
  ReplayPositionAgrees
  LogitsAreCurrent
