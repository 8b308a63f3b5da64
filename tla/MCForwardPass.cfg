CONSTANTS
  Layers <- MCLayers
  ChunkSizes <- MCChunkSizes
  Token = {t1, t2}
  MaxContext = 4
SPECIFICATION Spec
INVARIANTS
  RowsMatch
  StatesMatch
