CONSTANTS
  DeltaShapes <- MCDeltaShapes
  DeltaPolicies <- MCDeltaPolicies
  DeltaTokens = 3
  DeltaTotal = 5
  ConvolutionBlock = 5
  ValueTile = 3
  Columns = 2
  WarpBits = 1
  SmallDim = 2
  LargeDim = 4
  AttentionShapes <- MCAttentionShapes
  AttentionPolicies <- MCAttentionPolicies
  ModelLayer <- MCModelLayer
  AttentionContext = 6
  AttentionTokens = 4
  Lanes = 2
  ValuesPerLane = 2
  QTile = 3
  KTile = 2
  OutputTile = 2
  ShortContext = 2
  ShortWarps = 2
  LongWarps = 3
  BlockSize = 4
  MaxBlocks = 2
  Vectors <- MCVectors
  Sizes = {1, 2, 3, 4, 6}
  Warps = 3
  WarpSize = 3
  HeadDims = {2, 7, 11}
  KeyCounts = {1, 3, 8}
SPECIFICATION KernelsSpec
INVARIANTS
  DeltaMatchesReference
  AttentionMatchesReference
  ThreadsStayApart
  BarriersSuffice
  ArgmaxIsFirst
