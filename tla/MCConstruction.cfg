CONSTANTS
  WordMax = 255
  HalfMax = 15
  MaxFloats = 31
  Metadata <- MCMetadata
  Type = {"f32", "f16", "bf16"}
  ContextSize = {0, 1, 3, 4}
  Configs <- MCConfigs
  ContextSizes = {0, 1, 3}
  EditValue = {0, 1, 2, 14}
  MaxEdits = 2
  Counts = {0, 1, 2, 14, 15}
  SmallDim = 2
  LargeDim = 4
  TunedBucket <- MCTunedBucket
  Chunk = {1, 2, 4, 8}
  Context = {1, 5, 9}
  Dim = {2, 3, 4}
  LinearLayers = {0, 2}
  Median = {48, 49, 50}
  SpeedupPercent = 98
  Model <- MCModels
  Bucket <- MCBucket
  Released = {1, 4}
  MaxPrefillTokens = 4
  DescriptorLimit = 8
  Budget = 1
  Algorithm = {1, 2, 3}
  Need <- MCNeed
  MaxCandidates = 2
  Time = {1, 2}
  Home = d0
  Device = {d0, d1}
  MaxDenied = 2
  Variant = {"single_block", "split_k"}
  Launches = 3
  NoGraph = NoGraph
SPECIFICATION AnySpec
CHECK_DEADLOCK FALSE
INVARIANTS
  LoadedModelsFit
  HostStateServes
  PlansServe
  GraphsServe
  TunedSchedulesServe
