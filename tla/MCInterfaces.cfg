CONSTANTS
  WordMax = 15
  Dtype = {"f32", "f16", "q4_k", "unknown"}
  ElementSize <- MCElementSize
  Extent <- MCExtent
  ByteSize = {0, 4, 9, 15}
  RankValue = {0, 1, 2, 5}
  Dims = 2
  Capability <- Kernels
  Signature <- Asked
  None = None
SPECIFICATION AnySpec
CHECK_DEADLOCK FALSE
INVARIANTS
  AcceptsExactly
  AnswersWhatIsOwed
  RoundTrips
  MergesInOrder
  WrittenIsRead
