SPECIFICATION Spec
CONSTANTS
  Config <- MCConfig
  WordMax = 1073741823
  MatmulBudget = 4194304
  MaxPrefillTokens = 512
  Bucket <- MCBucket
INVARIANTS
  EstimateSuffices
  ArenaPassesCheck
  OperandsStayInBuffers
CHECK_DEADLOCK FALSE
