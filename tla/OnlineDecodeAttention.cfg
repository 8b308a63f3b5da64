\* Buckets double from 2 and the longest context is no power of two, so that
\* buckets of one, two and a cut number of partitions occur.
CONSTANTS
  MaxContext = 7
  MinContextBucket = 2
  Partition = 2
  QueryHeads = 2
SPECIFICATION Spec
INVARIANTS
  AttendsWholeContext
  SameKernelAsEager
PROPERTY LaunchCompletes
