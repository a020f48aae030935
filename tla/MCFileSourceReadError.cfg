\* A Read error in the first file, while run has pushed the second and its
\* reader runs: two bundles of two blocks from block 1, one preprocess
\* thread, no other failure.
CONSTANTS
  StartBlockNum = 1
  StopBlockNum = 0
  BundleSize = 2
  PreprocessorThreadCount = 1
  GatorPass = {0, 1, 2, 3}
  MaxBase = 2
  BlockIndexer = FALSE
  Index = {}
  Failures = {"read"}

SPECIFICATION Spec

INVARIANT DeliveredIsPrefix

\* The source stops once shut down.
CHECK_DEADLOCK FALSE
