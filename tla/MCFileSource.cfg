\* Three bundles of two blocks, start in the middle of the first, the gator
\* refusing block 4, two preprocess threads, no failures.
CONSTANTS
  StartBlockNum = 1
  StopBlockNum = 0
  BundleSize = 2
  PreprocessorThreadCount = 2
  GatorPass = {0, 1, 2, 3, 5}
  MaxBase = 4
  BlockIndexer = FALSE
  Index = {}
  Failures = {}

SPECIFICATION Spec

INVARIANT DeliveredIsPrefix
INVARIANT PreprocessGoroutinesBounded

\* Until it is stopped the caller can always stop the source; after that it
\* stops once every goroutine returned (ShutdownQuiesces, which an
\* OpenObject failure breaks).
CHECK_DEADLOCK FALSE
