\* OpenObject may fail; two bundles of two blocks, one preprocess thread.
CONSTANTS
  StartBlockNum = 1
  StopBlockNum = 0
  BundleSize = 2
  PreprocessorThreadCount = 1
  GatorPass = {0, 1, 2, 3}
  MaxBase = 2
  BlockIndexer = FALSE
  Index = {}
  Failures = {"open"}

SPECIFICATION Spec

PROPERTY ShutdownQuiesces

\* Until it is stopped the caller can always stop the source; after that it
\* stops once every goroutine returned (ShutdownQuiesces, which an
\* OpenObject failure breaks).
CHECK_DEADLOCK FALSE
