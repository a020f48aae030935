\* An open-ended source with a block indexer that holds no block: bundle 0
\* is read for the start block, then lookupBlockIndex scans past the last
\* bundle and never returns, and never sees the shutter.
CONSTANTS
  StartBlockNum = 1
  StopBlockNum = 0
  BundleSize = 2
  PreprocessorThreadCount = 1
  GatorPass = {0, 1, 2, 3}
  MaxBase = 2
  BlockIndexer = TRUE
  Index = {}
  Failures = {}

SPECIFICATION Spec

PROPERTY ShutdownQuiesces

\* Until it is stopped the caller can always stop the source.
CHECK_DEADLOCK FALSE
