\* An open-ended source with a block indexer holding blocks 0 and 5, over
\* bundles of two blocks 0..5: bundle 0 is read for its start block 1 (no
\* indexed block at or above it), bundle 2 is skipped, bundle 4 is read for
\* block 5, and the scan then runs past the last bundle and never returns.
\* BlocksInRange and OpenObject may fail; one preprocess thread.
CONSTANTS
  StartBlockNum = 1
  StopBlockNum = 0
  BundleSize = 2
  PreprocessorThreadCount = 1
  GatorPass = {0, 1, 2, 3, 4, 5}
  MaxBase = 4
  BlockIndexer = TRUE
  Index = {0, 5}
  Failures = {"index", "open"}

SPECIFICATION Spec

PROPERTY ImplementsAbstractFileSource

\* The caller can always stop the source until it is stopped; a failure
\* may leave goroutines blocked for good (runs filesource_open_failure and
\* filesource_index_spin).
CHECK_DEADLOCK FALSE
