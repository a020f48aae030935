\* Every call but OpenObject may fail (an OpenObject failure strands the
\* sink: run filesource_open_failure), and the caller may stop the source
\* at any time; two bundles of two blocks, one preprocess thread.  Stop
\* block 2: once it has pushed bundle 2, run only waits for the shutdown.
CONSTANTS
  StartBlockNum = 1
  StopBlockNum = 2
  BundleSize = 2
  PreprocessorThreadCount = 1
  GatorPass = {0, 1, 2, 3}
  MaxBase = 2
  BlockIndexer = FALSE
  Index = {}
  Failures = {"exists", "read", "preprocess", "handler"}

SPECIFICATION Spec

INVARIANT TypeOK
PROPERTY ShutdownQuiesces

\* Until it is stopped the caller can always stop the source; after that it
\* stops once every goroutine returned (ShutdownQuiesces).
CHECK_DEADLOCK FALSE
