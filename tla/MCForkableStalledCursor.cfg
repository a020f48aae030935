\* Default options; the cursors of Stalled steps.
CONSTANTS
  Blocks <- MCBlocks
  Parent <- MCParent
  Num <- MCNum
  LibNum <- MCLibNum
  NoBlock = NoBlock
  FilterSteps <- MCAllSteps
  InitialLIBs = {NoBlock}
  IncludeInitialLIB = FALSE
  EnsureBlockFlows = NoBlock
  EnsureAllBlocksTriggerLongestChain = FALSE
  HoldBlocksUntilLIB = FALSE
  KeptFinalBlocks = 0
  UnlinkableLimit = 2
  MaxCalls = 10

SPECIFICATION Spec

INVARIANT CursorWellFormed

\* The upstream stream is finite (MaxCalls) and an error stops the source.
CHECK_DEADLOCK FALSE
