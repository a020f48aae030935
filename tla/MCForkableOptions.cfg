\* Options that change when chains switch: every block re-evaluates the
\* longest chain, c4 must flow first, nothing passes before a LIB, and one
\* block is kept below the LIB.
CONSTANTS
  Blocks <- MCBlocks
  Parent <- MCParent
  Num <- MCNum
  LibNum <- MCLibNum
  NoBlock = NoBlock
  FilterSteps <- MCAllSteps
  InitialLIBs = {NoBlock}
  IncludeInitialLIB = FALSE
  EnsureBlockFlows = "c4"
  EnsureAllBlocksTriggerLongestChain = TRUE
  HoldBlocksUntilLIB = TRUE
  KeptFinalBlocks = 1
  UnlinkableLimit = 2
  MaxCalls = 10

SPECIFICATION Spec

INVARIANT StreamFollowsChain
PROPERTY ImplementsAbstractForkable
INVARIANT ResumeFromNewCursor
INVARIANT FinalReplayMatchesStream

\* The upstream stream is finite (MaxCalls) and an error stops the source.
CHECK_DEADLOCK FALSE
