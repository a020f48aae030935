\* A consumer resuming from the cursor of an Undo step.  Forkable created
\* with New(h) and no other option, or resuming above b2
\* (WithInclusiveLIB: the ForkDB starts with b2 as its LIB, not in the
\* DB, as a restart from a cursor does); upstream sends up to MaxCalls
\* blocks of the MCForkable tree in any order, with replays.
CONSTANTS
  Blocks <- MCBlocks
  Parent <- MCParent
  Num <- MCNum
  LibNum <- MCLibNum
  NoBlock = NoBlock
  FilterSteps <- MCAllSteps
  InitialLIBs = {NoBlock, "b2"}
  IncludeInitialLIB = TRUE
  EnsureBlockFlows = NoBlock
  EnsureAllBlocksTriggerLongestChain = FALSE
  HoldBlocksUntilLIB = FALSE
  KeptFinalBlocks = 0
  UnlinkableLimit = 2
  MaxCalls = 10

SPECIFICATION Spec

INVARIANT ResumeFromUndoCursor

CHECK_DEADLOCK FALSE
