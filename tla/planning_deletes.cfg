\* Violated: both deletions are in one batch, nothing orders them.
SPECIFICATION Spec
CONSTANTS
  None = None
  Cidrs <- MCCidrs
  Covers <- MCCovers
  Files <- MCFiles
  Bams <- MCBams
  BatchSizes = {0}
  Wirings = {"planner"}
INVARIANT ChildrenDeletedFirst
CHECK_DEADLOCK FALSE
