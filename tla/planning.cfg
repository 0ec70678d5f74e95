\* Every combination of up to four rows of each group of row types, with BAM empty
\* or full, wired by the planner or by the graph itself.
SPECIFICATION Spec
CONSTANTS
  None = None
  Cidrs <- MCCidrs
  Covers <- MCCovers
  Files <- MCFiles
  Bams <- MCBams
  BatchSizes = {0, 2}
  Wirings = {"planner", "graph"}
INVARIANTS
  PlanFollowsTheGraph
  PhasesInOrder
  LinkedParentsCreatedFirst
  AbortsForAReason
CHECK_DEADLOCK FALSE
