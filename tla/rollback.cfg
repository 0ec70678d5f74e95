\* One row of every type and action, pairs of rows, and refused lines, with BAM
\* empty, prepared or full, and one fault in each session.
SPECIFICATION Spec
CONSTANTS
  None = None
  Blank = Blank
  Bad = Bad
  Cidrs <- MCCidrs
  Covers <- MCCovers
  Files <- MCFiles
  Bams <- MCBams
  Permissions = {TRUE, FALSE}
  MaxFaults = 1
INVARIANTS
  RollbackIsAllOrNothing
  SuccessNamesAResource
  RerunCompletesTheImport
PROPERTIES
  RollbackKeepsWhatWasThere
  ProtectedNeedPermission
CHECK_DEADLOCK FALSE
