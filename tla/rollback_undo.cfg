\* The files of rollback.cfg: importing the rollback file restores BAM.
SPECIFICATION Spec
CONSTANTS
  None = None
  Blank = Blank
  Bad = Bad
  Cidrs <- MCCidrs
  Covers <- MCCovers
  Files <- MCFiles
  Bams <- MCBams
  Permissions = {TRUE, FALSE}
  MaxFaults = 1
INVARIANT RollbackUndoesTheImport
CHECK_DEADLOCK FALSE
