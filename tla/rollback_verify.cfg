\* Updates and deletions with verify_name, of a resource with and without that name.
SPECIFICATION Spec
CONSTANTS
  None = None
  Blank = Blank
  Bad = Bad
  Cidrs <- MCCidrs
  Covers <- MCCovers
  Files <- VerifyFiles
  Bams <- MCBams
  Permissions = {TRUE, FALSE}
  MaxFaults = 1
INVARIANT VerifiedBeforeChange
CHECK_DEADLOCK FALSE
