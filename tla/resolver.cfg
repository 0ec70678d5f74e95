\* Three sessions in two processes that may overlap, one stop and one change.
SPECIFICATION Spec
CONSTANTS
  Run = {r1, r2}
  Config = "Default"
  Thing = {"10/8", "10.1/16", "2001::/32", "2001::/64"}
  BlockOf <- MCBlockOf
  IPv6 = {"2001::/32", "2001::/64"}
  Bams <- MCBams
  Files <- MCFiles
  MaxSessions = 3
  MaxStops = 1
  MaxChanges = 1
  Deferred = Deferred
  None = None
SYMMETRY Symmetric
INVARIANT StaleForAReason
PROPERTY RowsFindTheirParents
CHECK_DEADLOCK FALSE
