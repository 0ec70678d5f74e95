\* Three runs of a file, two of them stopped anywhere.
SPECIFICATION Spec
CONSTANTS
  Op <- FileOps
  Kind <- FileKind
  Deps <- FileDeps
  BatchOf <- FileBatch
  DeferredOn <- FileDeferred
  Resource <- FileOps
  Target <- FileTarget
  Existing = {"old"}
  Reloaded = {"block", "net"}
  MaxRuns = 3
  MaxStops = 2
INVARIANTS
  TypeOK
  NothingSkippedUntried
  KnownIdsAreTheSessions
  UnresolvedForAReason
  ChangelogMissesStoppedRunsOnly
PROPERTIES
  WatermarkNeverFalls
  ResumedImportCompletes
CHECK_DEADLOCK FALSE
