\* The default minimum concurrency of 1.
SPECIFICATION FairSpec
CONSTANTS
  Op <- FileOps
  Kind <- FileKind
  Deps <- FileDeps
  BatchOf <- FileBatch
  DeferredOn <- FileDeferred
  Resource <- FileThings
  Target <- FileTarget
  Key <- FileThings
  KeyOf <- FileTarget
  BadPayload = {"badRecord"}
  Existing = {"zone", "block6", "rename"}
  StartBatches = {0}
  MayBeRateLimited = {"zone"}
  MaxRetries = 1
  None = None
  InitialConcurrency = 2
  MinConcurrency = 1
  MaxConcurrency = 3
  FactorUnit = 10
  IncreaseFraction = 2
  DecreaseFraction = 2
  RateLimitFraction = 5
PROPERTY EveryPlanFinishes
CHECK_DEADLOCK FALSE
