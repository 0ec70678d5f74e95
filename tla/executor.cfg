\* A file with two barriers and an overlap of parent and child in one batch; runs
\* that begin anew or at batches 2 and 3.
SPECIFICATION FairSpec
CONSTANTS
  Op <- FileOps
  Kind <- FileKind
  Deps <- FileDeps
  BatchOf <- FileBatch
  DeferredOn <- FileDeferred
  Resource <- FileThings
  Target <- FileTarget
  Key <- FileThings
  KeyOf <- FileTarget
  BadPayload = {"badRecord"}
  Existing = {"zone", "block6", "rename"}
  StartBatches = {0, 2, 3}
  MayBeRateLimited = {"zone"}
  MaxRetries = 1
  None = None
  InitialConcurrency = 2
  MinConcurrency = 2
  MaxConcurrency = 3
  FactorUnit = 10
  IncreaseFraction = 2
  DecreaseFraction = 2
  RateLimitFraction = 5
INVARIANTS
  TypeOK
  DependenciesSettled
  NoCallBelowFailure
  ResultsMatchStatuses
  SlotsReturnedBetweenBatches
  DeferredIdsAreTheParents
PROPERTIES
  UsesThrottleCorrectly
  ImplementsExecution
  EveryPlanFinishes
CHECK_DEADLOCK FALSE
