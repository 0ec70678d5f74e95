SPECIFICATION FairSpec
CONSTANTS
  Slot = {s1, s2, s3, s4}
  InitialConcurrency = 2
  MinConcurrency = 1
  MaxConcurrency = 3
  FactorUnit = 10
  IncreaseFraction = 2
  DecreaseFraction = 2
  RateLimitFraction = 5
INVARIANTS
  TypeOK
  CounterIsExact
  NoLostWakeup
  OneAdjustment
  ConcurrencyIsBounded
PROPERTIES
  ImplementsSlotPool
  EveryWaiterServed
CHECK_DEADLOCK FALSE
