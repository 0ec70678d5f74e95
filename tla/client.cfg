\* Two creations and a walk with one session's end, two 429s and one fault.
SPECIFICATION Spec
CONSTANTS
  Writer = {w1, w2}
  Walker = {walk}
  Key = {"first", "p1@0", "p2", "p3"}
  First = "first"
  Page = {"p1", "p2", "p3"}
  PageOf <- MCPageOf
  Links <- MCLinks
  Item = {"a", "b", "c", "d"}
  ItemsOf <- MCItemsOf
  MaxItems = 0
  MaxPages = 5
  MaxRateLimitRetries = 1
  MaxExpiries = 1
  MaxLimits = 2
  MaxFaults = 1
  KeepsSessions = TRUE
  None = None
INVARIANTS
  TypeOK
  AppliedAtMostOnce
  SendsAreBounded
  OneExpiryFailsNothing
  WalksAreComplete
PROPERTY RequestsEnd
CHECK_DEADLOCK FALSE
