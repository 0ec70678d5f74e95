\* Two creations whose session ends while both use it.
SPECIFICATION Spec
CONSTANTS
  Writer = {w1, w2}
  Walker = {}
  Key = {"first", "p1@0", "p2", "p3"}
  First = "first"
  Page = {"p1", "p2", "p3"}
  PageOf <- MCPageOf
  Links <- MCLinks
  Item = {"a", "b", "c", "d"}
  ItemsOf <- MCItemsOf
  MaxItems = 0
  MaxPages = 5
  MaxRateLimitRetries = 1
  MaxExpiries = 1
  MaxLimits = 0
  MaxFaults = 0
  KeepsSessions = TRUE
  None = None
INVARIANT OneLoginPerExpiry
CHECK_DEADLOCK FALSE
