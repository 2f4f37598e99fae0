\* The caller may stop using the object; a write() may wait for ever.
CHECK_DEADLOCK FALSE
CONSTANTS
  Capacity = 2
  MaxBytes = 4
  Sizes = {1, 3, 4, 5}
  Timeouts <- MCTimeouts
  DwordSize = 4
  Scarce = {"event", "thread"}
SPECIFICATION Spec
INVARIANTS
  CancelOnlyAfterTimeout
