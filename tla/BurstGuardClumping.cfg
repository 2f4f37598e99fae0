CHECK_DEADLOCK FALSE
CONSTANTS
  c1 = c1
  c2 = c2
  Callers <- MCCallers
  Durations <- MCDurations
  Intervals = {0}
SPECIFICATION FairSpec
PROPERTIES
  ClumpedTogether
