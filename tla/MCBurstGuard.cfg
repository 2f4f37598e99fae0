\* An object that is destroyed, or that was not constructed, does nothing more.
CHECK_DEADLOCK FALSE
CONSTANTS
  c1 = c1
  c2 = c2
  Callers <- MCCallers
  Durations <- MCDurations
  Intervals <- MCIntervals
SPECIFICATION FairSpec
INVARIANTS
  BurstIsArmed
  OneCallback
  NothingOutlivesObject
PROPERTIES
  TimeoutMeansQuiet
  InterferenceHonoured
  ImplementsDebounce
  EveryTriggerAnswered
  DestructorReturns
