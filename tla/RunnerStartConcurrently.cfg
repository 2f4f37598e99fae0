\* A runner that is destroyed, or was not constructed, does nothing more.
CHECK_DEADLOCK FALSE
CONSTANTS
  Runners = {r1, r2}
  Serialized = FALSE
SPECIFICATION Spec
INVARIANTS
  ParentEndsPrivate
