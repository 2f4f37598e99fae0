\* A runner that is destroyed, or was not constructed, does nothing more.
CHECK_DEADLOCK FALSE
CONSTANTS
  Runners = {r1, r2, r3}
  Serialized = TRUE
SPECIFICATION Spec
INVARIANTS
  TypeOK
  OpenWhileStarted
  ChildConnected
  ParentEndsPrivate
