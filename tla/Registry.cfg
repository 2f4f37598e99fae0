CONSTANTS
  Keys = {a, b}
  Values = {v}
  Subkeys = {s}
  Data = {1, 2}
SPECIFICATION Spec
INVARIANTS
  NothingLost
  NoHandleLeft
PROPERTIES
  MovedOnReturn
