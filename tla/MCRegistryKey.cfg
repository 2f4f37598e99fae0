CONSTANTS
  Bytes = {0, 1}
  NumberSize = 2
  Strings <- MCStrings
  Arrays <- MCArrays
  Blobs <- MCStored
  Stored <- MCStored
SPECIFICATION Spec
INVARIANTS
  TypeOK
  RoundTrip
PROPERTIES
  ReadIsExact
