CONSTANTS
  Threads = {t1, t2}
  Targets = {"none", "file", "console"}
  MaxDepth = 3
SPECIFICATION Spec
INVARIANTS
  TypeOK
  RetiredIsSilent
PROPERTIES
  ReportedFromOutermost
