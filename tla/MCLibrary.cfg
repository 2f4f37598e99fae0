CONSTANTS
  Entries = {1, 2, 3}
  Room = 1
  Capacity = 2
  Length <- NameLength
  Null = "null"
  Slash = "/"
  Backslash = "backslash"
  EqualSign = "="
  TrimChars = {" "}
  LowerOf <- LowerCase
  NarrowOf <- TwoBytes
  GuidLength = 1
  Roots <- RootNames
  Texts <- SmallTexts
  TextLists <- SmallLists
  DefinitionLists <- Definitions
  FlagSets <- Flags
  ByteBits = 2
  Blocks = {m1, m2, m3}
  NoBlock = NoBlock
  Buffers = {x, y}
  PartLists <- SmallParts
  Native = 2
  SizeValues = 16
  MaxNested = 2
  Depth = 3
  Restricted = {1, 2}
SPECIFICATION LibrarySpec
INVARIANTS
  LibraryTypeOK
  NothingMissed
  NothingInvented
  PartsSurvive
  TextSurvives
  NothingUnaccounted
  AddressesAgree
  PartsKept
  OneOwner
  NothingLeftOpen
  MkdirExists
  FreshTestsPass
PROPERTIES
  EndIsFinal
  CallsEnd
