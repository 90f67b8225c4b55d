SPECIFICATION Spec
CONSTANTS
  Null = Null  Stray = Stray  Gone = Gone  Table = Table  Frame = Frame
  None = None
  Half32 = 8  Half16 = 4
  Kept <- AllTypes
  ChecksRole = TRUE
CHECK_DEADLOCK FALSE
INVARIANTS HandlesFit FaultsKnown LookupsSucceed WordsKept
