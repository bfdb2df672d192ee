SPECIFICATION Spec
CONSTANTS
  Base = 16
  Hosts = {"h1", "h2"}
  Connected = {"h1"}
  Elevating = {"h1"}
  Terminal = "console"
  Lines <- MCLines
  Records <- MCRecords
  Files <- MCFiles
  Contents <- MCContents
  Positions = {"1"}
  MaxTyped = 1
  MaxRepeated = 1
  MaxDepth = 5
INVARIANTS
  FileIsAsTyped
  OnlyCyclesOverflow
  ReadAsSent
  AcceptedIsUnderstood
  WordsAreKept
  RemoveUndoesAdd
CHECK_DEADLOCK FALSE
