SPECIFICATION Spec
CONSTANTS
  Bodies <- MCBodies
  Glued = "glued"
  InitialLines <- MCLines
  MaxLines = 4
INVARIANTS
  UniqueTables
  TablesKept
  AnswersTellTheTruth
CHECK_DEADLOCK FALSE
