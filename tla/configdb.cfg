SPECIFICATION Spec
CONSTANTS
  Hosts = {1, 2}
  Addrs = {1, 2}
  Lines <- MCLines
  MaxRecords = 4
INVARIANTS
  TreeShapeDoesNotMatter
  EveryLineKept
  AppropriateRecordFound
CHECK_DEADLOCK FALSE
