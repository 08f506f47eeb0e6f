SPECIFICATION RecordsetSpec
CONSTANTS
  Recordsets <- MCRecordsets
  RowValues <- MCRowValues
  NullValue <- MCNull
  ZoneMarks <- MCZoneMarks
  Lost = Lost
  BITS = 2
  MaxRetries = 3
  MAX_COLUMNS = 4
  NullBit = 0
INVARIANT NullsAsDocumented
CHECK_DEADLOCK FALSE
