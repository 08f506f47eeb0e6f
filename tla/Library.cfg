SPECIFICATION LibrarySpec
CONSTANTS
  Parts = 3
  Log10 = 2
  MinExponent <- MCMinExponent
  MaxExponent = 4
  Literals <- MCLiterals
  Stale = {0, 7}
  MaxReuse = 1
  MaxDigits = 9
  Days <- MCDays
  MadeYears = {0, 1, 4, 99, 100, 101, 200, 300, 396, 399, 400, 401, 800, 2000, 2100, 9999}
  MaxYear = 9999
  MadeMonths = {0, 1, 2, 3, 4, 5, 6, 7, 8, 9, 10, 11, 12, 13}
  MadeDays = {0, 1, 28, 29, 30, 31, 32}
  MadeTimes <- MCAll
  StampPairs <- MCStampPairs
  Templates <- MCTemplates
  Zones <- MCZones
  DateBufSize = 32
  Numbers <- MCNumbers
  Formats <- MCFormats
  Columns <- MCColumns
  NumberBufSize = 12
  Keys = {k1, k2, k3}
  Data = {x1, x2}
  None = None
  TableSizes = {1, 2, 3, 4}
  Hashes <- MCHashes
  Listener = listener
  Sessions = {s1}
  Descriptors = {3, 4, 5, 6}
  log_file_size_threshold = 2
  MsgLens = {1, 2}
  MAX_LOG_MSG_LEN = 2
  SizeModulus = 16
  MaxMessages = 4
  MaxErrors = 1
  MaxSeconds = 1
  SendSize = 16
  ChunkMax = 4
  MaxChar = 3
  ReadSizes = {4, 9}
  MaxText = 10
  MaxStrings = 2
  OtherSizes = {6, 16}
  MaxOthers = 1
  Recordsets <- MCRecordsets
  RowValues <- MCRowValues
  NullValue <- MCNull
  ZoneMarks <- MCZoneMarks
  Lost = Lost
  BITS = 2
  MAX_COLUMNS = 4
  MaxRetries = 3
  NullBit = 1
INVARIANT SumsPrecise
INVARIANT ProductAndQuotient
INVARIANT StaysNormal
INVARIANT NumberAsPrinted
INVARIANT DaysFollow
INVARIANT MadeAsTaken
INVARIANT DatesSort
INVARIANT AddFindsSlot
INVARIANT LogsApart
INVARIANT RotatesInTime
INVARIANT WholeText
INVARIANT StringsApart
INVARIANT NextCharFits
INVARIANT RefusedInsideChunk
INVARIANT ValuesInPlace
PROPERTY ImplementsMap
CHECK_DEADLOCK FALSE
