CONSTANTS
  Size = 3
  Byte = {0, 1, 2, 3, 4, 5, 6}
  Sizes = {1, 2, 4}
  SendSize = 4
  Chunks = {1, 3}
  Crossing = TRUE
  ShortWrites = FALSE
  MaxGiven = 6
SPECIFICATION ChannelFairSpec
CHECK_DEADLOCK FALSE
INVARIANT WireInOrder
