SPECIFICATION Spec
CONSTANTS
  Body <- MCIndented
  HeaderWidth <- MCHeaderWidth
  BufferSize = 5
  MayVanish = FALSE
  MaxMessages = 2
INVARIANT LeftoverExtracted
CHECK_DEADLOCK FALSE
