SPECIFICATION FairSpec
CONSTANTS
  Body <- MCAnyBody
  HeaderWidth <- MCHeaderWidth
  BufferSize = 5
  MayVanish = TRUE
  MaxMessages = 3
INVARIANTS TypeOK FramesInStep
PROPERTIES WholeMessages MessagesArrive
CHECK_DEADLOCK FALSE
