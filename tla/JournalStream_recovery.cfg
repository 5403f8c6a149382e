CONSTANTS
  NoFrame = NoFrame
  NoCode = NoCode
  SEND_QUEUE_SIZE = 6
  MAX_REPLAY = 2
  MaxSeq = 3
  MaxChannel = 2
  MaxHellos = 2
  MaxDrops = 1
SPECIFICATION FairSpec
INVARIANTS
  TypeOK
  RowsAscend
  CleanHelloCatchesUp
PROPERTIES
  SkippedStaysSkipped
  EveryRowArrives
CHECK_DEADLOCK FALSE
