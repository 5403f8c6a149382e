CONSTANTS
  NoFrame = NoFrame
  NoCode = NoCode
  SEND_QUEUE_SIZE = 2
  MAX_REPLAY = 3
  MaxSeq = 3
  MaxChannel = 1
  MaxHellos = 1
  MaxDrops = 0
SPECIFICATION FairSpec
PROPERTIES
  EveryRowArrives
CHECK_DEADLOCK FALSE
