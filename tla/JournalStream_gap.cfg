CONSTANTS
  NoFrame = NoFrame
  NoCode = NoCode
  SEND_QUEUE_SIZE = 4
  MAX_REPLAY = 2
  MaxSeq = 3
  MaxChannel = 2
  MaxHellos = 1
  MaxDrops = 1
SPECIFICATION Spec
INVARIANTS
  ReplayDoneMeansCaughtUp
CHECK_DEADLOCK FALSE
