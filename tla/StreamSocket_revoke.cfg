CONSTANTS
  NoFrame = NoFrame
  NoCode = NoCode
  SEND_QUEUE_SIZE = 1
  ClientFrames <- FaultyPeer
  GroupEvents <- RevokingGroup
  MaxInbox = 1
  MaxEvents = 1
  HEARTBEAT = FALSE
SPECIFICATION Spec
PROPERTIES
  RevokeCloses4410
CHECK_DEADLOCK FALSE
