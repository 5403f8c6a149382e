CONSTANTS
  NoFrame = NoFrame
  NoCode = NoCode
  SEND_QUEUE_SIZE = 1
  ClientFrames <- Everything
  GroupEvents <- AnyEvent
  MaxInbox = 1
  MaxEvents = 1
  HEARTBEAT = TRUE
SPECIFICATION Spec
INVARIANTS
  TypeOK
  RefusedLeavesNoTrace
  ReleasedWhenEnded
  DrainedCloseIsExplained
  MuteSocketIsClosing
PROPERTIES
  DataNeedsVerdict
CHECK_DEADLOCK FALSE
