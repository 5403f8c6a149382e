CONSTANTS
  NoFrame = NoFrame
  NoCode = NoCode
  SEND_QUEUE_SIZE = 2
  ClientFrames <- TalkingPeer
  GroupEvents <- RevokingGroup
  MaxInbox = 1
  MaxEvents = 1
  HEARTBEAT = TRUE
SPECIFICATION FairSpec
PROPERTIES
  DrainNotPreempted
  RevokeEndsSocket
  ExpiredTokenCloses
  SilentPeerCloses
  ClosingIsReleased
CHECK_DEADLOCK FALSE
