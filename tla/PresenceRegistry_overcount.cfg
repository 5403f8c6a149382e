CONSTANTS
  s1 = s1
  s2 = s2
  chat = chat
  video = video
  NoDoc = NoDoc
  Sockets <- TwoTabs
  Families <- OneFamily
  FamilyOf <- ChatOnly
  PRESENCE_TTL_S = 3
  HEARTBEAT_S = 2
  HEARTBEAT_TIMEOUT_S = 1
  CacheFails = FALSE
  Latency = 0
  MaxTime = 4
SPECIFICATION Spec
INVARIANTS
  NeverOverCounts
CHECK_DEADLOCK FALSE
