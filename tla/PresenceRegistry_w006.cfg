CONSTANTS
  s1 = s1
  s2 = s2
  chat = chat
  video = video
  NoDoc = NoDoc
  Sockets <- OneTab
  Families <- OneFamily
  FamilyOf <- ChatOnly
  PRESENCE_TTL_S = 3
  HEARTBEAT_S = 2
  HEARTBEAT_TIMEOUT_S = 1
  CacheFails = FALSE
  Latency = 0
  MaxTime = 10
SPECIFICATION Spec
INVARIANTS
  SilentCheckKeepsLease
CHECK_DEADLOCK FALSE
