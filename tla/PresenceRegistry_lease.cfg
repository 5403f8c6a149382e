CONSTANTS
  s1 = s1
  s2 = s2
  chat = chat
  video = video
  NoDoc = NoDoc
  Sockets <- TwoTabs
  Families <- TwoFamilies
  FamilyOf <- ChatAndVideo
  PRESENCE_TTL_S = 3
  HEARTBEAT_S = 1
  HEARTBEAT_TIMEOUT_S = 1
  CacheFails = TRUE
  Latency = 0
  MaxTime = 4
SPECIFICATION Spec
INVARIANTS
  TypeOK
  LeaseIsHonest
  OpenSocketCounts
PROPERTIES
  BeatHeals
SYMMETRY Swap
CHECK_DEADLOCK FALSE
