CONSTANTS
  s1 = s1
  s2 = s2
  u1 = u1
  u2 = u2
  Everyone = Everyone
  NoVerdict = NoVerdict
  NoPort = NoPort
  Garbled = Garbled
  NoOrigin = NoOrigin
  Words <- Texts
  Lower <- LowerCase
  Blank = ""
  HTTP = "http"
  WS = "ws"
  HTTPS = "https"
  WSS = "wss"
  ALLOWED_ORIGINS <- Listed
  SiteOrigins <- Registered
  OriginHeaders <- Headers
  Sockets <- TwoSockets
  Users <- TwoUsers
  UserOf <- EachItsOwn
  AUTHORIZE_CACHE_S = 1
  CAPABILITY_CACHE_S = 1
  CHANNEL_CAPACITY = 2
  MaxTime = 3
SPECIFICATION Spec
SYMMETRY Swap
PROPERTY LeakWindowIsBounded
