CONSTANTS
  s1 = s1
  s2 = s2
  r1 = r1
  r2 = r2
  chat = chat
  ws = ws
  one = one
  board = board
  H = H
  Absent = Absent
  Forever = Forever
  Unset = Unset
  NotANumber = NotANumber
  Segments <- Words
  LengthOf <- Lengths
  Digest <- Itself
  MAX_GROUP_NAME = 14
  MaxWorkers = 2
  RedisHosts <- TwoHosts
  Seconds = {1, 2, 3}
  Sockets <- TwoSockets
  Calls <- SomeCalls
  SignalTypes = {"status"}
  EXPIRY = 2
  Capacity = 1
  Configurations <- SomeConfigurations
SPECIFICATION Spec
INVARIANTS
  TypeOK
  SignalsStayOnTheirStream
PROPERTIES
  SilentCheckReachesEverySocket
  SilentCheckKeepsIdleSockets
  ImplementsBroadcast
SYMMETRY Swap
