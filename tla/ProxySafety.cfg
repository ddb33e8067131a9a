CONSTANTS
  c1 = c1
  c2 = c2
  c3 = c3
  Conns = {c1, c2, c3}
  Codes = {"B2", "XX", "YY"}
  Handled = {"B2"}
  Stream <- ThreeStreams
  MaxFrame = 4
  ReadChunk = 3
  Cap = 6
  MaxConnections = 2
  MaxLives = 2
  Configs <- BothModes
  LogRoom = 1
  Greedy = {}
SPECIFICATION Spec
INVARIANTS TypeOK PermitConservation CapOnlyOnMalformed BufferBounded LoggedOncePerLife SeenIsNotLost
PROPERTY ImplementsHostSession
