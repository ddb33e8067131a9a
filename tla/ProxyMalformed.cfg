CONSTANTS
  c1 = c1
  c2 = c2
  c3 = c3
  Conns = {c1}
  Codes = {"B2", "XX", "YY"}
  Handled = {"B2"}
  Stream <- MalformedStream
  MaxFrame = 4
  ReadChunk = 3
  Cap = 6
  MaxConnections = 1
  MaxLives = 1
  Configs <- Production
  LogRoom = 1
  Greedy = {}
SPECIFICATION DeliverySpec
PROPERTY MalformedIsClosed
