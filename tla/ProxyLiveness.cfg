CONSTANTS
  c1 = c1
  c2 = c2
  c3 = c3
  Conns = {c1, c2, c3}
  Codes = {"B2", "XX"}
  Handled = {"B2"}
  Stream <- MixedStreams
  MaxFrame = 4
  ReadChunk = 3
  Cap = 6
  MaxConnections = 2
  MaxLives = 2
  Configs <- OtherModes
  LogRoom = 1
  Greedy = {c3}
SPECIFICATION FairSpec
PROPERTIES ReceivedIsServed BacklogIsAccepted
