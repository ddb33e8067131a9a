CONSTANTS
  Reqs = {r1, r2}
  Links = {k1, k2}
  NoLink = NoLink
  NoReq = NoReq
  FrameLens = {2, 3, 6}
  Chunk = 3
  Cap = 3
  MaxSent = 6
  Tls = TRUE
SPECIFICATION FairSpec
INVARIANTS TypeOK NoCrossTalk CapOnlyOnOversized
PROPERTY EveryExchangeEnds
CHECK_DEADLOCK FALSE
