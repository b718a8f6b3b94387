SPECIFICATION FairSpec
CONSTANTS
  d = d
  p = p
  NoPeer = NoPeer
  Calls = {a, b, c, d}
  Peer <- MCPeer
  Max = 2
  PeerMax = 1
CHECK_DEADLOCK FALSE
INVARIANTS InFlightExact StuckExact PeerCountExact PeerTableDrains
PROPERTIES BreakerRecovers StuckRecovers
