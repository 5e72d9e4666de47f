\* Two inbound connections, one of them rate limited, and one outbound.
SPECIFICATION Spec
CONSTANTS
  p = p  q = q  in1 = in1  in2 = in2  out1 = out1
  Peers = {p, q}
  Conns = {in1, in2, out1}
  PeerOf <- MCPeerOf
  Inbound = {in1, in2}
  Rated = {in2}
  AllowListed = {in1}
  DenyListed = {}
  Value <- MCValue
  MaxConnections = 1
  MinConnections = 1
  MaxPending = 1
INVARIANTS AllTracked WithinLimit ConnectedIsAnnounced PendingCounted GoneIsForgotten
CHECK_DEADLOCK FALSE
