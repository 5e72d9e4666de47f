CONSTANTS
  bob = bob
  carol = carol
  dave = dave
  sc0 = sc0
  NoUser = NoUser
  Group = GR1
  Master = {}
  Client = {}
  Func <- MCFunc
  Volatile <- MCVolatile
  Committed = {}
  Method <- GroupMethods
  Self0 <- Poor
  Exec <- MCExec
  Accepts <- MCAccepts
  Return <- MCReturn
  Peer = {bob, carol}
  PeerList <- Pair
  Relay = bob
  MaxOut <- CarolSends
  MaxLost = 1

SPECIFICATION NetSpec
 
INVARIANT PerformedByAll
INVARIANT SignedMeansLogged
PROPERTY ImplementsUntilLoss
CHECK_DEADLOCK FALSE
