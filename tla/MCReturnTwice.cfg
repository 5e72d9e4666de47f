CONSTANTS
  bob = bob
  carol = carol
  dave = dave
  sc0 = sc0
  NoUser = NoUser
  Group = GR1
  Peer = {bob, carol}
  Master = {sc0}
  Client = {}
  Func <- MCFunc
  Volatile <- MCVolatile
  Committed <- MCCommitted
  Method <- DepositMethods
  Self0 <- Empty
  Exec <- MCExec
  Accepts <- MCAccepts
  Return <- MCReturn
  MaxOut <- ThreeCalls

SPECIFICATION Spec
INVARIANT ReturnedOnce
CHECK_DEADLOCK FALSE
