CONSTANTS
  bob = bob
  carol = carol
  dave = dave
  sc0 = sc0
  NoUser = NoUser
  Group = GR1
  Peer = {bob, carol}
  Master = {sc0}
  Client = {}
  Func <- MCFunc
  Volatile <- MCVolatile
  Committed <- MCCommitted
  Method <- ContractMethods
  Self0 <- Empty
  Exec <- MCExec
  Accepts <- MCAccepts
  Return <- MCReturn
  MaxOut <- ThreeCalls

SPECIFICATION FairSpec
INVARIANT OncePerCall
INVARIANT SelfIsReplay
INVARIANT CommittedInOrder
INVARIANT CommittedReachMaster
PROPERTY ReplayListGrows
PROPERTY EveryCallSettles
CHECK_DEADLOCK FALSE
