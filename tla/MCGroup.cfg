CONSTANTS
  bob = bob
  carol = carol
  dave = dave
  sc0 = sc0
  NoUser = NoUser
  Group = GR1
  Peer = {bob, carol, dave}
  Master = {}
  Client = {}
  Func <- MCFunc
  Volatile <- MCVolatile
  Committed <- MCCommitted
  Method <- GroupWithdraws
  Self0 <- Poor
  Exec <- MCExec
  Accepts <- MCAccepts
  Return <- MCReturn
  MaxOut <- TwoSenders

SPECIFICATION Spec
PROPERTY ImplementsCallLog
INVARIANT TypeOK
INVARIANT QueueState
INVARIANT ReplayListsAgree
INVARIANT SignedMeansLogged
INVARIANT NoDeadlock
INVARIANT MasterlessCommit
CHECK_DEADLOCK FALSE
