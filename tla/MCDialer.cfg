\* Two calls, two peers, three tokens.
SPECIFICATION FairSpec
CONSTANTS
  c1 = c1  c2 = c2
  remote1 = remote1  remote2 = remote2
  t1 = t1  t2 = t2  t3 = t3
  Calls = {c1, c2}
  Peers = {remote1, remote2}
  Addrs = {1, 2, 3, 4, 5}
  Tokens = {t1, t2, t3}
  MaxDialsPerPeer = 2
  MaxAddrsToDial = 3
  KeepMultiple = FALSE
  Known <- MCKnown
  Denied = {}
  DeniedPeers = {}
  Records <- MCRecords
  Dialable <- MCDialable
INVARIANTS TokensComeBack DialsPerPeer
PROPERTY EveryDialReturns
CHECK_DEADLOCK FALSE
