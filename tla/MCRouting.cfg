CONSTANTS
  Machine <- MCMachine
  Ip <- MCIp
  Number = {"1", "2"}
  Proxied <- MCProxied

SPECIFICATION FairSpec
INVARIANT ShortestWay
PROPERTY Arrives
CHECK_DEADLOCK FALSE
