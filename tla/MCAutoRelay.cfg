\* Two relays, of which one is to be listened on.
SPECIFICATION Spec
CONSTANTS
  Peers = {r1, r2}
  Hops = {r1, r2}
  MaxListeners = 1
  Routers = TRUE
INVARIANT WithinMaxListeners
CHECK_DEADLOCK FALSE
