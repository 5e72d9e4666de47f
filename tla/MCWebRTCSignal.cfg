\* Three dials of one peer, two relays, one connection with a relay lost.
SPECIFICATION Spec
CONSTANTS
  a = a  b = b  c = c  r1 = r1  r2 = r2  d1 = d1  d2 = d2  d3 = d3
  Peers = {a, b, c}
  Relays = {r1, r2}
  RelayOf <- MCRelayOf
  Dials = {d1, d2, d3}
  Src <- MCSrc
  Dst <- MCDst
  MaxLosses = 1
INVARIANTS  ListensAgain AnnouncedWhileListening
CHECK_DEADLOCK FALSE
SYMMETRY DialSymmetry
