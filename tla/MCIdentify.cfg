\* Two streams at a time, two changes of each node, one reconnection.
SPECIFICATION Spec
CONSTANTS
  a = a  b = b  s1 = s1  s2 = s2  x = x
  Nodes = {a, b}
  Slots = {s1, s2}
  Protos = {x}
  Topologies = {x}
  MaxInbound <- MCInbound
  MaxOutbound <- MCOutbound
  MaxVersion <- MCVersion
  Requesters = {b}
  MaxLinks = 2
INVARIANTS WithinStreamLimits  UpToDate
SYMMETRY SlotSymmetry
CHECK_DEADLOCK FALSE
