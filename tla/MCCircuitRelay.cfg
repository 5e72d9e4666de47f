\* Two dials, and a connection that is lost once.
SPECIFICATION FairSpec
CONSTANTS
  Calls = {c1, c2}
  MaxLosses = 1
INVARIANT AcceptedByDestination
PROPERTIES DialReturns EndsTogether
CHECK_DEADLOCK FALSE
