\* Two processes, one of which has an account.
CONSTANTS
  bob = bob
  carol = carol
  Sender = {bob, carol}
  Account = {bob}
  Amount = {1}
  MaxOut = 2
  MaxBlock = 3
SPECIFICATION FairSpec
INVARIANTS  AtMostTwice Numbered
 
CHECK_DEADLOCK FALSE
