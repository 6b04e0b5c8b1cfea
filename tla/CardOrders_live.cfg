CONSTANTS
  Orders = {o1}
  Kinds = {"purchase", "mispriced", "chargeback_lost"}
  Handlers = {h1}
  MaxAttempts = 2
  SignatureTtl = 1
  ExpiryMargin = 0
  MaxNow = 2
  MaxTx = 5
  MaxRefusals = 1
  MaxFaults = 0
  o1 = o1
  h1 = h1
SPECIFICATION FairSpec
INVARIANT CardSafe
PROPERTY UnknownSettles
 
CHECK_DEADLOCK FALSE
