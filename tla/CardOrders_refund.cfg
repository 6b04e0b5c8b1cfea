CONSTANTS
  Orders = {o1}
  Kinds = {"purchase", "refund"}
  Handlers = {h1}
  MaxAttempts = 2
  SignatureTtl = 1
  ExpiryMargin = 0
  MaxNow = 1
  MaxTx = 2
  MaxRefusals = 0
  MaxFaults = 0
  o1 = o1
  h1 = h1
SPECIFICATION Spec
SYMMETRY Symmetry
INVARIANT RefundCloses
CHECK_DEADLOCK FALSE
