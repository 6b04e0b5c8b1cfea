CONSTANTS
  Orders = {o1}
  Kinds = {"purchase", "refund", "chargeback_opened"}
  Handlers = {h1, h2}
  MaxAttempts = 2
  SignatureTtl = 1
  ExpiryMargin = 0
  MaxNow = 1
  MaxTx = 2
  MaxRefusals = 1
  MaxFaults = 1
  o1 = o1
  h1 = h1
  h2 = h2
SPECIFICATION Spec
SYMMETRY Symmetry
INVARIANT StatusMatchesChain
INVARIANT NoBlindResend
INVARIANT AppliedRefundCloses
PROPERTY NeverBackwards
CHECK_DEADLOCK FALSE
