SPECIFICATION EarningsSpec
CONSTANTS
  BasisPointsTotal = 10
  Payments = {p1, p2}
  Terms <- MCTerms
  BounceBound = 2
CHECK_DEADLOCK FALSE
INVARIANT EarningsAreTheShare
