SPECIFICATION FairSpec
CONSTANTS
  p1 = p1
  t1 = t1
  t2 = t2
  t3 = t3
  entertainer = entertainer
  venue = venue
  Payments = {p1}
  Tasks = {t1, t2, t3}
  Payees = {entertainer, venue}
  Shares <- MCShares
  MaxTries = 2
  MaxFaults = 3
CHECK_DEADLOCK FALSE
INVARIANTS PostedExactlyOnce AbortedBeforeCheckout
PROPERTY ImplementsFairReceipt
