SPECIFICATION FairHistorySpec
CONSTANTS
  p1 = p1
  t1 = t1
  t2 = t2
  Payouts = {p1}
  Tasks = {t1, t2}
  MaxAutomaticAttempts = 2
  SweepBatch = 1
  RowOrder <- MCOneRow
  LateLanding = FALSE
  StalledJobs = FALSE
  OperatorRetries = TRUE
  AttemptBound = 3
  MaxFaults = 2
INVARIANTS LedgerMatchesStatus LiveTransferIsOnTheRow NoDoubleTransfer
PROPERTIES ImplementsObligation OpenPayoutsResolve ParkedTransfersAreFlagged
