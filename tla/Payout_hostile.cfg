SPECIFICATION HistorySpec
CONSTANTS
  p1 = p1
  t1 = t1
  t2 = t2
  Payouts = {p1}
  Tasks = {t1, t2}
  MaxAutomaticAttempts = 1
  SweepBatch = 1
  RowOrder <- MCOneRow
  LateLanding = TRUE
  StalledJobs = TRUE
  OperatorRetries = TRUE
  AttemptBound = 3
  MaxFaults = 2
SYMMETRY TaskSymmetry
INVARIANTS OneSenderPerReference StrayTransfersCameLate
