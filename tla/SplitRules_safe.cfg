SPECIFICATION SpecAll
CONSTANTS
  Rules = {r1, r2, r3}
  Tasks = {t1, t2}
  Whole = 4
  Fees = {1, 2}
  DefaultFee = 1
  Offers <- MCOffers
CHECK_DEADLOCK FALSE
SYMMETRY Symmetric
PROPERTIES DecidedOnce NeverNone UnopposedDecisionLeavesOne TermsAreSound
