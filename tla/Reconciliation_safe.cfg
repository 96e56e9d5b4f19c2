SPECIFICATION SpecReport
CONSTANTS
  BasisPointsTotal = 7
  Payments = {p1}
  Terms <- AllTerms
CHECK_DEADLOCK FALSE
INVARIANTS BooksBalance NothingOwedIsLost BooksExplainTheBalance SharesAreFair PendingIsOwed
PROPERTY QuietReportIsExact
