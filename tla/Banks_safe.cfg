SPECIFICATION ListSpec
CONSTANTS
  BankNames <- MCNames
  Codes <- MCCodes
  IsPrefix <- MCPrefix
  Fallback <- MCFallback
  Answers <- MCAnswers
  Inputs <- MCInputs
  Callers = {c1, c2}
  MaxLists = 2
CHECK_DEADLOCK FALSE
INVARIANTS ListTypeOK ServedIsTheLatest NeverAGuess
SYMMETRY Symmetric
