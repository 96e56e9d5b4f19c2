SPECIFICATION Spec
CONSTANTS
  Performers = {e1}
  Codes = {c1, c2}
  Sessions = {s1}
  Tasks = {t1, t2}
SYMMETRY Symmetric
CHECK_DEADLOCK FALSE
INVARIANTS RetiredCodesAreOff EntitledDuringRequest
