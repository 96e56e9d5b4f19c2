SPECIFICATION Spec
CONSTANTS
  Entertainers = {e1, e2}
  Links = {l1, l2}
  Tasks = {t1, t2}
SYMMETRY Symmetric
CHECK_DEADLOCK FALSE
INVARIANTS OneSessionPerLink EntitledDuringRequest
PROPERTY SupersededIsDead
