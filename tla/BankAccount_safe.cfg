SPECIFICATION Spec
CONSTANTS
  a1 = a1
  a2 = a2
  ada = ada
  bola = bola
  Accounts = {a1, a2}
  Names = {ada, bola}
  Holder <- MCHolder
  Tasks = {t1, t2, t3}
SYMMETRY TaskSymmetry
INVARIANTS ConfirmedIsTheHolder VerifiedIsConfirmed ViewsAgree
