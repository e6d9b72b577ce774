SPECIFICATION Spec
CONSTANTS
  w1 = w1
  w2 = w2
  a1 = a1
  p1 = p1
  p2 = p2
  None = None
  Tabs = {w1, w2}
  Admins = {a1}
  Params = {p1, p2}
  Overlap = FALSE
  MaxMade = 3
  MaxEscrow = 2
  MaxMoves = 5
SYMMETRY MCSymmetry
CHECK_DEADLOCK FALSE
INVARIANTS KeysAgree RecoveryReady ParamsAgree SecretsOpen
