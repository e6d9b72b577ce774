SPECIFICATION MCSpec
CONSTANTS
  k1 = k1
  i3 = i3
  i2 = i2
  i1 = i1
  p2 = p2
  p1 = p1
  bert = bert
  anna = anna
  Users = {anna, bert}
  Procs = {p1, p2}
  Ids = {i1, i2, i3}
  Tokens = {k1}
  Ops = {"password", "passkey", "code", "tenantless", "select", "changepw", "resetpw", "setroles", "update", "disable", "profile", "totpsetup", "totpenable", "logout", "use", "crash"}
  RequireTotp = FALSE
  Window = 2
  MaxStep = 1
  MaxPw = 1
  MaxKey = 1
SYMMETRY MCSymmetry
CHECK_DEADLOCK FALSE
INVARIANTS TypeOK TotpCodesUsedOnce OneSessionPerCode SessionsFollowAccount
