SPECIFICATION Spec
CONSTANTS
  i1 = i1
  i2 = i2
  anna = anna
  bert = bert
  t1 = t1
  t2 = t2
  c1 = c1
  c2 = c2
  Ids = {i1, i2}
  Users = {anna, bert}
  Tenants = {t1, t2}
  TenantOf <- MCTenantOf
  Callers = {c1, c2}
  Ttls = {2}
  Idles = {0, 1}
  MaxTtl = 3
  MaxTime = 3
  WritesFail = FALSE
SYMMETRY MCSymmetry
INVARIANTS TypeOK RevokedSessionsStayOut RememberedLoginsSurvive
PROPERTIES OnlyLiveSessionsAccepted
