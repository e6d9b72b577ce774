SPECIFICATION Spec
CONSTANTS
  t1 = t1
  t2 = t2
  h1 = h1
  h2 = h2
  h3 = h3
  s1 = s1
  s2 = s2
  Tabs = {t1, t2}
  Secrets = {s1}
  HwKeys = {h1, h2}
  Profiles = {"STANDARD", "HARDWARE", "COMBINED"}
  EarlierProfiles = {"HARDWARE", "COMBINED"}
  Policies <- MCPolicies
  FirstPolicy <- MCFirst
  MaxSw = 1
  MaxKeysets = 2
  MaxPuts = 3
  MaxEdits = 1
  MaxEvents = 2
  MaxOps = 3
  MaxBoth = 4
SYMMETRY MCSymmetry
INVARIANTS
  CopyOpens
  LockedHoldsNoKeys
PROPERTIES
  SyncFollowsList
  PolicyAskedLast
  ShelfSpec
CHECK_DEADLOCK FALSE
