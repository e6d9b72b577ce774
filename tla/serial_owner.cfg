CONSTANTS
  Users = {o, a, b}
  Owner = o
  Groups = {g}
  MaxVersion = 2
  Procs = {p}
  Ops = {"create", "share", "sharegroup", "reseal", "update", "rotate", "batchunshare", "delete", "addmember", "removemember"}
  OwnerCaps = {"read", "share"}
  PeerCaps = {"read"}
SPECIFICATION Spec
SYMMETRY Symmetry
INVARIANTS
  VisibilityMatchesShares
PROPERTIES
  RotationLeavesItsRecipients
