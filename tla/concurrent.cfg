CONSTANTS
  Users = {o, a}
  Owner = o
  Groups = {g}
  MaxVersion = 2
  Procs = {p, q}
  Ops = {"create", "sharegroup", "reseal", "rotate", "dberror", "addmember", "removemember"}
  OwnerCaps = {"share"}
  PeerCaps = {"admin"}
SPECIFICATION Spec
SYMMETRY Symmetry
INVARIANTS
  TypeOK
  NoEscalation
PROPERTIES
  RevokedStaysRevoked
