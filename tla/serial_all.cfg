CONSTANTS
  Users = {o, a}
  Owner = o
  Groups = {g}
  MaxVersion = 3
  Procs = {p}
  Ops = {"create", "share", "sharegroup", "reseal", "update", "rotate", "batchunshare", "delete", "abort", "addmember", "removemember", "deletegroup", "disable", "onboard"}
  OwnerCaps = {"read", "admin"}
  PeerCaps = {"read", "admin"}
SPECIFICATION Spec
INVARIANTS
  OldVersionsInvalid
  EnvelopesOpen
PROPERTIES
  GrantsWithinOwn
  
