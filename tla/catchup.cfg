CONSTANTS
  Users = {o, a}
  Owner = o
  Groups = {g}
  MaxVersion = 2
  Procs = {p, q}
  Ops = {"create", "reseal", "rotate", "addmember", "onboard"}
  OwnerCaps = {"read"}
  PeerCaps = {"read"}
SPECIFICATION FairSpec
PROPERTIES
  MembersGetEnvelopes
