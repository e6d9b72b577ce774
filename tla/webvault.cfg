SPECIFICATION FairSpec
CONSTANTS
  s1 = s1
  s2 = s2
  s3 = s3
  ann = ann
  ben = ben
  crew = crew
  h1 = h1
  h2 = h2
  None = None
  Secrets = {s1, s2, s3}
  Users = {ann, ben}
  Groups = {crew}
  SharedWith <- MCSharedWith
  Joined <- MCJoined
  Slots = {h1, h2}
  PageSize = 1
  MaxMoves = 3
CHECK_DEADLOCK FALSE
INVARIANTS TypeOK EnvelopesAgree QuietListIsTrue
PROPERTIES HandlersEnd
