SPECIFICATION FairSpec
CONSTANTS
  p1 = p1
  p2 = p2
  p3 = p3
  Pids = {p1, p2, p3}
  Sources <- AllKinds
  HTTPPort = 8080
  Commands = {"serve", "once"}
  MaxUsers = 1
  MaxKills = 2
INVARIANT TypeOK
INVARIANT Exclusive
INVARIANT OnePerKey
PROPERTY PortDecides
PROPERTY Recovers
CHECK_DEADLOCK TRUE
