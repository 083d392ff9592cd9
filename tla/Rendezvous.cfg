\* A ring of two slots with four puts; three threads and one too many at a barrier;
\* three threads in three rounds; three processors and six tables.
CONSTANTS
  N = 2
  Putters = {p1, p2}
  Getters = {g1, g2}
  Items = {i1, i2}
  NoItem = noitem
  MaxPuts = 4
  Comers = {c1, c2, c3, c4}
  Count = 3
  Members = {m1, m2, m3}
  NoThread = none
  Rounds = 3
  NumCores = 3
  Tables <- MCTables
SPECIFICATION FairSpec
INVARIANTS
  NobodyEarly
  NothingLost
  BootedApart
  MainLast
PROPERTIES
  ImplementsChannel
  EverythingGot
  AllPass
  BootCompletes
CHECK_DEADLOCK FALSE
