SPECIFICATION FairSpec
CONSTANTS
  Users = {u1, u2}
  Joins = {j1, j2}
  Streams = {d1, d2}
  MaxTime = 3
  TwoJoins = FALSE
  Faults = {"crash", "ttl"}
  NoUser = NoUser
INVARIANTS TypeOK OneTokenPerPlace
PROPERTIES FirstComeFirstServed QueueMoves
