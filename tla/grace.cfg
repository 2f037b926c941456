SPECIFICATION FairSpec
CONSTANTS
  r1 = r1
  r2 = r2
  u1 = u1
  u2 = u2
  a = a
  b = b
  c = c
  d = d
  Nowhere = Nowhere
  Replicas = {r1, r2}
  Users = {u1, u2}
  Sockets = {a, b, c, d}
  UserOf <- Owner
  Reach <- OneEach
  Grace = 3
  Faults = {"call", "stop"}
INVARIANTS TypeOK TimersTracked
PROPERTIES GraceKept AbandonedHoldEnds
