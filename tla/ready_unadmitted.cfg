SPECIFICATION Spec
CONSTANTS
  Users = {u1, u2}
  Joins = {j1, j2}
  Streams = {d1}
  MaxTime = 2
  TwoJoins = FALSE
  Faults = {}
  NoUser = NoUser
INVARIANTS ReadyIsThrough
