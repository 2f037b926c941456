SPECIFICATION Spec
CONSTANTS
  Handlers = {h1, h2}
  Cleaners = {c1}
  Users = {u1}
  Seats = {s1, s2, odd}
  Events = {e1, e2}
  e1 = e1
  e2 = e2
  odd = odd
  EventOf <- TwoEvents
  Rids = {r1, r2}
  Pids = {}
  Ops = {"hold", "cancel", "cleanup"}
  Overlap = TRUE
  Faults = {"crash", "redis", "db"}
  NoUser = NoUser
  NoEvent = NoEvent
  NoRid = NoRid
  NoPid = NoPid
  Free = Free
  Orphan = Orphan
SYMMETRY Same
INVARIANTS OneLiveHold
PROPERTIES LockProtocol FeedOrder
