SPECIFICATION Spec
CONSTANTS
  Handlers = {h1}
  Cleaners = {c1}
  Users = {u1}
  Seats = {s1}
  Events = {e1}
  e1 = e1
  e2 = e2
  odd = odd
  EventOf <- OneEvent
  Rids = {r1}
  Pids = {p1}
  Ops = {"hold", "pay", "cleanup"}
  Overlap = FALSE
  Faults = {}
  NoUser = NoUser
  NoEvent = NoEvent
  NoRid = NoRid
  NoPid = NoPid
  Free = Free
  Orphan = Orphan
INVARIANTS ChargeRecorded
