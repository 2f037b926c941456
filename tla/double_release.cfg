SPECIFICATION Spec
CONSTANTS
  Handlers = {h1}
  Cleaners = {c1, c2}
  Users = {u1}
  Seats = {s1}
  Events = {e1}
  e1 = e1
  e2 = e2
  odd = odd
  EventOf <- OneEvent
  Rids = {r1, r2, r3}
  Pids = {}
  Ops = {"hold", "cleanup"}
  Overlap = TRUE
  Faults = {}
  NoUser = NoUser
  NoEvent = NoEvent
  NoRid = NoRid
  NoPid = NoPid
  Free = Free
  Orphan = Orphan
INVARIANTS NoDoubleBooking
