SPECIFICATION Spec
CONSTANTS
  Handlers = {h1, h2}
  Cleaners = {c1}
  Users = {u1}
  Seats = {s1, s2}
  Events = {e1}
  e1 = e1
  e2 = e2
  odd = odd
  EventOf <- OneEvent
  Rids = {r1, r2}
  Pids = {p1}
  Ops = {"hold", "cancel", "pay", "release", "cleanup"}
  Overlap = FALSE
  Faults = {"lapse", "crash", "redis", "db"}
  NoUser = NoUser
  NoEvent = NoEvent
  NoRid = NoRid
  NoPid = NoPid
  Free = Free
  Orphan = Orphan
SYMMETRY Same
INVARIANTS TypeOK SeatLedger PaymentBacked SoldWasCharged
PROPERTIES SaleIsFinal HoldTakesFreeSeats SaleSpec
