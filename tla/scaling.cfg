SPECIFICATION Spec
CONSTANTS
  p1 = p1
  p2 = p2
  e1 = e1
  e2 = e2
  x = x
  None = None
  Processes = {p1, p2}
  Events = {e1, e2}
  Unknown = {x}
  Requests <- Asked
  Peak <- PeakOf
  Spread <- SpreadOf
  Openings <- Apart
  Lead = 1
  Window = 3
  After = 2
  Horizon = 10
  Faults = {"patch", "redis", "crash"}
  MaxFaults = 2
INVARIANTS TypeOK PlanCovers  BackToDefault
