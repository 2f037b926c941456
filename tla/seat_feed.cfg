SPECIFICATION Spec
CONSTANTS
  Clients = {"c1", "c2"}
  Streams = {"t1"}
  Keys = {"seats"}
  MaxVersion = 2
  Patient = TRUE
  Faults = {"redis", "drop"}
  Sub = Sub
  Unsub = Unsub
  None = None
INVARIANTS TypeOK 
PROPERTIES CacheCatchesUp LiveSeesChange StreamSeesChange
