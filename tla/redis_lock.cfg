SPECIFICATION FairSpec
CONSTANTS
  Workers = {w1, w2}
  Uuids = {x1, x2, x3}
  Retry = 3
  Ttl = 3
  NoValue = NoValue
  Free = Free
  Orphan = Orphan
INVARIANTS TypeOK Exclusive
PROPERTIES LockSpec AcquireReturns KeyGoesAway
