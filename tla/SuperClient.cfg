\* A write and a read share the token; one retry of a 429, one expiry, fair.
SPECIFICATION FairSpec
CONSTANTS
  w1 = w1
  w2 = w2
  r1 = r1
  Threads = {w1, r1}
  Writes = {w1}
  MaxRetries = 1
  MaxExpiries = 1
  NoThread = NoThread
CHECK_DEADLOCK FALSE
INVARIANTS WriteOnce HonestResult RequestsBounded TokensAccounted
PROPERTIES Returns
