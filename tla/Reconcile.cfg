\* Two overlapping runs on one day, a crash: an inbound and a sent invoice, two bindings.
SPECIFICATION Spec
SYMMETRY MCSymmetry
CONSTANTS
  in1 = in1
  in2 = in2
  out1 = out1
  b1 = b1
  b2 = b2
  c1 = c1
  c2 = c2
  acc1 = acc1
  acc2 = acc2
  None = None
  Jobs = {j1, j2}
  Items = {in1, out1}
  SideOf <- TwoSides
  ItemAccount <- OneAccount
  Bindings = {b1, b2}
  Configs = {c1}
  AccountOf <- TwoAccounts
  Accounts = {acc1, acc2}
  LastDay = 0
  Initial = 9
  Overlap = 1
  Lookback = 2
  Relists = TRUE
  Historical = TRUE
  MaxCrashes = 1
CHECK_DEADLOCK FALSE
INVARIANTS StoredOnce FiledWhereListed CopiesNotBehindOneLock NoCircularWait
PROPERTIES CompletedStoredAll
