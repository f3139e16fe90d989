\* Overlapping runs over several days, received invoices only: what a window misses.
SPECIFICATION Spec
SYMMETRY MCItemSymmetry
CONSTANTS
  in1 = in1
  in2 = in2
  out1 = out1
  b1 = b1
  b2 = b2
  c1 = c1
  c2 = c2
  acc1 = acc1
  acc2 = acc2
  None = None
  Jobs = {j1, j2}
  Items = {in1, in2}
  SideOf <- TwoSides
  ItemAccount <- OneAccount
  Bindings = {b1}
  Configs = {}
  AccountOf <- TwoAccounts
  Accounts = {acc1}
  LastDay = 2
  Initial = 9
  Overlap = 1
  Lookback = 2
  Relists = FALSE
  Historical = FALSE
  MaxCrashes = 0
CHECK_DEADLOCK FALSE
INVARIANTS NoneBetweenWindows
