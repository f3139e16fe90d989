\* Two threads, up to three generations, one document, two accounts.
SPECIFICATION Spec
CONSTANTS
  Workers = {w1, w2}
  Configs = {c1, c2, c3}
  Documents = {d1}
  Refs = {ref}
  Accounts = {acc1, acc2}
  MaxGeneration = 3
  MaxCalls = 2
  None = None
SYMMETRY MCSymmetry
CHECK_DEADLOCK FALSE
INVARIANTS History NoCollision
PROPERTIES CallsPredateDisable ImplementsHistory
