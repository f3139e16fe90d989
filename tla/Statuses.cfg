\* Two threads, two rejections, one payment, one change of the code.
SPECIFICATION FairSpec
CONSTANTS
  Threads = {t1, t2}
  Rejections = {r1, r2}
  Codes <- MCCodes
  MaxChanges = 1
  MaxPayments = 1
  None = None
INVARIANTS OwnReason RowAgrees
 
CHECK_DEADLOCK FALSE
