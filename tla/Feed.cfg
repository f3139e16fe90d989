\* Three outbound documents and an inbound one, three writers and three transactions, one
\* rollback, pages of one document.
SPECIFICATION Spec
CONSTANTS
  Writers = {w1, w2, w3}
  Outbound = {o1, o2, o3}
  Inbound = {i1}
  Limit = 1
  MaxTransactions = 3
  MaxRows = 2
  MaxRollbacks = 1
  None = None
SYMMETRY MCSymmetry
INVARIANTS NoGaps PassComplete NothingBehindCursor EventsInOrder
