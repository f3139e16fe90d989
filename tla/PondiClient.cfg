\* Six documents in pages of two; a third page may be asked for, a fourth is not.
SPECIFICATION PondiFairSpec
CONSTANTS
  MaxDocuments = 6
  PageSize = 2
  LastOffset = 4
  None = None
INVARIANTS HonestVerdict ListingExact
PROPERTIES CallEnds
CHECK_DEADLOCK FALSE
