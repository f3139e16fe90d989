\* Two concurrent confirmations over three bindings, one crash, fair.
SPECIFICATION FairSpec
CONSTANTS
  Workers = {w1, w2}
  MaxBindings = 3
  MaxCrashes = 1
  NoWorker = NoWorker
INVARIANTS AtMostOneActive
PROPERTIES SupersededByAnother Ends
