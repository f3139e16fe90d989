\* Two concurrent confirmations over two bindings, no crash.
SPECIFICATION Spec
CONSTANTS
  Workers = {w1, w2}
  MaxBindings = 2
  MaxCrashes = 0
  NoWorker = NoWorker
SYMMETRY MCSymmetry
INVARIANT OneActiveAfterConfirmation
