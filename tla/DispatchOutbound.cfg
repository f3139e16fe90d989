\* A send and a payment of one document, two rejections of another, two threads, one
\* crash, fairness.
SPECIFICATION FairSpec
CONSTANTS
  w1 = w1
  w2 = w2
  outDoc = outDoc
  inDoc = inDoc
  Workers = {w1, w2}
  Documents = {outDoc, inDoc}
  SendAttempts = {s1}
  PaymentAttempts = {p1}
  RejectAttempts = {r1, r2}
  DocumentOf <- MCDocumentOf
  MaxCrashes = 1
  NoAttempt = NoAttempt
CONSTRAINT OneDocument
INVARIANTS AtMostOneCall ResultIsTrue AxisAgrees
PROPERTIES ImplementsDelivery Settles
