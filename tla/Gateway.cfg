\* Requests that meet on a document or on a key, and all that process_attempt can do with
\* them; one crash; running threads.
SPECIFICATION FairGatewaySpec
CONSTANTS
  sendA = sendA
  sendB = sendB
  again = again
  payA = payA
  rejA = rejA
  rejB = rejB
  rejC = rejC
  putA = putA
  kSend = kSend
  kAgain = kAgain
  kPay = kPay
  kRej = kRej
  kOther = kOther
  send = send
  repost = repost
  pay = pay
  reject = reject
  put = put
  s1 = s1
  p1 = p1
  j1 = j1
  j2 = j2
  j3 = j3
  outDoc = outDoc
  inDoc = inDoc
  Requests = {sendA, sendB, again, payA, rejA, rejB, rejC, putA}
  Keys = {kSend, kAgain, kPay, kRej, kOther}
  Payloads = {send, repost, pay, reject, put}
  KeyOf <- MCKeyOf
  PayloadOf <- MCPayloadOf
  Dispatched = {send, repost, pay, reject}
  MaxCrashes = 1
  NoRequest = NoRequest
  Documents = {outDoc, inDoc}
  SendAttempts = {s1}
  PaymentAttempts = {p1}
  RejectAttempts = {j1, j2, j3}
  DocumentOf <- MCDocumentOf
  NoAttempt = NoAttempt
  AttemptOf <- MCAttemptOf
  Listings = {"FAILED"}
CONSTRAINT OneDocument
INVARIANTS KeyMeansEffect AnswersAreOwn OwnerAnswerStands AttemptsHaveKeys AnswersAreTrue
PROPERTIES KeysImplementDelivery Answered
CHECK_DEADLOCK FALSE
