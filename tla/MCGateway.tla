----------------------------- MODULE MCGateway -----------------------------
(* A small instance of Gateway.                                             *)
EXTENDS Gateway

CONSTANTS
  sendA, sendB, again, payA, rejA, rejB, rejC, putA,  \* requests
  kSend, kAgain, kPay, kRej, kOther,                  \* keys
  send, repost, pay, reject, put,                     \* payloads
  s1, p1, j1, j2, j3, outDoc, inDoc

MCKeyOf ==
  [r \in Requests |-> CASE r \in {sendA, sendB, putA} -> kSend
                        [] r = again            -> kAgain
                        [] r = payA             -> kPay
                        [] r \in {rejA, rejB}   -> kRej
                        [] OTHER                -> kOther]
MCPayloadOf ==
  [r \in Requests |-> CASE r \in {sendA, sendB} -> send
                        [] r = again            -> repost
                        [] r = payA             -> pay
                        [] r \in {rejA, rejB, rejC} -> reject
                        [] OTHER                -> put]
MCAttemptOf ==
  [r \in Requests |-> CASE r \in {sendA, sendB, again} -> s1
                        [] r = payA -> p1
                        [] r = rejA -> j1
                        [] r = rejB -> j2
                        [] r = rejC -> j3
                        [] OTHER    -> NoAttempt]
MCDocumentOf ==
  [a \in SendAttempts \cup PaymentAttempts \cup RejectAttempts |->
     IF a \in RejectAttempts THEN inDoc ELSE outDoc]

\* Constraint: a run uses one of the two documents, with two or three requests over
\* it, and one of the two reasons not to call the provider for a sent document.  Three
\* sends are a first one and, after it has ended, two retries; they and two rejections
\* under two keys find no reason not to call.
OneDocument ==
  LET used == {r \in Requests : pc[r] # "idle"} IN
  /\ \/ /\ used \subseteq {sendA, sendB, again}
        /\ sendB \in used => sendA \in used
        /\ used = {sendA, sendB, again} => pc[sendA] = "answered" /\ ~disabled
     \/ used \subseteq {sendA, payA}
     \/ \E r \in {rejB, rejC} : used \subseteq {rejA, r}
     \/ used \subseteq {sendA, putA}
  /\ usable[outDoc]
  /\ used \cap {rejA, rejB, rejC} # {} => ~disabled
  /\ used \cap {rejA, rejB} = {} \/ rejC \in used => usable[inDoc]
=============================================================================
