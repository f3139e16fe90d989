----------------------------- MODULE MCDispatch -----------------------------
(* Small instance of Dispatch: an outbound and an inbound document.         *)
EXTENDS Dispatch

CONSTANTS w1, w2, outDoc, inDoc

MCDocumentOf ==
  [a \in Attempts |-> IF a \in RejectAttempts THEN inDoc ELSE outDoc]

\* Constraint: a run uses one of the two documents, which have nothing in common but
\* the threads, and one of the two reasons not to call the provider, which differ in
\* the processing_reason alone.  Only steps without fairness leave it: a request, a
\* PUT or a credential.
OneDocument ==
  \/ /\ \A d \in Documents : usable[d]
     /\ \A a \in RejectAttempts : status[a] = "ABSENT" /\ \A w \in Workers : job[w] # a
  \/ /\ ~disabled
     /\ \A a \in Attempts \ RejectAttempts : status[a] = "ABSENT"
=============================================================================
