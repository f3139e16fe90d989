------------------------------ MODULE Gateway ------------------------------
(***************************************************************************)
(* A writing request from its route to its answer: the Idempotency-Key     *)
(* (Idempotency), the attempt that its action creates or names and the     *)
(* provider call (Dispatch).  One thread serves a request; it is a request *)
(* of the former and a worker of the latter, and each of its steps is a    *)
(* step of one of them, or of both where they share a transaction.  Status *)
(* rows of reconciliations join in where they write what a body shows.     *)
(*                                                                         *)
(* Of the writing requests, those that reconcile are left to Reconcile.    *)
(***************************************************************************)
EXTENDS Idempotency

CONSTANTS
  Documents, SendAttempts, PaymentAttempts, RejectAttempts, DocumentOf, NoAttempt,
  AttemptOf,  \* the attempt of the body that the request's action returns
  Listings    \* what the mapping tables make an exchange status of

VARIABLES
  status, writeIntended, lease, resultCode, axis, guid, processing, pending,
  fiscalization, disabled, usable, job, seen, outcome, calls, accepted,
  listed,   \* exchange_status of a document as the last status row wrote it
  thread,   \* how far the request is with its attempt
  aborted,  \* history: requests that died over their attempt
  maker,    \* history: the request that created the attempt
  shown     \* history: what the bodies of a request say of the document or payment

D == INSTANCE Dispatch WITH Workers <- Requests, pc <- thread, crashes <- aborted

\* Whoever posts a document or a payment names its one attempt; a rejection is a new one.
ASSUME GatewayAssumption ==
  /\ D!AttemptAssumption
  /\ AttemptOf \in [Requests -> D!Attempts \cup {NoAttempt}]
  /\ \A r \in Requests : AttemptOf[r] # NoAttempt <=> PayloadOf[r] \in Dispatched
  /\ \A r, s \in Requests :
       AttemptOf[r] \in RejectAttempts /\ AttemptOf[s] = AttemptOf[r] => r = s
  /\ "none" \notin Listings

history == <<maker, shown>>
dispatchVars ==
  <<status, writeIntended, lease, resultCode, axis, guid, processing, pending, fiscalization,
    disabled, usable, job, seen, outcome, calls, accepted, thread, aborted>>
gatewayVars == <<vars, dispatchVars, listed, history>>

Unsaid == [says |-> "none", guid |-> FALSE]

GatewayInit ==
  /\ Init
  /\ D!Init
  /\ listed = [d \in Documents |-> "none"]
  /\ maker = [a \in D!Attempts |-> NoRequest]
  /\ shown = [r \in Requests |-> [body \in Bodies |-> Unsaid]]

\* What a body shows of the attempt: the fiscalization status of the payment, or the
\* e-reporting or exchange status of the document.  The last is the dispatcher's until a
\* status row has replaced it; from then on nobody else writes it.
Column(a) ==
  LET d == DocumentOf[a] IN
  IF a \in PaymentAttempts THEN fiscalization[a]
  ELSE IF listed[d] = "none" THEN axis[d] ELSE listed[d]

\* The refs of a sent document also show the guid that the provider gave it.
BodyOf(a) ==
  [says |-> Column(a), guid |-> a \in SendAttempts /\ guid[DocumentOf[a]]]

\* The route looks the document of a payment or rejection up, and the session keeps what
\* it has loaded.  (A document that does not exist is answered 404 at once.)
Enter(r) ==
  LET a == AttemptOf[r] IN
  /\ Arrive(r)
  /\ a \in PaymentAttempts => axis[DocumentOf[a]] # "ABSENT"
  /\ IF a \in RejectAttempts THEN D!LoadForReject(r, a) ELSE UNCHANGED dispatchVars
  /\ UNCHANGED <<listed, history>>

TakeKey(r) == (Insert(r) \/ Duplicate(r)) /\ UNCHANGED <<dispatchVars, listed, history>>

\* A replay or a failure: neither reaches _dispatch_write.
NotOwned(r) ==
  /\ Replay(r) \/ Fail(r)
  /\ IF thread[r] = "rejecting" THEN D!Abandon(r) ELSE UNCHANGED dispatchVars
  /\ UNCHANGED <<listed, history>>

Plain(r) == Finish(r) /\ UNCHANGED <<dispatchVars, listed, history>>

\* create_outbound, add_payment (of something new, or of what is there) and
\* reject_e_reporting.
Act(r, a) ==
  \/ a \in SendAttempts /\ D!CreateOutbound(r, a)
  \/ a \in PaymentAttempts /\ D!AddPayment(r, a)
  \/ a \in SendAttempts \cup PaymentAttempts /\ D!Redrive(r, a)
  \/ a \in RejectAttempts /\ D!Reject(r)

\* Mutant: the action commits in a transaction of its own, before the key does.
CommitApart(r) ==
  LET a == AttemptOf[r] IN
  \/ /\ pc[r] = "acting" /\ thread[r] # "dispatch" /\ PayloadOf[r] \in Dispatched
     /\ Act(r, a)
     /\ maker' = IF status[a] = "ABSENT" THEN [maker EXCEPT ![a] = r] ELSE maker
     /\ UNCHANGED <<vars, listed, shown>>
  \/ /\ Publish(r) /\ thread[r] = "dispatch"
     /\ UNCHANGED <<dispatchVars, listed, history>>

\* The commit at the top of _dispatch_write: the key, its body and the attempt.  The
\* body of a rejection shows what was assigned, whatever the UPDATE contains.
Commit(r) ==
  LET a == AttemptOf[r] IN
  /\ Publish(r)
  /\ Act(r, a)
  /\ UNCHANGED listed
  /\ maker' = IF status[a] = "ABSENT" THEN [maker EXCEPT ![a] = r] ELSE maker
  /\ shown' = [shown EXCEPT ![r]["initial"] =
                 IF a \in RejectAttempts THEN [says |-> "PENDING", guid |-> FALSE]
                 ELSE BodyOf(a)']

\* process_attempt, in sessions of its own.
Work(r) == pc[r] = "dispatching" /\ D!Process(r) /\ UNCHANGED <<vars, listed, history>>

\* It has returned: the document or payment is read again ...
Reload(r) ==
  /\ Dispatch(r)
  /\ thread[r] = "idle"
  /\ shown' = [shown EXCEPT ![r]["final"] = BodyOf(AttemptOf[r])]
  /\ UNCHANGED <<dispatchVars, listed, maker>>

\* ... and the body is stored and returned.
Refresh(r) == Store(r) /\ UNCHANGED <<dispatchVars, listed, history>>

Die(r) ==
  /\ Crash(r)
  /\ IF thread[r] = "idle" THEN UNCHANGED dispatchVars ELSE D!Crash(r)
  /\ UNCHANGED <<listed, history>>

\* Time, the operator, PUT outbound-provider.
Environment ==
  /\ \/ \E a \in D!Attempts : D!LeaseExpires(a)
     \/ D!PutProvider
     \/ \E d \in Documents : D!ChangeCredential(d)
  /\ UNCHANGED <<vars, listed, history>>

\* apply_outbound_status_row of some reconciliation: the document is found by its guid,
\* and the provider's list has any code for it, those of a failure included.
StatusRow(d) ==
  /\ d \in D!Outbound /\ guid[d]
  /\ \E x \in Listings : listed' = [listed EXCEPT ![d] = x]
  /\ UNCHANGED <<vars, dispatchVars, history>>

Attend(r) ==
  \/ TakeKey(r) \/ NotOwned(r) \/ Plain(r)
  \/ Commit(r) \/ Work(r) \/ Reload(r) \/ Refresh(r)

GatewayNext ==
  \/ \E r \in Requests : Enter(r) \/ Attend(r) \/ Die(r)
  \/ Environment
  \/ \E d \in Documents : StatusRow(d)

GatewaySpec == GatewayInit /\ [][GatewayNext]_gatewayVars

\* Threads keep running: as long as a request can go on, some request does.  (Each has
\* finitely many steps, so all get their turn.)
FairGatewaySpec == GatewaySpec /\ WF_gatewayVars(\E r \in Requests : Attend(r))

----
(* Properties.                                                             *)

\* An attempt and its key are one: nothing can be sent that a retry under the key would
\* not find, and no key answers for an attempt that is not there.
AttemptsHaveKeys ==
  \A a \in D!Attempts :
    status[a] # "ABSENT" <=> \E k \in Keys : row[k] # NoRow /\ AttemptOf[row[k].by] = a

\* What a client is told of the provider is true for good, whether its request was the
\* one that called or a replay, and however old the body is that it was given.  A sent
\* document that shows a guid was taken: FAILED is then what the provider's list says
\* became of it.  Without a guid, FAILED means that the provider did not take it.
AnswersAreTrue ==
  \A r \in Requests : answer[r].kind = "ok" =>
    LET e == answer[r].by
        a == AttemptOf[e]
        body == shown[e][answer[r].body]
    IN
    /\ a \in SendAttempts /\ (body.guid \/ body.says = "SUBMITTED") => accepted[a]
    /\ a \in SendAttempts \cup PaymentAttempts /\ body.says = "FAILED" /\ ~body.guid =>
         ~accepted[a]
    /\ a \in RejectAttempts /\ body.says = "SUBMITTED" =>
         \E b \in RejectAttempts : DocumentOf[b] = DocumentOf[a] /\ accepted[b]

\* The attempt of a key, and whether it was created under it.
Attempt(k) == AttemptOf[row[k].by]
Made(k) == row[k] # NoRow /\ Attempt(k) # NoAttempt /\ maker[Attempt(k)] = row[k].by

keyStage ==
  [k \in Keys |-> IF ~Made(k) THEN "none"
                  ELSE IF calls[Attempt(k)] = 0 THEN "queued" ELSE "handed"]
keyTaken == [k \in Keys |-> Made(k) /\ accepted[Attempt(k)]]
keyReport ==
  [k \in Keys |-> IF Made(k) /\ status[Attempt(k)] \in D!Terminal
                  THEN status[Attempt(k)] ELSE "open"]

K == INSTANCE Delivery WITH
       Attempts <- Keys, stage <- keyStage, taken <- keyTaken, report <- keyReport

\* Under one key at most one message is handed over, however often the request is sent,
\* and what is reported of it is true and final.
KeysImplementDelivery == K!Spec
=============================================================================
