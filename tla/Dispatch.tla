------------------------------ MODULE Dispatch ------------------------------
(***************************************************************************)
(* Provider writes: the attempts table, the requests that create attempts  *)
(* (create_outbound, add_payment, reject_e_reporting), and process_attempt *)
(* as the request threads run it: a first transaction that claims the row  *)
(* and records the intent, the provider call outside any transaction, and  *)
(* a last transaction that records the result.                             *)
(*                                                                         *)
(* PostgreSQL runs READ COMMITTED.  A worker's transaction is a few steps: *)
(* what it read earlier is kept in `seen', what it writes becomes visible  *)
(* in the step that commits.  SQLAlchemy emits an UPDATE only for columns  *)
(* whose value differs from the one the session loaded: see Flushed.       *)
(***************************************************************************)
EXTENDS Naturals

CONSTANTS
  Workers,          \* request threads (of any number of processes)
  Documents,
  SendAttempts,     \* kind outbound_send: one per outbound document
  PaymentAttempts,  \* kind payment: one per payment_id, which it stands for
  RejectAttempts,   \* kind e_reporting_reject: one per rejection request
  DocumentOf,       \* attempts.document_id
  MaxCrashes,       \* bound: worker crashes or failed transactions in a run
  NoAttempt

Attempts == SendAttempts \cup PaymentAttempts \cup RejectAttempts

\* A payment or a send belongs to an outbound document, a rejection to an
\* inbound one, and the kind of an attempt never changes.
ASSUME AttemptAssumption ==
  /\ SendAttempts \cap (PaymentAttempts \cup RejectAttempts) = {}
  /\ PaymentAttempts \cap RejectAttempts = {}
  /\ NoAttempt \notin Attempts
  /\ DocumentOf \in [Attempts -> Documents]
  /\ \A a \in SendAttempts \cup PaymentAttempts, r \in RejectAttempts :
       DocumentOf[a] # DocumentOf[r]
  /\ \A a, b \in SendAttempts : DocumentOf[a] = DocumentOf[b] => a = b
  /\ MaxCrashes \in Nat

VARIABLES
  \* attempts
  status, writeIntended, lease, resultCode,
  \* documents: exchange_status (outbound) or e_reporting_status (inbound),
  \* provider_invoice_guid known or not, processing_reason, pending_rejection
  axis, guid, processing, pending,
  \* payments.fiscalization_status
  fiscalization,
  \* the actual outbound provider is DISABLED; the document's credential
  \* resolves (and, outbound, to the stamped account)
  disabled, usable,
  \* request threads: where, on which attempt, what they read, what came back
  pc, job, seen, outcome,
  \* history: calls made to the provider, and whether it took one
  calls, accepted,
  crashes

attemptVars  == <<status, writeIntended, lease, resultCode>>
documentVars == <<axis, guid, processing, pending>>
settingVars  == <<disabled, usable>>
historyVars  == <<calls, accepted>>
vars == <<attemptVars, documentVars, fiscalization, settingVars,
          pc, job, seen, outcome, historyVars, crashes>>

Terminal == {"COMPLETED", "UNKNOWN", "REQUIRES_REVIEW", "FAILED"}
Statuses == {"ABSENT", "PENDING", "CLAIMED"} \cup Terminal
Codes    == {"none", "AMBIGUOUS_PROVIDER_RESULT", "REQUIRES_REVIEW", "PROVIDER_ERROR"}
Reasons  == Codes \cup {"BLOCKED_PROVIDER_DISABLED",
                        "BLOCKED_CREDENTIAL_UNAVAILABLE", "PROVIDER_NOT_CONFIGURED"}
Axes     == {"ABSENT", "QUEUED", "RECEIVED", "PENDING", "SUBMITTED", "FAILED", "UNKNOWN"}
Leases   == {"none", "live", "expired"}
Outcomes == {"ok", "noguid", "refused", "ambiguous", "review"}
Steps    == {"idle", "rejecting", "dispatch", "claimed", "read", "calling",
             "returned", "recording"}

Outbound == {DocumentOf[a] : a \in SendAttempts}

Snapshots ==
  [status : Statuses, code : Codes, axis : Axes, guid : BOOLEAN,
   processing : Reasons, pending : RejectAttempts \cup {NoAttempt}]

\* What a session holds after loading the attempt and its document.
Snapshot(a) ==
  LET d == DocumentOf[a] IN
  [status |-> status[a], code |-> resultCode[a], axis |-> axis[d],
   guid |-> guid[d], processing |-> processing[d], pending |-> pending[d]]

\* The column after a flush that assigns `new' to an attribute loaded as
\* `read', when the row holds `current' by now: a column without a net change
\* is left out of the UPDATE.
Flushed(read, current, new) == IF new = read THEN current ELSE new

\* A worker between claim_attempt and its commit holds the row's lock.
Locked(a) == \E w \in Workers : pc[w] \in {"claimed", "read"} /\ job[w] = a

NoSnapshot == [status |-> "ABSENT", code |-> "none", axis |-> "ABSENT",
               guid |-> FALSE, processing |-> "none", pending |-> NoAttempt]

Init ==
  /\ status = [a \in Attempts |-> "ABSENT"]
  /\ writeIntended = [a \in Attempts |-> FALSE]
  /\ lease = [a \in Attempts |-> "none"]
  /\ resultCode = [a \in Attempts |-> "none"]
  /\ axis = [d \in Documents |-> IF d \in Outbound THEN "ABSENT" ELSE "RECEIVED"]
  /\ guid = [d \in Documents |-> d \notin Outbound]
  /\ processing = [d \in Documents |-> "none"]
  /\ pending = [d \in Documents |-> NoAttempt]
  /\ fiscalization = [a \in PaymentAttempts |-> "ABSENT"]
  /\ disabled = FALSE
  /\ usable = [d \in Documents |-> TRUE]
  /\ pc = [w \in Workers |-> "idle"]
  /\ job = [w \in Workers |-> NoAttempt]
  /\ seen = [w \in Workers |-> NoSnapshot]
  /\ outcome = [w \in Workers |-> "none"]
  /\ calls = [a \in Attempts |-> 0]
  /\ accepted = [a \in Attempts |-> FALSE]
  /\ crashes = 0

----
(* Requests.  Each ends with process_attempt on the attempt of its response *)
(* body (_dispatch_write), so the thread goes on to "dispatch".             *)

\* create_attempt
CreateAttempt(a) ==
  /\ status[a] = "ABSENT"
  /\ status' = [status EXCEPT ![a] = "PENDING"]
  /\ UNCHANGED <<writeIntended, lease, resultCode>>

Take(w, a, step) ==
  /\ pc' = [pc EXCEPT ![w] = step]
  /\ job' = [job EXCEPT ![w] = a]

\* create_outbound of a new document_id: the actual provider is CONFIGURED and
\* ready under the taxpayer's lock, so the whole transaction is one step.
CreateOutbound(w, a) ==
  LET d == DocumentOf[a] IN
  /\ pc[w] = "idle"
  /\ ~disabled /\ usable[d]
  /\ CreateAttempt(a)
  /\ axis' = [axis EXCEPT ![d] = "QUEUED"]
  /\ Take(w, a, "dispatch")
  /\ UNCHANGED <<guid, processing, pending, fiscalization, settingVars, seen,
                 outcome, historyVars, crashes>>

\* add_payment with a new payment_id (payment_status is not modelled here).
AddPayment(w, a) ==
  /\ pc[w] = "idle"
  /\ axis[DocumentOf[a]] # "ABSENT"
  /\ CreateAttempt(a)
  /\ fiscalization' = [fiscalization EXCEPT ![a] = "PENDING"]
  /\ Take(w, a, "dispatch")
  /\ UNCHANGED <<documentVars, settingVars, seen, outcome, historyVars, crashes>>

\* The same document or payment posted under another Idempotency-Key: the stored
\* body names the existing attempt, which is driven again.  Nothing else does.
Redrive(w, a) ==
  /\ pc[w] = "idle"
  /\ status[a] # "ABSENT"
  /\ Take(w, a, "dispatch")
  /\ UNCHANGED <<attemptVars, documentVars, fiscalization, settingVars, seen,
                 outcome, historyVars, crashes>>

\* reject_e_reporting: every request makes a new attempt.  The document is loaded,
\* then written without a lock.
LoadForReject(w, a) ==
  /\ pc[w] = "idle"
  /\ status[a] = "ABSENT"
  /\ \A v \in Workers : job[v] # a
  /\ Take(w, a, "rejecting")
  /\ seen' = [seen EXCEPT ![w] = Snapshot(a)]
  /\ UNCHANGED <<attemptVars, documentVars, fiscalization, settingVars,
                 outcome, historyVars, crashes>>

Reject(w) ==
  LET a == job[w]
      d == DocumentOf[a]
      s == seen[w]
  IN
  /\ pc[w] = "rejecting"
  /\ CreateAttempt(a)
  /\ axis' = [axis EXCEPT ![d] = Flushed(s.axis, @, "PENDING")]
  /\ processing' = [processing EXCEPT ![d] = Flushed(s.processing, @, "none")]
  /\ pending' = [pending EXCEPT ![d] = a]
  /\ pc' = [pc EXCEPT ![w] = "dispatch"]
  /\ seen' = [seen EXCEPT ![w] = NoSnapshot]
  /\ UNCHANGED <<guid, fiscalization, settingVars, job, outcome, historyVars, crashes>>

----
(* process_attempt: the first transaction.                                 *)

Leave(w) ==
  /\ pc' = [pc EXCEPT ![w] = "idle"]
  /\ job' = [job EXCEPT ![w] = NoAttempt]
  /\ seen' = [seen EXCEPT ![w] = NoSnapshot]
  /\ outcome' = [outcome EXCEPT ![w] = "none"]

\* The rejection does not come about: the key of the request is taken, or the request
\* fails.  What its transaction has loaded is forgotten.
Abandon(w) ==
  /\ pc[w] = "rejecting"
  /\ Leave(w)
  /\ UNCHANGED <<attemptVars, documentVars, fiscalization, settingVars,
                 historyVars, crashes>>

\* Mutant: a claimed attempt is left alone, whatever its lease.
HeldForever(a) == status[a] = "CLAIMED"

Held(a) == status[a] = "CLAIMED" /\ lease[a] = "live"

\* claim_attempt returns None and leaves the row alone: another transaction has it
\* (SKIP LOCKED), it is in a terminal status, or its lease runs.
ClaimSkip(w) ==
  LET a == job[w] IN
  /\ pc[w] = "dispatch"
  /\ Locked(a) \/ status[a] \in Terminal \/ Held(a)
  /\ Leave(w)
  /\ UNCHANGED <<attemptVars, documentVars, fiscalization, settingVars,
                 historyVars, crashes>>

\* A write was intended and nobody holds the lease any more: the result is unknown.
\* The document keeps its status and no event is recorded.
ClaimAmbiguous(w) ==
  LET a == job[w] IN
  /\ pc[w] = "dispatch"
  /\ ~Locked(a) /\ status[a] \notin Terminal /\ ~Held(a)
  /\ writeIntended[a]
  /\ status' = [status EXCEPT ![a] = "UNKNOWN"]
  /\ resultCode' = [resultCode EXCEPT ![a] = "AMBIGUOUS_PROVIDER_RESULT"]
  /\ Leave(w)
  /\ UNCHANGED <<writeIntended, lease, documentVars, fiscalization, settingVars,
                 historyVars, crashes>>

\* Mutant: an attempt whose lease ran out is claimed again, intent or not.
ClaimAgain(w) ==
  LET a == job[w] IN
  /\ pc[w] = "dispatch"
  /\ ~Locked(a) /\ status[a] \notin Terminal /\ ~Held(a)
  /\ pc' = [pc EXCEPT ![w] = "claimed"]
  /\ UNCHANGED <<attemptVars, documentVars, fiscalization, settingVars, job, seen,
                 outcome, historyVars, crashes>>

\* The claim itself (status, owner, lease) is visible only when Authorise commits.
Claim(w) ==
  LET a == job[w] IN
  /\ pc[w] = "dispatch"
  /\ ~Locked(a) /\ status[a] \notin Terminal /\ ~Held(a)
  /\ ~writeIntended[a]
  /\ pc' = [pc EXCEPT ![w] = "claimed"]
  /\ UNCHANGED <<attemptVars, documentVars, fiscalization, settingVars, job, seen,
                 outcome, historyVars, crashes>>

\* session.get(Document): guid, pending_rejection and the columns written below
\* come from this read.
LoadDocument(w) ==
  /\ pc[w] = "claimed"
  /\ pc' = [pc EXCEPT ![w] = "read"]
  /\ seen' = [seen EXCEPT ![w] = Snapshot(job[w])]
  /\ UNCHANGED <<attemptVars, documentVars, fiscalization, settingVars, job,
                 outcome, historyVars, crashes>>

Refusal(d) ==
  CASE d \in Outbound /\ disabled     -> "BLOCKED_PROVIDER_DISABLED"
    [] d \in Outbound /\ ~disabled    -> "BLOCKED_CREDENTIAL_UNAVAILABLE"
    [] OTHER                          -> "PROVIDER_NOT_CONFIGURED"

MayCall(d) == usable[d] /\ (d \in Outbound => ~disabled)

\* get_config, get_actual and resolve say no: release_unsent, document BLOCKED.
Release(w) ==
  LET a == job[w]
      d == DocumentOf[a]
  IN
  /\ pc[w] = "read"
  /\ ~MayCall(d)
  /\ status' = [status EXCEPT ![a] = "PENDING"]
  /\ lease' = [lease EXCEPT ![a] = "none"]
  /\ writeIntended' = [writeIntended EXCEPT ![a] = FALSE]
  /\ processing' = [processing EXCEPT ![d] = Flushed(seen[w].processing, @, Refusal(d))]
  /\ Leave(w)
  /\ UNCHANGED <<resultCode, axis, guid, pending, fiscalization, settingVars,
                 historyVars, crashes>>

\* Mutant: the intent is not recorded before the call.
AuthoriseWithoutIntent(w) ==
  LET a == job[w] IN
  /\ pc[w] = "read"
  /\ MayCall(DocumentOf[a])
  /\ status' = [status EXCEPT ![a] = "CLAIMED"]
  /\ lease' = [lease EXCEPT ![a] = "live"]
  /\ pc' = [pc EXCEPT ![w] = "calling"]
  /\ UNCHANGED <<writeIntended, resultCode, documentVars, fiscalization, settingVars,
                 job, seen, outcome, historyVars, crashes>>

\* mark_write_intended and the commit that also publishes the claim.  The account that an
\* inbound document takes on here is in Reconcile (Readdress).
Authorise(w) ==
  LET a == job[w] IN
  /\ pc[w] = "read"
  /\ MayCall(DocumentOf[a])
  /\ status' = [status EXCEPT ![a] = "CLAIMED"]
  /\ lease' = [lease EXCEPT ![a] = "live"]
  /\ writeIntended' = [writeIntended EXCEPT ![a] = TRUE]
  /\ pc' = [pc EXCEPT ![w] = "calling"]
  /\ UNCHANGED <<resultCode, documentVars, fiscalization, settingVars, job, seen,
                 outcome, historyVars, crashes>>

----
(* The provider call, with no transaction open, and the last transaction.  *)

\* A payment of a document whose provider guid is not known yet is not sent.
\* (An inbound document always has its guid.)
WithoutGuid(w) ==
  /\ pc[w] = "calling"
  /\ job[w] \notin SendAttempts /\ ~seen[w].guid
  /\ outcome' = [outcome EXCEPT ![w] = "review"]
  /\ pc' = [pc EXCEPT ![w] = "returned"]
  /\ UNCHANGED <<attemptVars, documentVars, fiscalization, settingVars, job, seen,
                 historyVars, crashes>>

\* adapter.send, add_payment or reject.  A success means the provider took it, a
\* definite refusal that it did not; a timeout, a 5xx or any other exception says
\* nothing.  (SuperClient and PondiClient show the answers of which this is not so:
\* redirects with an object, bare JSON values.)  Only a send can succeed without returning a guid.
CallProvider(w) ==
  LET a == job[w] IN
  /\ pc[w] = "calling"
  /\ a \in SendAttempts \/ seen[w].guid
  /\ \E o \in Outcomes \ {"review"}, took \in BOOLEAN :
       /\ o = "noguid" => a \in SendAttempts
       /\ o \in {"ok", "noguid"} => took
       /\ o = "refused" => ~took
       /\ outcome' = [outcome EXCEPT ![w] = o]
       /\ accepted' = [accepted EXCEPT ![a] = @ \/ took]
  /\ calls' = [calls EXCEPT ![a] = @ + 1]
  /\ pc' = [pc EXCEPT ![w] = "returned"]
  /\ UNCHANGED <<attemptVars, documentVars, fiscalization, settingVars, job, seen,
                 crashes>>

\* session.get(Attempt) and session.get(Document) of the last transaction: neither
\* is locked, and the owner of the lease is not looked at.
ReadBack(w) ==
  /\ pc[w] = "returned"
  /\ pc' = [pc EXCEPT ![w] = "recording"]
  /\ seen' = [seen EXCEPT ![w] = Snapshot(job[w])]
  /\ UNCHANGED <<attemptVars, documentVars, fiscalization, settingVars, job,
                 outcome, historyVars, crashes>>

\* Mutant: a timeout counts as a failure.
FinalStatusTimeoutFails(o) ==
  CASE o = "ok"                     -> "COMPLETED"
    [] o \in {"refused", "ambiguous"} -> "FAILED"
    [] OTHER                        -> "REQUIRES_REVIEW"

FinalStatus(o) ==
  CASE o = "ok"        -> "COMPLETED"
    [] o = "refused"   -> "FAILED"
    [] o = "ambiguous" -> "UNKNOWN"
    [] OTHER           -> "REQUIRES_REVIEW"

FinalCode(o) ==
  CASE o = "ok"        -> "none"
    [] o = "refused"   -> "PROVIDER_ERROR"
    [] o = "ambiguous" -> "AMBIGUOUS_PROVIDER_RESULT"
    [] OTHER           -> "REQUIRES_REVIEW"

\* Mutant: a success without a guid still counts as submitted.
FinalAxisWithoutGuid(o) ==
  CASE o \in {"ok", "noguid"} -> "SUBMITTED"
    [] o = "refused"          -> "FAILED"
    [] OTHER                  -> "UNKNOWN"

\* Mutant: a timeout is shown as a failure.
FinalAxisTimeoutFails(o) ==
  CASE o = "ok"                       -> "SUBMITTED"
    [] o \in {"refused", "ambiguous"} -> "FAILED"
    [] OTHER                          -> "UNKNOWN"

\* exchange_status of a send, e_reporting_status of a rejection.
FinalAxis(o) ==
  CASE o = "ok"      -> "SUBMITTED"
    [] o = "refused" -> "FAILED"
    [] OTHER         -> "UNKNOWN"

\* A payment the provider took stays PENDING until it is fiscalized.
FinalFiscalization(o) == IF o = "ok" THEN "PENDING" ELSE FinalAxis(o)

\* _commit_result, finish_attempt and the commit: attempt, document and payment
\* change together, whatever the attempt's status is by now.
Record(w) ==
  LET a == job[w]
      d == DocumentOf[a]
      s == seen[w]
      o == outcome[w]
  IN
  /\ pc[w] = "recording"
  /\ status' = [status EXCEPT ![a] = Flushed(s.status, @, FinalStatus(o))]
  /\ resultCode' = [resultCode EXCEPT ![a] = Flushed(s.code, @, FinalCode(o))]
  /\ lease' = [lease EXCEPT ![a] = "none"]
  /\ axis' = [axis EXCEPT ![d] = IF a \in PaymentAttempts THEN @
                                 ELSE Flushed(s.axis, @, FinalAxis(o))]
  /\ guid' = [guid EXCEPT ![d] = @ \/ (a \in SendAttempts /\ o = "ok")]
  /\ processing' = [processing EXCEPT ![d] = Flushed(s.processing, @, FinalCode(o))]
  /\ pending' = [pending EXCEPT ![d] = IF a \in RejectAttempts /\ o = "ok"
                                       THEN Flushed(s.pending, @, NoAttempt) ELSE @]
  /\ fiscalization' = [p \in PaymentAttempts |->
                         IF p = a THEN FinalFiscalization(o) ELSE fiscalization[p]]
  /\ Leave(w)
  /\ UNCHANGED <<writeIntended, settingVars, historyVars, crashes>>

----
(* The environment.                                                        *)

\* The thread dies, or a database error rolls its open transaction back.
Crash(w) ==
  /\ pc[w] # "idle"
  /\ crashes < MaxCrashes
  /\ crashes' = crashes + 1
  /\ Leave(w)
  /\ UNCHANGED <<attemptVars, documentVars, fiscalization, settingVars, historyVars>>

\* now > lease_until.
LeaseExpires(a) ==
  /\ lease[a] = "live"
  /\ lease' = [lease EXCEPT ![a] = "expired"]
  /\ UNCHANGED <<status, writeIntended, resultCode, documentVars, fiscalization,
                 settingVars, pc, job, seen, outcome, historyVars, crashes>>

\* PUT outbound-provider: the new actual row is DISABLED or CONFIGURED.
PutProvider ==
  /\ disabled' = ~disabled
  /\ UNCHANGED <<attemptVars, documentVars, fiscalization, usable, pc, job, seen,
                 outcome, historyVars, crashes>>

\* The operator removes, restores or re-points the document's credential.
ChangeCredential(d) ==
  /\ usable' = [usable EXCEPT ![d] = ~@]
  /\ UNCHANGED <<attemptVars, documentVars, fiscalization, disabled, pc, job, seen,
                 outcome, historyVars, crashes>>

Request(w) ==
  \/ \E a \in SendAttempts : CreateOutbound(w, a)
  \/ \E a \in PaymentAttempts : AddPayment(w, a)
  \/ \E a \in RejectAttempts : LoadForReject(w, a)
  \/ \E a \in SendAttempts \cup PaymentAttempts : Redrive(w, a)

Process(w) ==
  \/ Reject(w)
  \/ ClaimSkip(w) \/ ClaimAmbiguous(w) \/ Claim(w)
  \/ LoadDocument(w) \/ Release(w) \/ Authorise(w)
  \/ WithoutGuid(w) \/ CallProvider(w) \/ ReadBack(w) \/ Record(w)

Next ==
  \/ \E w \in Workers : Request(w) \/ Abandon(w) \/ Process(w) \/ Crash(w)
  \/ \E a \in Attempts : LeaseExpires(a)
  \/ PutProvider
  \/ \E d \in Documents : ChangeCredential(d)

Spec == Init /\ [][Next]_vars

\* Threads keep running, time passes, and the client keeps re-posting a document or
\* payment until it is settled (there is no background worker to do it).
Fairness ==
  /\ \A w \in Workers : WF_vars(Process(w))
  /\ \A a \in Attempts : WF_vars(LeaseExpires(a))
  /\ \A a \in SendAttempts \cup PaymentAttempts :
       SF_vars(\E w \in Workers : Redrive(w, a))

FairSpec == Spec /\ Fairness

----
(* Properties.                                                             *)

\* Types; a thread works on an attempt exactly while it is busy.
TypeOK ==
  /\ status \in [Attempts -> Statuses]
  /\ writeIntended \in [Attempts -> BOOLEAN]
  /\ lease \in [Attempts -> Leases]
  /\ resultCode \in [Attempts -> Codes]
  /\ axis \in [Documents -> Axes]
  /\ guid \in [Documents -> BOOLEAN]
  /\ processing \in [Documents -> Reasons]
  /\ pending \in [Documents -> RejectAttempts \cup {NoAttempt}]
  /\ fiscalization \in [PaymentAttempts -> Axes]
  /\ disabled \in BOOLEAN
  /\ usable \in [Documents -> BOOLEAN]
  /\ pc \in [Workers -> Steps]
  /\ job \in [Workers -> Attempts \cup {NoAttempt}]
  /\ \A w \in Workers : /\ pc[w] = "idle" <=> job[w] = NoAttempt
                        /\ pc[w] = "rejecting" => job[w] \in RejectAttempts
  /\ seen \in [Workers -> Snapshots]
  /\ outcome \in [Workers -> Outcomes \cup {"none"}]
  /\ calls \in [Attempts -> Nat]
  /\ accepted \in [Attempts -> BOOLEAN]
  /\ crashes \in 0..MaxCrashes

\* An attempt reaches the provider at most once, over any number of threads,
\* re-posts, expired leases, crashes and lost answers: the intent committed before
\* the call is never withdrawn once the call may have been made.
AtMostOneCall == \A a \in Attempts : calls[a] <= 1

\* What an attempt reports is what happened at the provider: COMPLETED only if it
\* took the message, FAILED only if it did not, and nothing has left while the
\* attempt is still to be sent.
ResultIsTrue ==
  \A a \in Attempts :
    /\ status[a] = "COMPLETED" => accepted[a]
    /\ status[a] = "FAILED" => ~accepted[a]
    /\ status[a] \in {"ABSENT", "PENDING"} => calls[a] = 0

\* A document's exchange status and guid, and a payment's fiscalization status, tell
\* the same story as its attempt.  Only UNKNOWN is one-sided: an attempt given up by
\* claim_attempt leaves the document QUEUED and the payment PENDING.
AxisAgrees ==
  /\ \A a \in SendAttempts :
       LET d == DocumentOf[a] IN
       /\ axis[d] = "ABSENT" <=> status[a] = "ABSENT"
       /\ axis[d] = "SUBMITTED" <=> status[a] = "COMPLETED"
       /\ guid[d] <=> status[a] = "COMPLETED"
       /\ axis[d] = "FAILED" <=> status[a] = "FAILED"
       /\ axis[d] = "UNKNOWN" => status[a] \in {"UNKNOWN", "REQUIRES_REVIEW"}
  /\ \A a \in PaymentAttempts :
       /\ status[a] = "COMPLETED" => guid[DocumentOf[a]] /\ fiscalization[a] = "PENDING"
       /\ fiscalization[a] = "FAILED" <=> status[a] = "FAILED"
       /\ fiscalization[a] = "UNKNOWN" => status[a] \in {"UNKNOWN", "REQUIRES_REVIEW"}

\* A recorded result is never replaced: the only terminal status that still changes
\* is UNKNOWN, and only when the thread that made the call records its answer.
RecordedIsFinal ==
  [][\A a \in Attempts :
       status[a] \in Terminal /\ status'[a] # status[a] =>
         /\ status[a] = "UNKNOWN"
         /\ \E w \in Workers : pc[w] = "recording" /\ job[w] = a]_vars

\* The attempts table implements the promise of Delivery.
handStage ==
  [a \in Attempts |-> IF status[a] = "ABSENT" THEN "none"
                      ELSE IF calls[a] = 0 THEN "queued" ELSE "handed"]
reported ==
  [a \in Attempts |-> IF status[a] \in Terminal THEN status[a] ELSE "open"]

D == INSTANCE Delivery WITH stage <- handStage, taken <- accepted, report <- reported

\* Every run of the dispatcher is a run of the promise: at most one hand-over, true
\* and final reports, UNKNOWN the only one that a late answer still replaces.
ImplementsDelivery == D!Spec

\* If the provider stays enabled with its credentials from some point on, a document
\* or payment the client keeps posting reaches a terminal status, crashes included.
Settles ==
  <>[](~disabled /\ \A d \in Documents : usable[d]) =>
    \A a \in SendAttempts \cup PaymentAttempts :
      status[a] # "ABSENT" ~> status[a] \in Terminal
=============================================================================
