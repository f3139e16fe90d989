------------------------------ MODULE Statuses ------------------------------
(***************************************************************************)
(* The status of one invoice, from the provider's code to the columns of   *)
(* the document, and the other writers of those columns.                   *)
(*                                                                         *)
(* A reconciliation lists the code, and much later loads the document and  *)
(* writes what the mapping tables make of it (apply_outbound_status_row,   *)
(* _apply_inbound_status).  A payment writes payment_status; a rejection   *)
(* keeps its reason in provider_refs, the same JSON column as the code.    *)
(* Nobody locks the row before reading it, and SQLAlchemy updates the      *)
(* columns that differ from what the session loaded.                       *)
(***************************************************************************)
EXTENDS Naturals

CONSTANTS
  Threads,      \* reconciliations and requests, one at a time each
  Rejections,   \* rejection requests of the invoice
  Codes,        \* of each direction and provider: those that occur in a run
  MaxChanges,   \* bound: times the provider's code changes
  MaxPayments,  \* bound: payments added
  None

Directions == {"INBOUND", "OUTBOUND"}
Providers  == {"SUPER", "PONDI"}

ASSUME StatusAssumption ==
  /\ None \notin Rejections \cup Nat
  /\ {"unasked", "asked"} \cap (Rejections \cup {None}) = {}
  /\ Codes \in [Directions -> [Providers -> SUBSET Nat]]
  /\ {MaxChanges, MaxPayments} \subseteq Nat

VARIABLES
  direction, bound,  \* of the invoice
  actual,    \* the taxpayer's outbound provider (CONFIGURED)
  stamped,   \* the provider of the configuration that each document is stamped with
  resolves,  \* the credential of a configuration that is asked for statuses resolves,
             \* and to the account of the first document of its group
  code,      \* of the invoice at the provider, None until it has it
  inWindow,  \* the window of the listings still reaches the invoice
  rows,      \* documents: "own", and for a sent invoice the "copy" a listing stored
  tx,        \* the threads
  sent,      \* each rejection's stage, then the reason it went out with
  disturbed, \* history: rejections that another transaction may have got in the way of
  torn,      \* history: the row was last written by one that had not seen another's write
  local,     \* history: payment_status was last written by a payment
  changes, payments

context == <<direction, bound, actual, stamped, resolves, code, inWindow, changes>>
vars == <<context, rows, tx, sent, disturbed, torn, local, payments>>

----
(* The mapping tables.                                                     *)

SuperOutbound ==
  [c \in {10, 40, 50, 55, 60, 90, 100, 110} |->
    [exchange  |-> CASE c = 10          -> "QUEUED"
                     [] c = 40          -> "SUBMITTED"
                     [] c \in {50, 55}  -> "FAILED"
                     [] OTHER           -> "DELIVERED",
     recipient |-> IF c = 90 THEN "REJECTED" ELSE "PENDING",
     payment   |-> CASE c = 100 -> "PARTIALLY_PAID" [] c = 110 -> "PAID" [] OTHER -> "UNPAID"]]

PondiOutbound ==
  [c \in 1..9 |->
    [exchange  |-> CASE c = 1      -> "QUEUED"
                     [] c = 2      -> "SUBMITTING"
                     [] c = 3      -> "SUBMITTED"
                     [] c = 9      -> "FAILED"
                     [] OTHER      -> "DELIVERED",
     recipient |-> CASE c \in {5, 7, 8} -> "ACCEPTED" [] c = 6 -> "REJECTED" [] OTHER -> "PENDING",
     payment   |-> CASE c = 7 -> "PAID" [] c = 8 -> "PARTIALLY_PAID" [] OTHER -> "UNPAID"]]

\* intake_status; an inbound document has no recipient or payment status.
SuperInbound ==
  [c \in {10, 30, 40, 50} |-> [exchange |-> "AVAILABLE", recipient |-> "NONE", payment |-> "NONE"]]

PondiInbound ==
  [c \in 1..9 |->
    [exchange  |-> CASE c \in 1..3 -> "RECEIVED" [] c = 9 -> "FAILED" [] OTHER -> "AVAILABLE",
     recipient |-> "NONE", payment |-> "NONE"]]

Table ==
  CASE direction = "OUTBOUND" /\ bound = "SUPER" -> SuperOutbound
    [] direction = "OUTBOUND" /\ bound = "PONDI" -> PondiOutbound
    [] direction = "INBOUND"  /\ bound = "SUPER" -> SuperInbound
    [] OTHER                                     -> PondiInbound

\* map_outbound_status, map_inbound_status: a code that is not in the table is UNKNOWN
\* on every axis.
Mapped(c) ==
  IF c \in DOMAIN Table THEN Table[c]
  ELSE [exchange  |-> "UNKNOWN",
        recipient |-> IF direction = "OUTBOUND" THEN "UNKNOWN" ELSE "NONE",
        payment   |-> IF direction = "OUTBOUND" THEN "UNKNOWN" ELSE "NONE"]

----
(* Documents and transactions.                                             *)

Docs == {"own", "copy"}

\* "refs" is provider_refs: the code and the reason of a rejection, one column.
Row(stored, guid, values, c, pending) ==
  [stored |-> stored, guid |-> guid, exchange |-> values.exchange,
   recipient |-> values.recipient, payment |-> values.payment,
   refs |-> [code |-> c, pending |-> pending]]

Queued == [exchange |-> "QUEUED", recipient |-> "PENDING", payment |-> "UNPAID"]

NoRow == Row(FALSE, FALSE, Queued, None, None)

Idle == [at |-> "idle", doc |-> "own", code |-> None, rejection |-> None,
         read |-> NoRow, stale |-> FALSE]

\* An inbound document was stored from a listing; a sent one is created by its request.
Init ==
  /\ direction \in Directions /\ bound \in Providers
  /\ actual \in IF direction = "OUTBOUND" THEN Providers ELSE {bound}
  /\ resolves = TRUE
  /\ stamped = [d \in Docs |-> IF d = "own" /\ direction = "OUTBOUND" THEN bound ELSE None]
  /\ IF direction = "INBOUND"
     THEN /\ code \in Codes[direction][bound]
          /\ rows = [d \in Docs |-> IF d = "own" THEN Row(TRUE, TRUE, Mapped(code), code, None)
                                    ELSE NoRow]
     ELSE /\ code = None
          /\ rows = [d \in Docs |-> IF d = "own" THEN Row(TRUE, FALSE, Queued, None, None)
                                    ELSE NoRow]
  /\ inWindow = TRUE
  /\ tx = [t \in Threads |-> Idle]
  /\ sent = [r \in Rejections |-> "unasked"]
  /\ disturbed = {}
  /\ torn = {}
  /\ local = {}
  /\ changes = 0 /\ payments = 0

\* SQLAlchemy's UPDATE: the columns whose new value is not the one that was loaded.
Flushed(read, current, new) ==
  [c \in DOMAIN current |-> IF new[c] = read[c] THEN current[c] ELSE new[c]]

\* Steps at which a thread holds a row that it has loaded and will write.
Loaded == {"loaded", "paying", "rejecting", "recording"}

Load(t, d, step) ==
  tx' = [tx EXCEPT ![t] = [@ EXCEPT !.at = step, !.doc = d, !.read = rows[d], !.stale = FALSE]]

\* The flush and the commit of t, which goes on to the given step.  A thread that has
\* loaded the row by now does not see this.
Write(t, new, step) ==
  LET d == tx[t].doc
      row == Flushed(tx[t].read, rows[d], new)
  IN
  /\ rows' = [rows EXCEPT ![d] = row]
  /\ tx' = [u \in Threads |->
       IF u = t THEN [Idle EXCEPT !.at = step,
                                  !.rejection = IF step = "idle" THEN None ELSE tx[t].rejection]
       ELSE [tx[u] EXCEPT !.stale = @ \/ (tx[u].at \in Loaded /\ tx[u].doc = d /\ row # rows[d])]]

----
(* The provider, the operator and the calendar.                            *)

\* The provider takes the document that is sent, or its status changes.
Progress ==
  /\ code # None => changes < MaxChanges
  /\ changes' = IF code # None THEN changes + 1 ELSE changes
  /\ code' \in Codes[direction][bound] \ {code}
  /\ UNCHANGED <<direction, bound, actual, stamped, resolves, inWindow, rows, tx,
                 sent, disturbed, torn, local, payments>>

\* The watermark moves on, and listings select by the day a document was received.
LeaveWindow ==
  /\ inWindow /\ code # None
  /\ inWindow' = FALSE
  /\ UNCHANGED <<direction, bound, actual, stamped, resolves, code, changes, rows,
                 tx, sent, disturbed, torn, local, payments>>

\* PUT outbound-provider.
Switch ==
  /\ direction = "OUTBOUND"
  /\ actual' \in Providers \ {actual}
  /\ UNCHANGED <<direction, bound, stamped, resolves, code, inWindow, changes, rows, tx, sent,
                 disturbed, torn, local, payments>>

\* The operator removes, restores or re-points a credential.
ChangeCredential ==
  /\ direction = "OUTBOUND"
  /\ resolves' = ~resolves
  /\ UNCHANGED <<direction, bound, actual, stamped, code, inWindow, changes, rows, tx, sent,
                 disturbed, torn, local, payments>>

----
(* A sent document gets its guid when the dispatcher records the answer, and never     *)
(* when there was none.                                                                *)

RecordSend ==
  /\ rows["own"].exchange = "QUEUED" /\ ~rows["own"].guid
  /\ direction = "OUTBOUND"
  /\ \/ /\ code # None
        /\ rows' = [rows EXCEPT !["own"].exchange = "SUBMITTED", !["own"].guid = TRUE]
     \/ rows' = [rows EXCEPT !["own"].exchange = "UNKNOWN"]
  /\ UNCHANGED <<context, tx, sent, disturbed, torn, local, payments>>

----
(* run_reconciliation                                                      *)

\* get_actual of a provider with fetch_outbound_with_ubl: all that was sent lately is
\* listed.  Otherwise the codes of the known guids are asked for, from
\* the provider of the configuration with which a document is stamped.
Historical == direction = "OUTBOUND" /\ actual = "PONDI"

\* A run that lists now lists the invoice.  Of a document that is stamped with another
\* provider's configuration that other provider is asked, if anyone: its account differs
\* from the one of the credential, and the first document of a group decides.
Covered ==
  /\ code # None
  /\ CASE direction = "INBOUND" -> inWindow
       [] Historical            -> bound = "PONDI" /\ inWindow
       [] OTHER                 ->
            resolves /\ \E d \in Docs : rows[d].guid /\ stamped[d] = bound

List(t) ==
  /\ tx[t].at = "idle"
  /\ Covered
  /\ tx' = [tx EXCEPT ![t] = [Idle EXCEPT !.at = "listed", !.code = code]]
  /\ UNCHANGED <<context, rows, sent, disturbed, torn, local, payments>>

\* The document of the guid that was created last: a copy is younger than the document
\* whose guid was recorded later.
Newest == IF rows["copy"].guid THEN "copy" ELSE "own"

LoadRow(t) ==
  /\ tx[t].at = "listed"
  /\ rows[Newest].guid
  /\ Load(t, Newest, "loaded")
  /\ UNCHANGED <<context, rows, sent, disturbed, torn, local, payments>>

\* persist_historical_outbound_batch stores what it does not find, though it may be a
\* document whose send has not been recorded.  The stamp is the actual configuration of
\* now: the listing may have been made with another one.
StoreCopy(t) ==
  /\ tx[t].at = "listed"
  /\ ~rows[Newest].guid
  /\ rows' = [rows EXCEPT !["copy"] = Row(TRUE, TRUE, Mapped(tx[t].code), tx[t].code, None)]
  /\ stamped' = [stamped EXCEPT !["copy"] = actual]
  /\ tx' = [tx EXCEPT ![t] = Idle]
  /\ UNCHANGED <<direction, bound, actual, resolves, code, inWindow, changes, sent,
                 disturbed, torn, local, payments>>

\* Mutant: payment_status is left to the payments.
StatusWithoutPayment(row, c) ==
  Row(row.stored, row.guid, [Mapped(c) EXCEPT !.payment = row.payment], c, row.refs.pending)


\* Mutant: provider_refs is made anew.
StatusAlone(row, c) == Row(row.stored, row.guid, Mapped(c), c, None)

\* What apply_outbound_status_row and _apply_inbound_status assign.
Status(row, c) == Row(row.stored, row.guid, Mapped(c), c, row.refs.pending)

Apply(t) ==
  LET d == tx[t].doc IN
  /\ tx[t].at = "loaded"
  /\ Write(t, Status(tx[t].read, tx[t].code), "idle")
  /\ torn' = IF tx[t].stale THEN torn \cup {d} ELSE torn \ {d}
  /\ local' = IF tx[t].stale THEN local ELSE local \ {d}
  /\ UNCHANGED <<context, sent, disturbed, payments>>

----
(* add_payment                                                             *)

LoadForPayment(t, d) ==
  /\ tx[t].at = "idle" /\ direction = "OUTBOUND"
  /\ rows[d].stored
  /\ payments < MaxPayments
  /\ payments' = payments + 1
  /\ Load(t, d, "paying")
  /\ UNCHANGED <<context, rows, sent, disturbed, torn, local>>

AddPayment(t) ==
  /\ tx[t].at = "paying"
  /\ \E settlement \in {"PARTIALLY_PAID", "PAID"} :
       Write(t, [tx[t].read EXCEPT !.payment = settlement], "idle")
  /\ local' = local \cup {tx[t].doc}
  /\ UNCHANGED <<context, sent, disturbed, torn, payments>>

----
(* reject_e_reporting and its process_attempt, as far as they touch provider_refs.     *)

LoadForReject(t, r) ==
  /\ tx[t].at = "idle" /\ direction = "INBOUND"
  /\ sent[r] = "unasked"
  /\ sent' = [sent EXCEPT ![r] = "asked"]
  /\ tx' = [tx EXCEPT ![t] = [Idle EXCEPT !.at = "rejecting", !.read = rows["own"],
                                          !.rejection = r]]
  /\ UNCHANGED <<context, rows, disturbed, torn, local, payments>>

\* A write of provider_refs by a thread that did not see another's takes that back.
Tear(t, new) ==
  torn' = IF tx[t].stale /\ new.refs # tx[t].read.refs THEN torn \cup {tx[t].doc} ELSE torn

Reject(t) ==
  LET r == tx[t].rejection
      new == [tx[t].read EXCEPT !.refs.pending = r]
      others == {u \in Threads \ {t} : tx[u].rejection # None}
  IN
  /\ tx[t].at = "rejecting"
  /\ Write(t, new, "stored")
  /\ Tear(t, new)
  /\ disturbed' = disturbed \cup {tx[u].rejection : u \in others}
       \cup (IF others # {} \/ \E u \in Threads : tx[u].at = "loaded" THEN {r} ELSE {})
  /\ UNCHANGED <<context, sent, local, payments>>

\* The worker loads the document and makes the call.
SendReason(t) ==
  /\ tx[t].at = "stored"
  /\ sent' = [sent EXCEPT ![tx[t].rejection] = rows["own"].refs.pending]
  /\ tx' = [tx EXCEPT ![t].at = "called"]
  /\ UNCHANGED <<context, rows, disturbed, torn, local, payments>>

ReadBack(t) ==
  /\ tx[t].at = "called"
  /\ Load(t, "own", "recording")
  /\ UNCHANGED <<context, rows, sent, disturbed, torn, local, payments>>

\* _commit_result: a success removes the reason, anything else leaves provider_refs.
Record(t) ==
  /\ tx[t].at = "recording"
  /\ \E new \in {tx[t].read, [tx[t].read EXCEPT !.refs.pending = None]} :
       Write(t, new, "idle") /\ Tear(t, new)
  /\ UNCHANGED <<context, sent, disturbed, local, payments>>

Step(t) ==
  \/ LoadRow(t) \/ StoreCopy(t) \/ Apply(t)
  \/ AddPayment(t)
  \/ Reject(t) \/ SendReason(t) \/ ReadBack(t) \/ Record(t)

Next ==
  \/ Progress \/ LeaveWindow \/ Switch \/ ChangeCredential \/ RecordSend
  \/ \E t \in Threads :
       \/ List(t) \/ Step(t)
       \/ \E d \in Docs : LoadForPayment(t, d)
       \/ \E r \in Rejections : LoadForReject(t, r)

Spec == Init /\ [][Next]_vars

\* Threads keep running, and reconciliations keep being asked for.
FairSpec ==
  /\ Spec
  /\ \A t \in Threads : WF_vars(Step(t))
  /\ SF_vars(\E t \in Threads : List(t))

----
(* Properties.                                                             *)

AllCodes == UNION {Codes[x][p] : x \in Directions, p \in Providers}

Exchanges  == {"QUEUED", "SUBMITTING", "SUBMITTED", "DELIVERED", "RECEIVED", "AVAILABLE",
               "FAILED", "UNKNOWN"}
Recipients == {"PENDING", "ACCEPTED", "REJECTED", "UNKNOWN", "NONE"}
Payments   == {"UNPAID", "PARTIALLY_PAID", "PAID", "UNKNOWN", "NONE"}

RowType ==
  [stored : BOOLEAN, guid : BOOLEAN,
   exchange : Exchanges, recipient : Recipients, payment : Payments,
   refs : [code : AllCodes \cup {None}, pending : Rejections \cup {None}]]

TxType ==
  [at : {"idle", "listed", "loaded", "paying", "rejecting", "stored", "called", "recording"},
   doc : Docs, code : AllCodes \cup {None}, rejection : Rejections \cup {None},
   read : RowType, stale : BOOLEAN]

\* Types; the code is one of the invoice's direction and provider.
TypeOK ==
  /\ direction \in Directions /\ bound \in Providers /\ actual \in Providers
  /\ resolves \in BOOLEAN
  /\ stamped \in [Docs -> Providers \cup {None}]
  /\ code \in Codes[direction][bound] \cup {None}
  /\ rows \in [Docs -> RowType]
  /\ tx \in [Threads -> TxType]
  /\ sent \in [Rejections -> Rejections \cup {"unasked", "asked", None}]
  /\ inWindow \in BOOLEAN
  /\ disturbed \subseteq Rejections /\ torn \subseteq Docs /\ local \subseteq Docs
  /\ changes \in 0..MaxChanges /\ payments \in 0..MaxPayments

\* A rejection goes out with its own reason, though it is read back from provider_refs
\* after the request committed: unless another rejection was under way, or a
\* reconciliation had loaded the document before the reason was stored.
OwnReason ==
  \A r \in Rejections : sent[r] \in {"unasked", "asked", r} \/ r \in disturbed

\* The axes of a document and its code come from one and the same code of the provider,
\* but for the payment status that a payment set since; unless the last writer had
\* loaded the row before another one wrote it.
RowAgrees ==
  \A d \in Docs \ torn : LET row == rows[d] IN row.refs.code # None =>
    /\ row.exchange = Mapped(row.refs.code).exchange
    /\ row.recipient = Mapped(row.refs.code).recipient
    /\ row.payment = Mapped(row.refs.code).payment \/ d \in local

\* The youngest document of the invoice shows the provider's code.
Shown ==
  LET row == IF rows["copy"].stored THEN rows["copy"] ELSE rows["own"] IN
  row.guid /\ row.refs.code = code /\ row = Status(row, code)

=============================================================================
