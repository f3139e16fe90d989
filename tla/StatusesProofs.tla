--------------------------- MODULE StatusesProofs ---------------------------
(***************************************************************************)
(* Proofs about Statuses, for any codes, threads and rejections.           *)
(*                                                                         *)
(* The argument for the rows: a thread that is not stale has read what the *)
(* row holds (Fresh), so the columns it leaves out of its UPDATE hold what *)
(* it would write.  The argument for the reasons: the reason of an         *)
(* undisturbed rejection is in the row, and in what any reconciliation     *)
(* that could write the row has read, until the worker takes it (Kept).    *)
(***************************************************************************)
EXTENDS Statuses, TLAPS

\* The stages of a rejection.
Rejecting == {"rejecting", "stored", "called", "recording"}

\* Where the threads can be: a status is written to a row with a guid, a rejection is of
\* an inbound document.
Placed(t) ==
  /\ tx[t].at = "loaded" => rows[tx[t].doc].guid
  /\ tx[t].at \in Rejecting =>
       direction = "INBOUND" /\ tx[t].doc = "own" /\ tx[t].rejection # None
  /\ tx[t].at \notin Rejecting => tx[t].rejection = None
  /\ tx[t].at = "listed" => tx[t].code # None

\* A document without a guid has no code, and an inbound one has a guid.
Guids ==
  /\ direction = "INBOUND" => rows["own"].guid
  /\ ~rows["own"].guid => rows["own"].refs.code = None

\* A thread that is not stale has read what the row holds.
Fresh(t) ==
  tx[t].at \in {"loaded", "rejecting", "recording"} /\ ~tx[t].stale => tx[t].read = rows[tx[t].doc]

\* The reason of a rejection that has not been stored is nowhere.
Unused(r) ==
  sent[r] = "unasked" \/ (\E t \in Threads : tx[t].at = "rejecting" /\ tx[t].rejection = r) =>
    /\ \A d \in Docs : rows[d].refs.pending # r
    /\ \A t \in Threads : tx[t].read.refs.pending # r

\* A rejection is one thread's.
Own(t) ==
  tx[t].rejection # None =>
    /\ sent[tx[t].rejection] # "unasked"
    /\ \A u \in Threads \ {t} : tx[u].rejection # tx[t].rejection

\* The reason of an undisturbed rejection stays until the worker sends it.
Kept(t) ==
  tx[t].at = "stored" /\ tx[t].rejection \notin disturbed =>
    /\ rows["own"].refs.pending = tx[t].rejection
    /\ \A u \in Threads \ {t} :
         /\ tx[u].at \in {"rejecting"} \/ tx[u].rejection = None
         /\ tx[u].at = "loaded" /\ tx[u].doc = "own" =>
              tx[u].read.refs.pending = tx[t].rejection

IInv == /\ TypeOK /\ OwnReason /\ RowAgrees /\ Guids
        /\ \A t \in Threads : Placed(t) /\ Fresh(t) /\ Own(t) /\ Kept(t)
        /\ \A r \in Rejections : Unused(r)

USE StatusAssumption DEF StatusAssumption

\* The columns of a row after an UPDATE.
LEMMA FlushedRow ==
  ASSUME NEW read \in RowType, NEW current \in RowType, NEW new \in RowType
  PROVE  LET row == Flushed(read, current, new) IN
         /\ row \in RowType
         /\ row.stored = IF new.stored = read.stored THEN current.stored ELSE new.stored
         /\ row.guid = IF new.guid = read.guid THEN current.guid ELSE new.guid
         /\ row.exchange = IF new.exchange = read.exchange THEN current.exchange ELSE new.exchange
         /\ row.recipient =
              IF new.recipient = read.recipient THEN current.recipient ELSE new.recipient
         /\ row.payment = IF new.payment = read.payment THEN current.payment ELSE new.payment
         /\ row.refs = IF new.refs = read.refs THEN current.refs ELSE new.refs
BY DEF Flushed, RowType

\* The axes that a code is mapped to.
LEMMA MappedType ==
  ASSUME NEW c
  PROVE  /\ Mapped(c).exchange \in Exchanges /\ Mapped(c).recipient \in Recipients
         /\ Mapped(c).payment \in Payments
<1>1. CASE c \in DOMAIN Table
  <2>1. Table \in {SuperOutbound, PondiOutbound, SuperInbound, PondiInbound}
    BY DEF Table
  <2>2. Mapped(c) = Table[c]
    BY <1>1 DEF Mapped
  <2>3. CASE Table = SuperOutbound
    BY <1>1, <2>2, <2>3 DEF SuperOutbound, Exchanges, Recipients, Payments
  <2>4. CASE Table = PondiOutbound
    BY <1>1, <2>2, <2>4 DEF PondiOutbound, Exchanges, Recipients, Payments
  <2>5. CASE Table = SuperInbound
    BY <1>1, <2>2, <2>5 DEF SuperInbound, Exchanges, Recipients, Payments
  <2>6. CASE Table = PondiInbound
    BY <1>1, <2>2, <2>6 DEF PondiInbound, Exchanges, Recipients, Payments
  <2> QED
    BY <2>1, <2>3, <2>4, <2>5, <2>6
<1>2. CASE c \notin DOMAIN Table
  BY <1>2 DEF Mapped, Exchanges, Recipients, Payments
<1> QED
  BY <1>1, <1>2

\* The tables are those of the invoice's direction and provider.
LEMMA MappedKept ==
  ASSUME direction' = direction, bound' = bound
  PROVE  \A c : Mapped(c)' = Mapped(c)
<1>1. Table' = Table
  BY DEF Table
<1> QED
  BY <1>1 DEF Mapped

\* Types of what is assigned.
LEMMA RowsTyped ==
  /\ NoRow \in RowType
  /\ \A row \in RowType, c \in AllCodes \cup {None} :
       /\ Status(row, c) \in RowType
       /\ Status(row, c).guid = row.guid
       /\ Status(row, c).refs = [code |-> c, pending |-> row.refs.pending]
       /\ Status(row, c).exchange = Mapped(c).exchange
       /\ Status(row, c).recipient = Mapped(c).recipient
       /\ Status(row, c).payment = Mapped(c).payment
<1>1. NoRow \in RowType
  BY DEF NoRow, Row, Queued, RowType, Exchanges, Recipients, Payments
<1>2. ASSUME NEW row \in RowType, NEW c \in AllCodes \cup {None}
      PROVE  /\ Status(row, c) \in RowType
             /\ Status(row, c).guid = row.guid
             /\ Status(row, c).refs = [code |-> c, pending |-> row.refs.pending]
             /\ Status(row, c).exchange = Mapped(c).exchange
             /\ Status(row, c).recipient = Mapped(c).recipient
             /\ Status(row, c).payment = Mapped(c).payment
  BY MappedType DEF Status, Row, RowType
<1> QED
  BY <1>1, <1>2

\* An idle thread.
LEMMA IdleTyped == Idle \in TxType
BY RowsTyped DEF Idle, TxType, Docs

\* The codes of the invoice are codes.
LEMMA CodeTyped == TypeOK => code \in AllCodes \cup {None}
BY DEF TypeOK, AllCodes

----
\* The initial state satisfies the inductive invariant.
LEMMA InvInit == Init => IInv
<1> SUFFICES ASSUME Init PROVE IInv
  OBVIOUS
<1>1. /\ direction \in Directions /\ bound \in Providers /\ actual \in Providers
      /\ code \in Codes[direction][bound] \cup {None}
  BY DEF Init
<1>2. code \in AllCodes \cup {None}
  BY <1>1 DEF AllCodes
<1>3. rows["own"] \in RowType /\ rows["copy"] \in RowType /\ rows \in [Docs -> RowType]
  <2>1. \A guid \in BOOLEAN : Row(TRUE, guid, Mapped(code), code, None) \in RowType
    BY <1>2, MappedType DEF Row, RowType
  <2>2. Row(TRUE, FALSE, Queued, None, None) \in RowType
    BY DEF Row, Queued, RowType, Exchanges, Recipients, Payments
  <2>3. \E row \in RowType : rows = [d \in Docs |-> IF d = "own" THEN row ELSE NoRow]
    <3>1. CASE direction = "INBOUND"
      BY <2>1, <3>1 DEF Init
    <3>2. CASE direction # "INBOUND"
      BY <2>2, <3>2 DEF Init
    <3> QED
      BY <3>1, <3>2
  <2> QED
    BY <2>3, RowsTyped DEF Docs
<1>4. TypeOK
  <2>1. tx \in [Threads -> TxType]
    BY IdleTyped DEF Init
  <2>2. /\ inWindow \in BOOLEAN /\ resolves \in BOOLEAN
        /\ stamped \in [Docs -> Providers \cup {None}]
    BY DEF Init
  <2>3. /\ sent \in [Rejections -> Rejections \cup {"unasked", "asked", None}]
        /\ disturbed \subseteq Rejections /\ torn \subseteq Docs /\ local \subseteq Docs
        /\ changes \in 0..MaxChanges /\ payments \in 0..MaxPayments
    BY DEF Init
  <2> QED
    BY <1>1, <1>3, <2>1, <2>2, <2>3 DEF TypeOK
<1>5. OwnReason
  BY DEF Init, OwnReason
<1>6. RowAgrees /\ Guids /\ \A d \in Docs : rows[d].refs.pending = None
  <2>1. CASE direction = "INBOUND"
    BY <2>1 DEF Init, RowAgrees, Guids, Row, NoRow, Docs
  <2>2. CASE direction = "OUTBOUND"
    BY <2>2 DEF Init, RowAgrees, Guids, Row, NoRow, Docs
  <2> QED
    BY <1>1, <2>1, <2>2 DEF Directions
<1>7. \A t \in Threads : Placed(t) /\ Fresh(t) /\ Own(t) /\ Kept(t)
  BY DEF Init, Idle, Placed, Fresh, Own, Kept, Rejecting
<1>8. \A r \in Rejections : Unused(r)
  BY <1>6 DEF Init, Idle, NoRow, Row, Unused
<1> QED
  BY <1>4, <1>5, <1>6, <1>7, <1>8 DEF IInv

\* What the provider, the operator and the calendar do concerns neither rows nor threads.
LEMMA InvEnvironment ==
  ASSUME IInv, Progress \/ LeaveWindow \/ Switch \/ ChangeCredential
  PROVE  IInv'
<1>1. /\ direction' = direction /\ bound' = bound /\ rows' = rows /\ tx' = tx /\ sent' = sent
      /\ disturbed' = disturbed /\ torn' = torn /\ local' = local /\ payments' = payments
  BY DEF Progress, LeaveWindow, Switch, ChangeCredential
<1>2. TypeOK'
  <2>1. code' \in Codes[direction][bound] \cup {None}
    BY DEF IInv, TypeOK, Progress, LeaveWindow, Switch, ChangeCredential
  <2>2. inWindow' \in BOOLEAN
    BY DEF IInv, TypeOK, Progress, LeaveWindow, Switch, ChangeCredential
  <2>3. /\ actual' \in Providers /\ resolves' \in BOOLEAN
        /\ stamped' \in [Docs -> Providers \cup {None}]
    BY DEF IInv, TypeOK, Progress, LeaveWindow, Switch, ChangeCredential
  <2>4. changes' \in 0..MaxChanges
    BY DEF IInv, TypeOK, Progress, LeaveWindow, Switch, ChangeCredential
  <2> QED
    BY <1>1, <2>1, <2>2, <2>3, <2>4 DEF IInv, TypeOK
<1>3. OwnReason' /\ Guids'
  BY <1>1 DEF IInv, OwnReason, Guids
<1>4. RowAgrees'
  BY <1>1, MappedKept DEF IInv, RowAgrees
<1>5. \A t \in Threads : Placed(t)' /\ Fresh(t)' /\ Own(t)' /\ Kept(t)'
  BY <1>1 DEF IInv, Placed, Fresh, Own, Kept
<1>6. \A r \in Rejections : Unused(r)'
  BY <1>1 DEF IInv, Unused
<1> QED
  BY <1>2, <1>3, <1>4, <1>5, <1>6 DEF IInv

----
(* Threads that go on without writing a row.                               *)

\* A thread goes on to v, and no row changes: what it has read is in a row or was read
\* before; only a request that begins stands for a rejection it did not stand for.
Goes(t, v) ==
  /\ tx' = [tx EXCEPT ![t] = v]
  /\ UNCHANGED <<context, rows, disturbed, torn, local>>
  /\ payments' \in 0..MaxPayments
  /\ v.at # "stored"
  /\ v.at = "loaded" => rows[v.doc].guid
  /\ v.at \in Rejecting => direction = "INBOUND" /\ v.doc = "own" /\ v.rejection # None
  /\ v.at \notin Rejecting => v.rejection = None
  /\ v.at = "listed" => v.code # None
  /\ v.at \in {"loaded", "rejecting", "recording"} => v.read = rows[v.doc]
  /\ v.read \in {tx[t].read, NoRow, rows["own"], rows["copy"]}
  /\ v.rejection # None =>
       \/ /\ v.rejection = tx[t].rejection
          /\ v.at \in {"called", "recording"} /\ tx[t].at \in {"stored", "called"}
       \/ /\ sent[v.rejection] = "unasked" /\ sent'[v.rejection] # "unasked"
          /\ v.at = "rejecting" /\ tx[t].rejection = None
  /\ sent' \in [Rejections -> Rejections \cup {"unasked", "asked", None}]
  /\ \A r \in Rejections : sent'[r] = "unasked" => sent[r] = "unasked"
  /\ \A r \in Rejections : sent'[r] \in {"unasked", "asked", r} \/ r \in disturbed

\* Such a step keeps the inductive invariant.
LEMMA InvGoes ==
  ASSUME IInv, NEW t \in Threads, NEW v \in TxType, Goes(t, v)
  PROVE  IInv'
<1>1. /\ tx' \in [Threads -> TxType] /\ tx'[t] = v
      /\ \A u \in Threads \ {t} : tx'[u] = tx[u]
  BY DEF IInv, TypeOK, Goes
<1>2. /\ direction' = direction /\ bound' = bound /\ rows' = rows /\ disturbed' = disturbed
      /\ torn' = torn /\ local' = local
  BY DEF Goes, context
<1>3. TypeOK'
  BY <1>1 DEF IInv, TypeOK, Goes, context
<1>4. OwnReason'
  BY <1>2 DEF Goes, OwnReason
<1>5. Guids' /\ RowAgrees'
  BY <1>2, MappedKept DEF IInv, Guids, RowAgrees
<1>6. \A u \in Threads : Placed(u)'
  BY <1>1, <1>2 DEF IInv, Placed, Goes
<1>7. \A u \in Threads : Fresh(u)'
  BY <1>1, <1>2 DEF IInv, Fresh, Goes
<1>8. \A u \in Threads : Own(u)'
  <2>1. ASSUME NEW u \in Threads \ {t}, tx[u].rejection # None
        PROVE  sent'[tx[u].rejection] # "unasked" /\ tx[u].rejection # v.rejection
    <3>1. tx[u].rejection \in Rejections /\ sent[tx[u].rejection] # "unasked"
      BY <2>1 DEF IInv, TypeOK, TxType, Own
    <3>2. tx[u].rejection # tx[t].rejection
      BY <2>1 DEF IInv, Own
    <3> QED
      BY <2>1, <3>1, <3>2 DEF Goes
  <2>2. v.rejection # None => sent'[v.rejection] # "unasked"
    BY DEF IInv, TypeOK, TxType, Own, Goes
  <2>3. ASSUME NEW u \in Threads \ {t}, tx[u].rejection # None, NEW w \in Threads \ {u}
        PROVE  tx'[w].rejection # tx[u].rejection
    BY <1>1, <2>1, <2>3 DEF IInv, Own
  <2>4. Own(t)'
    BY <1>1, <2>1, <2>2 DEF Own
  <2>5. \A u \in Threads \ {t} : Own(u)'
    BY <1>1, <2>1, <2>3 DEF Own
  <2> QED
    BY <2>4, <2>5
<1>9. ASSUME NEW r \in Rejections PROVE Unused(r)'
  <2>1. SUFFICES ASSUME \/ sent'[r] = "unasked"
                        \/ \E u \in Threads : tx'[u].at = "rejecting" /\ tx'[u].rejection = r
                 PROVE  /\ \A d \in Docs : rows[d].refs.pending # r
                        /\ \A u \in Threads : tx'[u].read.refs.pending # r
    BY <1>2 DEF Unused
  <2>2. \/ sent[r] = "unasked"
        \/ \E u \in Threads : tx[u].at = "rejecting" /\ tx[u].rejection = r
    BY <1>1, <2>1 DEF Goes
  <2>3. /\ \A d \in Docs : rows[d].refs.pending # r
        /\ \A u \in Threads : tx[u].read.refs.pending # r
    BY <2>2 DEF IInv, Unused
  <2>4. NoRow.refs.pending # r
    BY DEF NoRow, Row
  <2>5. v.read.refs.pending # r
    BY <2>3, <2>4 DEF Goes, Docs
  <2> QED
    BY <1>1, <2>3, <2>5
<1>10. \A u \in Threads : Kept(u)'
  <2>1. Kept(t)'
    BY <1>1 DEF Kept, Goes
  <2>2. ASSUME NEW u \in Threads \ {t} PROVE Kept(u)'
    <3>1. SUFFICES ASSUME tx[u].at = "stored", tx[u].rejection \notin disturbed
                   PROVE  /\ v.at = "rejecting" \/ v.rejection = None
                          /\ v.at = "loaded" /\ v.doc = "own" =>
                               v.read.refs.pending = tx[u].rejection
      BY <1>1, <1>2 DEF IInv, Kept
    <3>2. /\ rows["own"].refs.pending = tx[u].rejection
          /\ tx[t].at = "rejecting" \/ tx[t].rejection = None
      BY <3>1 DEF IInv, Kept
    <3>3. tx[t].at \notin {"stored", "called"}
      BY <3>2 DEF IInv, Placed, Rejecting
    <3> QED
      BY <3>2, <3>3 DEF Goes
  <2> QED
    BY <2>1, <2>2
<1> QED
  BY <1>3, <1>4, <1>5, <1>6, <1>7, <1>8, <1>9, <1>10 DEF IInv

\* Listing a code, loading the document, taking the reason to the provider.
LEMMA InvRead ==
  ASSUME IInv, NEW t \in Threads,
         \/ List(t) \/ LoadRow(t) \/ SendReason(t) \/ ReadBack(t)
         \/ \E d \in Docs : LoadForPayment(t, d)
         \/ \E r \in Rejections : LoadForReject(t, r)
  PROVE  IInv'
<1>1. /\ tx[t] \in TxType /\ tx \in [Threads -> TxType] /\ rows \in [Docs -> RowType]
      /\ sent \in [Rejections -> Rejections \cup {"unasked", "asked", None}]
      /\ payments \in 0..MaxPayments /\ "own" \in Docs /\ "copy" \in Docs
  BY DEF IInv, TypeOK, Docs
<1>2. Placed(t) /\ Own(t) /\ OwnReason
  BY DEF IInv
<1>3. CASE List(t)
  <2> DEFINE v == [Idle EXCEPT !.at = "listed", !.code = code]
  <2>1. v \in TxType /\ v.at = "listed" /\ v.code = code /\ v.rejection = None /\ v.read = NoRow
    BY CodeTyped, IdleTyped DEF Idle, TxType, IInv
  <2>2. tx' = [tx EXCEPT ![t] = v] /\ code # None
    BY <1>3 DEF List, Covered
  <2> HIDE DEF v
  <2>3. Goes(t, v)
    BY <1>1, <1>2, <1>3, <2>1, <2>2 DEF Goes, List, Rejecting, OwnReason
  <2> QED
    BY <2>1, <2>3, InvGoes
<1>4. ASSUME NEW d \in Docs, NEW step \in {"loaded", "paying", "recording"}, Load(t, d, step),
             UNCHANGED <<context, rows, sent, disturbed, torn, local>>,
             payments' \in 0..MaxPayments,
             step = "loaded" => rows[d].guid,
             IF step = "recording" THEN d = "own" /\ tx[t].at = "called"
                                   ELSE tx[t].at \in {"idle", "listed"}
      PROVE  IInv'
  <2> DEFINE v == [tx[t] EXCEPT !.at = step, !.doc = d, !.read = rows[d], !.stale = FALSE]
  <2>1. /\ v \in TxType /\ v.at = step /\ v.doc = d /\ v.read = rows[d]
        /\ v.rejection = tx[t].rejection
    BY <1>1 DEF TxType
  <2>2. tx' = [tx EXCEPT ![t] = v]
    BY <1>4 DEF Load
  <2> HIDE DEF v
  <2>3. v.read \in {rows["own"], rows["copy"]}
    BY <2>1 DEF Docs
  <2>4. Goes(t, v)
    BY <1>1, <1>2, <1>4, <2>1, <2>2, <2>3 DEF Goes, Rejecting, OwnReason, Placed
  <2> QED
    BY <2>1, <2>4, InvGoes
<1>5. CASE LoadRow(t)
  BY <1>1, <1>4, <1>5 DEF LoadRow, Newest
<1>6. CASE ReadBack(t)
  BY <1>1, <1>4, <1>6 DEF ReadBack
<1>7. ASSUME NEW d \in Docs, LoadForPayment(t, d) PROVE IInv'
  BY <1>1, <1>4, <1>7 DEF LoadForPayment
<1>8. CASE SendReason(t)
  <2> DEFINE v == [tx[t] EXCEPT !.at = "called"]
             r == tx[t].rejection
  <2>1. v \in TxType /\ v.at = "called" /\ v.doc = tx[t].doc /\ v.rejection = r
        /\ v.read = tx[t].read
    BY <1>1 DEF TxType
  <2>2. /\ tx' = [tx EXCEPT ![t] = v] /\ tx[t].at = "stored"
        /\ sent' = [sent EXCEPT ![r] = rows["own"].refs.pending]
        /\ UNCHANGED <<context, rows, disturbed, torn, local, payments>>
    BY <1>1, <1>8 DEF SendReason
  <2>3. r \in Rejections /\ direction = "INBOUND" /\ tx[t].doc = "own"
    BY <1>1, <1>2, <2>2 DEF Placed, Rejecting, TxType
  <2>4. rows["own"].refs.pending \in Rejections \cup {None}
    BY <1>1 DEF RowType
  <2>5. rows["own"].refs.pending = r \/ r \in disturbed
    BY <2>2 DEF IInv, Kept
  <2> HIDE DEF v
  <2>6. /\ sent' \in [Rejections -> Rejections \cup {"unasked", "asked", None}]
        /\ \A q \in Rejections : sent'[q] = "unasked" => sent[q] = "unasked"
        /\ \A q \in Rejections : sent'[q] \in {"unasked", "asked", q} \/ q \in disturbed
    BY <1>1, <1>2, <2>2, <2>3, <2>4, <2>5 DEF OwnReason
  <2>7. Goes(t, v)
    BY <1>1, <2>1, <2>2, <2>3, <2>6 DEF Goes, Rejecting
  <2> QED
    BY <2>1, <2>7, InvGoes
<1>9. ASSUME NEW r \in Rejections, LoadForReject(t, r) PROVE IInv'
  <2> DEFINE v == [Idle EXCEPT !.at = "rejecting", !.read = rows["own"], !.rejection = r]
  <2>1. /\ v \in TxType /\ v.at = "rejecting" /\ v.doc = "own" /\ v.rejection = r
        /\ v.read = rows["own"]
    BY <1>1, IdleTyped DEF Idle, TxType
  <2>2. /\ tx' = [tx EXCEPT ![t] = v] /\ tx[t].at = "idle" /\ direction = "INBOUND"
        /\ sent[r] = "unasked" /\ sent' = [sent EXCEPT ![r] = "asked"]
        /\ UNCHANGED <<context, rows, disturbed, torn, local, payments>>
    BY <1>9 DEF LoadForReject
  <2> HIDE DEF v
  <2>3. /\ sent' \in [Rejections -> Rejections \cup {"unasked", "asked", None}]
        /\ \A q \in Rejections : sent'[q] = "unasked" => sent[q] = "unasked"
        /\ \A q \in Rejections : sent'[q] \in {"unasked", "asked", q} \/ q \in disturbed
        /\ sent'[r] # "unasked"
    BY <1>1, <1>2, <2>2 DEF OwnReason
  <2>4. Goes(t, v)
    BY <1>1, <1>2, <2>1, <2>2, <2>3 DEF Goes, Rejecting, Placed
  <2> QED
    BY <2>1, <2>4, InvGoes
<1> QED
  BY <1>3, <1>5, <1>6, <1>7, <1>8, <1>9

----
(* The dispatcher and the copies.                                          *)

\* The answer to a send is recorded in a document that has no guid: no run has loaded it
\* to write its status, and it has no code.
LEMMA InvRecordSend ==
  ASSUME IInv, RecordSend
  PROVE  IInv'
<1>1. /\ rows \in [Docs -> RowType] /\ "own" \in Docs /\ ~rows["own"].guid
      /\ direction = "OUTBOUND" /\ tx \in [Threads -> TxType]
      /\ UNCHANGED <<context, tx, sent, disturbed, torn, local, payments>>
  BY DEF RecordSend, IInv, TypeOK, Docs
<1>2. PICK row \in RowType :
        /\ rows' = [rows EXCEPT !["own"] = row]
        /\ row.refs = rows["own"].refs
  <2>1. rows["own"] \in RowType
    BY <1>1
  <2>2. CASE rows' = [rows EXCEPT !["own"].exchange = "SUBMITTED", !["own"].guid = TRUE]
    <3> DEFINE row == [rows["own"] EXCEPT !.exchange = "SUBMITTED", !.guid = TRUE]
    <3>1. row \in RowType /\ row.refs = rows["own"].refs
      BY <2>1 DEF RowType, Exchanges
    <3>2. rows' = [rows EXCEPT !["own"] = row]
      BY <1>1, <2>2
    <3> QED
      BY <3>1, <3>2
  <2>3. CASE rows' = [rows EXCEPT !["own"].exchange = "UNKNOWN"]
    <3> DEFINE row == [rows["own"] EXCEPT !.exchange = "UNKNOWN"]
    <3>1. row \in RowType /\ row.refs = rows["own"].refs
      BY <2>1 DEF RowType, Exchanges
    <3>2. rows' = [rows EXCEPT !["own"] = row]
      BY <1>1, <2>3
    <3> QED
      BY <3>1, <3>2
  <2> QED
    BY <2>2, <2>3 DEF RecordSend
<1>3. /\ rows' \in [Docs -> RowType] /\ rows'["own"] = row
      /\ \A d \in Docs \ {"own"} : rows'[d] = rows[d]
      /\ \A d \in Docs : rows'[d].refs = rows[d].refs
  BY <1>1, <1>2
<1>4. rows["own"].refs.code = None
  BY <1>1 DEF IInv, Guids
<1>5. TypeOK'
  BY <1>1, <1>3 DEF IInv, TypeOK, context
<1>6. OwnReason' /\ Guids'
  BY <1>1, <1>3, <1>4 DEF IInv, OwnReason, Guids, context
<1>7. RowAgrees'
  <2>1. \A c : Mapped(c)' = Mapped(c)
    BY <1>1, MappedKept DEF context
  <2> QED
    BY <1>1, <1>3, <1>4, <2>1 DEF IInv, RowAgrees
<1>8. ASSUME NEW t \in Threads PROVE Placed(t)' /\ Fresh(t)' /\ Own(t)' /\ Kept(t)'
  <2>1. Placed(t) /\ Fresh(t) /\ Own(t) /\ Kept(t) /\ tx[t].doc \in Docs
    BY <1>1 DEF IInv, TxType
  <2>2. tx[t].at \in {"loaded", "rejecting", "recording"} => tx[t].doc # "own"
    BY <1>1, <2>1 DEF Placed, Rejecting
  <2> QED
    BY <1>1, <1>3, <2>1, <2>2 DEF Placed, Fresh, Own, Kept, Rejecting, context
<1>9. \A r \in Rejections : Unused(r)'
  BY <1>1, <1>3 DEF IInv, Unused
<1> QED
  BY <1>5, <1>6, <1>7, <1>8, <1>9 DEF IInv

\* A copy agrees with itself, and nobody has loaded the row it is stored as.
LEMMA InvStoreCopy ==
  ASSUME IInv, NEW t \in Threads, StoreCopy(t)
  PROVE  IInv'
<1> DEFINE row == Row(TRUE, TRUE, Mapped(tx[t].code), tx[t].code, None)
<1>1. /\ rows \in [Docs -> RowType] /\ "copy" \in Docs /\ "own" \in Docs
      /\ tx \in [Threads -> TxType] /\ tx[t] \in TxType /\ tx[t].at = "listed"
      /\ UNCHANGED <<direction, bound, actual, resolves, code, inWindow, changes, sent,
                     disturbed, torn, local, payments>>
      /\ stamped' \in [Docs -> Providers \cup {None}]
  BY DEF StoreCopy, IInv, TypeOK, Docs
<1>2. /\ row \in RowType /\ row.refs = [code |-> tx[t].code, pending |-> None]
      /\ row.exchange = Mapped(tx[t].code).exchange
      /\ row.recipient = Mapped(tx[t].code).recipient
      /\ row.payment = Mapped(tx[t].code).payment
  BY <1>1, MappedType DEF Row, RowType, TxType
<1>3. rows' = [rows EXCEPT !["copy"] = row] /\ tx' = [tx EXCEPT ![t] = Idle]
  BY DEF StoreCopy
<1>4. ~rows["copy"].guid /\ ~rows["own"].guid
  BY DEF StoreCopy, Newest
<1> HIDE DEF row
<1>5. /\ rows' \in [Docs -> RowType] /\ rows'["copy"] = row
      /\ \A d \in Docs \ {"copy"} : rows'[d] = rows[d]
  BY <1>1, <1>2, <1>3
<1>6. /\ tx' \in [Threads -> TxType] /\ tx'[t] = Idle
      /\ \A u \in Threads \ {t} : tx'[u] = tx[u]
  BY <1>1, <1>3, IdleTyped
<1>7. TypeOK'
  BY <1>1, <1>5, <1>6 DEF IInv, TypeOK
<1>8. OwnReason' /\ Guids'
  BY <1>1, <1>5 DEF IInv, OwnReason, Guids
<1>9. RowAgrees'
  <2>1. \A c : Mapped(c)' = Mapped(c)
    BY <1>1, MappedKept
  <2> QED
    BY <1>1, <1>2, <1>5, <2>1 DEF IInv, RowAgrees
<1>10. ASSUME NEW u \in Threads PROVE Placed(u)' /\ Fresh(u)' /\ Own(u)' /\ Kept(u)'
  <2>1. CASE u = t
    BY <1>6, <2>1 DEF Placed, Fresh, Own, Kept, Idle, Rejecting
  <2>2. CASE u # t
    <3>1. Placed(u) /\ Fresh(u) /\ Own(u) /\ Kept(u) /\ tx[u].doc \in Docs /\ tx'[u] = tx[u]
      BY <1>1, <1>6, <2>2 DEF IInv, TxType
    <3>2. tx[u].at \in {"loaded", "rejecting", "recording"} => tx[u].doc # "copy"
      BY <1>4, <3>1 DEF Placed, Rejecting
    <3>3. tx'[t].rejection = None /\ tx'[t].at = "idle"
      BY <1>6 DEF Idle
    <3>4. Placed(u)' /\ Fresh(u)'
      BY <1>1, <1>5, <3>1, <3>2 DEF Placed, Fresh, Rejecting
    <3>5. Own(u)'
      BY <1>1, <1>6, <3>1, <3>3 DEF Own
    <3>6. Kept(u)'
      BY <1>1, <1>5, <1>6, <3>1, <3>3 DEF Kept
    <3> QED
      BY <3>4, <3>5, <3>6
  <2> QED
    BY <2>1, <2>2
<1>11. ASSUME NEW r \in Rejections PROVE Unused(r)'
  <2>1. Idle.read.refs.pending = None /\ Idle.at = "idle" /\ row.refs.pending = None
    BY <1>2 DEF Idle, NoRow, Row
  <2> QED
    BY <1>1, <1>5, <1>6, <2>1 DEF IInv, Unused
<1> QED
  BY <1>7, <1>8, <1>9, <1>10, <1>11 DEF IInv

----
(* Writes.                                                                 *)

\* What a write leaves of the rows and the threads.
LEMMA WriteStep ==
  ASSUME TypeOK, NEW t \in Threads, NEW new \in RowType, NEW step \in {"idle", "stored"},
         Write(t, new, step)
  PROVE  LET d == tx[t].doc
             row == Flushed(tx[t].read, rows[d], new) IN
         /\ rows' \in [Docs -> RowType] /\ rows'[d] = row
         /\ \A e \in Docs \ {d} : rows'[e] = rows[e]
         /\ tx' \in [Threads -> TxType]
         /\ tx'[t].at = step /\ tx'[t].doc = "own" /\ tx'[t].read = NoRow
         /\ tx'[t].rejection = IF step = "idle" THEN None ELSE tx[t].rejection
         /\ \A u \in Threads \ {t} :
              /\ tx'[u].at = tx[u].at /\ tx'[u].doc = tx[u].doc /\ tx'[u].code = tx[u].code
              /\ tx'[u].rejection = tx[u].rejection /\ tx'[u].read = tx[u].read
              /\ ~tx'[u].stale =>
                   /\ ~tx[u].stale
                   /\ tx[u].at \in Loaded /\ tx[u].doc = d => row = rows[d]
<1> DEFINE d == tx[t].doc
           row == Flushed(tx[t].read, rows[d], new)
           w == [Idle EXCEPT !.at = step,
                             !.rejection = IF step = "idle" THEN None ELSE tx[t].rejection]
           v(u) == [tx[u] EXCEPT !.stale = @ \/ (tx[u].at \in Loaded /\ tx[u].doc = d /\ row # rows[d])]
<1>1. \A u \in Threads : tx[u] \in TxType
  BY DEF TypeOK
<1>2. d \in Docs /\ tx[t].read \in RowType /\ rows[d] \in RowType /\ rows \in [Docs -> RowType]
  BY <1>1 DEF TypeOK, TxType
<1>3. row \in RowType
  BY <1>2, FlushedRow
<1>4. /\ rows' = [rows EXCEPT ![d] = row]
      /\ tx' = [u \in Threads |-> IF u = t THEN w ELSE v(u)]
  BY DEF Write
<1>5. /\ w \in TxType /\ w.at = step /\ w.doc = "own" /\ w.read = NoRow
      /\ w.rejection = IF step = "idle" THEN None ELSE tx[t].rejection
  BY <1>1, IdleTyped DEF Idle, TxType
<1>6. ASSUME NEW u \in Threads
      PROVE  /\ v(u) \in TxType
             /\ v(u).at = tx[u].at /\ v(u).doc = tx[u].doc /\ v(u).code = tx[u].code
             /\ v(u).rejection = tx[u].rejection /\ v(u).read = tx[u].read
             /\ ~v(u).stale =>
                  ~tx[u].stale /\ (tx[u].at \in Loaded /\ tx[u].doc = d => row = rows[d])
  <2> DEFINE late == tx[u].stale \/ (tx[u].at \in Loaded /\ tx[u].doc = d /\ row # rows[d])
  <2>1. late \in BOOLEAN
    BY <1>1 DEF TxType
  <2>2. v(u) = [tx[u] EXCEPT !.stale = late]
    OBVIOUS
  <2>3. late = FALSE => ~tx[u].stale /\ (tx[u].at \in Loaded /\ tx[u].doc = d => row = rows[d])
    OBVIOUS
  <2> HIDE DEF late
  <2>4. /\ v(u) \in TxType
        /\ v(u).at = tx[u].at /\ v(u).doc = tx[u].doc /\ v(u).code = tx[u].code
        /\ v(u).rejection = tx[u].rejection /\ v(u).read = tx[u].read /\ v(u).stale = late
    BY <1>1, <2>1, <2>2 DEF TxType
  <2> QED
    BY <2>1, <2>3, <2>4
<1> HIDE DEF w, v, row
<1>7. rows' \in [Docs -> RowType] /\ rows'[d] = row /\ \A e \in Docs \ {d} : rows'[e] = rows[e]
  BY <1>2, <1>3, <1>4
<1>8. tx' \in [Threads -> TxType] /\ tx'[t] = w /\ \A u \in Threads \ {t} : tx'[u] = v(u)
  BY <1>4, <1>5, <1>6
<1>9. row = Flushed(tx[t].read, rows[d], new)
  BY DEF row
<1> QED
  BY <1>5, <1>6, <1>7, <1>8, <1>9

\* What a write keeps, when it leaves the guid alone and what it writes as a reason is
\* what was read, or none, or that of the thread's own rejection.
Keeps(t, new, step) ==
  /\ Write(t, new, step)
  /\ UNCHANGED <<context, sent, payments>>
  /\ tx[t].at \in Loaded
  /\ new.guid = tx[t].read.guid
  /\ new.refs.pending \in {tx[t].read.refs.pending, tx[t].rejection, None}
  /\ ~rows["own"].guid /\ tx[t].doc = "own" => new.refs = tx[t].read.refs
  /\ step = "stored" => tx[t].at \in Rejecting

\* Such a write keeps what is not about the values of the columns.
LEMMA WriteKeeps ==
  ASSUME IInv, NEW t \in Threads, NEW new \in RowType, NEW step \in {"idle", "stored"},
         Keeps(t, new, step), torn' \subseteq Docs, local' \subseteq Docs,
         disturbed \subseteq disturbed', disturbed' \subseteq Rejections
  PROVE  /\ TypeOK' /\ OwnReason' /\ Guids'
         /\ \A u \in Threads : Placed(u)' /\ Fresh(u)' /\ Own(u)'
         /\ \A r \in Rejections : Unused(r)'
<1> DEFINE d == tx[t].doc
           read == tx[t].read
           row == Flushed(read, rows[d], new)
<1>1. TypeOK /\ Write(t, new, step) /\ UNCHANGED <<context, sent, payments>>
  BY DEF IInv, Keeps
<1>2. /\ rows \in [Docs -> RowType] /\ tx \in [Threads -> TxType] /\ tx[t] \in TxType
      /\ d \in Docs /\ read \in RowType /\ rows[d] \in RowType /\ "own" \in Docs
  BY <1>1 DEF TypeOK, TxType, Docs
<1>3. /\ rows' \in [Docs -> RowType] /\ rows'[d] = row
      /\ \A e \in Docs \ {d} : rows'[e] = rows[e]
      /\ tx' \in [Threads -> TxType]
      /\ tx'[t].at = step /\ tx'[t].doc = "own" /\ tx'[t].read = NoRow
      /\ tx'[t].rejection = IF step = "idle" THEN None ELSE tx[t].rejection
      /\ \A u \in Threads \ {t} :
           /\ tx'[u].at = tx[u].at /\ tx'[u].doc = tx[u].doc /\ tx'[u].code = tx[u].code
           /\ tx'[u].rejection = tx[u].rejection /\ tx'[u].read = tx[u].read
           /\ ~tx'[u].stale => /\ ~tx[u].stale
                               /\ tx[u].at \in Loaded /\ tx[u].doc = d => row = rows[d]
  BY <1>1, WriteStep
<1>4. /\ row.guid = rows[d].guid
      /\ row.refs = IF new.refs = read.refs THEN rows[d].refs ELSE new.refs
  BY <1>2, FlushedRow DEF Keeps
<1> HIDE DEF row
<1>5. TypeOK'
  BY <1>1, <1>3 DEF TypeOK, context
<1>6. OwnReason'
  BY <1>1 DEF IInv, OwnReason
<1>7. Guids'
  <2>1. rows'["own"].guid = rows["own"].guid
    BY <1>2, <1>3, <1>4
  <2>2. ~rows["own"].guid => rows'["own"].refs = rows["own"].refs
    BY <1>2, <1>3, <1>4 DEF Keeps
  <2> QED
    BY <1>1, <2>1, <2>2 DEF IInv, Guids, context
<1>8. ASSUME NEW u \in Threads \ {t} PROVE Placed(u)' /\ Fresh(u)'
  <2>1. Placed(u) /\ Fresh(u) /\ tx[u].doc \in Docs
    BY <1>2 DEF IInv, TxType
  <2>2. rows'[tx[u].doc].guid = rows[tx[u].doc].guid
    BY <1>3, <1>4, <2>1
  <2>3. Placed(u)'
    BY <1>1, <1>3, <2>1, <2>2 DEF Placed, context
  <2>4. Fresh(u)'
    BY <1>3, <2>1 DEF Fresh, Loaded
  <2> QED
    BY <2>3, <2>4
<1>9. Placed(t)' /\ Fresh(t)'
  <2>1. Placed(t)
    BY DEF IInv
  <2> QED
    BY <1>1, <1>3, <2>1 DEF Placed, Fresh, Rejecting, context, Keeps
<1>10. ASSUME NEW u \in Threads PROVE Own(u)'
  <2>1. \A w \in Threads : tx'[w].rejection \in {tx[w].rejection, None}
    BY <1>3
  <2> QED
    BY <1>1, <2>1 DEF IInv, Own
<1>11. ASSUME NEW r \in Rejections PROVE Unused(r)'
  <2>1. SUFFICES ASSUME \/ sent'[r] = "unasked"
                        \/ \E u \in Threads : tx'[u].at = "rejecting" /\ tx'[u].rejection = r
                 PROVE  /\ \A e \in Docs : rows'[e].refs.pending # r
                        /\ \A u \in Threads : tx'[u].read.refs.pending # r
    BY DEF Unused
  <2>2. \/ sent[r] = "unasked"
        \/ \E u \in Threads \ {t} : tx[u].at = "rejecting" /\ tx[u].rejection = r
    BY <1>1, <1>3, <2>1
  <2>3. /\ \A e \in Docs : rows[e].refs.pending # r
        /\ \A u \in Threads : tx[u].read.refs.pending # r
    BY <2>2 DEF IInv, Unused
  <2>4. tx[t].rejection # r
    BY <2>2 DEF IInv, Own
  <2>5. new.refs.pending # r
    BY <2>3, <2>4 DEF Keeps
  <2>6. row.refs.pending # r
    BY <1>2, <1>4, <2>3, <2>5
  <2>7. NoRow.refs.pending # r
    BY DEF NoRow, Row
  <2> QED
    BY <1>3, <2>3, <2>6, <2>7
<1> QED
  BY <1>5, <1>6, <1>7, <1>8, <1>9, <1>10, <1>11

\* A reconciliation writes the status it has listed.
LEMMA InvApply ==
  ASSUME IInv, NEW t \in Threads, Apply(t)
  PROVE  IInv'
<1> DEFINE d == tx[t].doc
           read == tx[t].read
           c == tx[t].code
           new == Status(read, c)
           row == Flushed(read, rows[d], new)
<1>1. /\ TypeOK /\ tx[t] \in TxType /\ d \in Docs /\ read \in RowType /\ rows[d] \in RowType
      /\ c \in AllCodes \cup {None} /\ "own" \in Docs
  BY DEF IInv, TypeOK, TxType, Docs
<1>2. /\ new \in RowType /\ new.guid = read.guid
      /\ new.refs = [code |-> c, pending |-> read.refs.pending]
      /\ new.exchange = Mapped(c).exchange /\ new.recipient = Mapped(c).recipient
      /\ new.payment = Mapped(c).payment
  BY <1>1, RowsTyped
<1>3. /\ tx[t].at = "loaded" /\ Write(t, new, "idle") /\ UNCHANGED <<context, sent, payments>>
      /\ disturbed' = disturbed
      /\ torn' = IF tx[t].stale THEN torn \cup {d} ELSE torn \ {d}
      /\ local' = IF tx[t].stale THEN local ELSE local \ {d}
  BY DEF Apply
<1> HIDE DEF new
<1>4. Keeps(t, new, "idle")
  BY <1>1, <1>2, <1>3 DEF Keeps, Loaded, IInv, Placed
<1>5. torn' \subseteq Docs /\ local' \subseteq Docs /\ disturbed' \subseteq Rejections
  BY <1>1, <1>3 DEF TypeOK
<1>6. /\ TypeOK' /\ OwnReason' /\ Guids'
      /\ \A u \in Threads : Placed(u)' /\ Fresh(u)' /\ Own(u)'
      /\ \A r \in Rejections : Unused(r)'
  BY <1>2, <1>3, <1>4, <1>5, WriteKeeps
<1>7. /\ rows'[d] = row
      /\ \A e \in Docs \ {d} : rows'[e] = rows[e]
      /\ tx'[t].at = "idle"
      /\ tx'[t].rejection = None
      /\ \A u \in Threads \ {t} :
           /\ tx'[u].at = tx[u].at /\ tx'[u].doc = tx[u].doc
           /\ tx'[u].rejection = tx[u].rejection /\ tx'[u].read = tx[u].read
  BY <1>1, <1>2, <1>3, WriteStep
<1>8. /\ row.exchange = IF new.exchange = read.exchange THEN rows[d].exchange ELSE new.exchange
      /\ row.recipient = IF new.recipient = read.recipient THEN rows[d].recipient ELSE new.recipient
      /\ row.payment = IF new.payment = read.payment THEN rows[d].payment ELSE new.payment
      /\ row.refs = IF new.refs = read.refs THEN rows[d].refs ELSE new.refs
  BY <1>1, <1>2, FlushedRow
<1> HIDE DEF row
<1>9. RowAgrees'
  <2>1. \A k : Mapped(k)' = Mapped(k)
    BY <1>3, MappedKept DEF context
  <2>2. ASSUME NEW e \in Docs \ torn', rows'[e].refs.code # None
        PROVE  /\ rows'[e].exchange = Mapped(rows'[e].refs.code).exchange
               /\ rows'[e].recipient = Mapped(rows'[e].refs.code).recipient
               /\ rows'[e].payment = Mapped(rows'[e].refs.code).payment \/ e \in local'
    <3>1. CASE e = d
      <4>1. ~tx[t].stale
        BY <1>3, <2>2, <3>1
      <4>2. read = rows[d]
        BY <1>3, <4>1 DEF IInv, Fresh
      <4>3. /\ row.exchange = new.exchange /\ row.recipient = new.recipient
            /\ row.payment = new.payment /\ row.refs = new.refs
        BY <1>8, <4>2
      <4> QED
        BY <1>2, <1>7, <3>1, <4>3
    <3>2. CASE e # d
      BY <1>3, <1>7, <2>2, <3>2 DEF IInv, RowAgrees
    <3> QED
      BY <3>1, <3>2
  <2> QED
    BY <2>1, <2>2 DEF RowAgrees
<1>10. ASSUME NEW u \in Threads PROVE Kept(u)'
  <2>1. CASE u = t
    BY <1>7, <2>1 DEF Kept
  <2>2. CASE u # t
    <3>1. SUFFICES ASSUME tx[u].at = "stored", tx[u].rejection \notin disturbed
                   PROVE  /\ rows'["own"].refs.pending = tx[u].rejection
                          /\ \A w \in Threads \ {u} :
                               /\ tx'[w].at \in {"rejecting"} \/ tx'[w].rejection = None
                               /\ tx'[w].at = "loaded" /\ tx'[w].doc = "own" =>
                                    tx'[w].read.refs.pending = tx[u].rejection
      BY <1>3, <1>7, <2>2 DEF Kept
    <3>2. /\ rows["own"].refs.pending = tx[u].rejection
          /\ \A w \in Threads \ {u} :
               /\ tx[w].at \in {"rejecting"} \/ tx[w].rejection = None
               /\ tx[w].at = "loaded" /\ tx[w].doc = "own" =>
                    tx[w].read.refs.pending = tx[u].rejection
      BY <3>1 DEF IInv, Kept
    <3>3. rows'["own"].refs.pending = tx[u].rejection
      <4>1. CASE d = "own"
        BY <1>2, <1>3, <1>7, <1>8, <2>2, <3>2, <4>1
      <4>2. CASE d # "own"
        BY <1>1, <1>7, <3>2, <4>2
      <4> QED
        BY <4>1, <4>2
    <3> QED
      BY <1>7, <3>2, <3>3
  <2> QED
    BY <2>1, <2>2
<1> QED
  BY <1>6, <1>9, <1>10 DEF IInv

\* Rows and reasons after a write that leaves provider_refs as it was read.
LEMMA InvPayment ==
  ASSUME IInv, NEW t \in Threads, AddPayment(t)
  PROVE  IInv'
<1> DEFINE d == tx[t].doc
           read == tx[t].read
<1>1. PICK settlement \in {"PARTIALLY_PAID", "PAID"} :
        Write(t, [read EXCEPT !.payment = settlement], "idle")
  BY DEF AddPayment
<1> DEFINE new == [read EXCEPT !.payment = settlement]
           row == Flushed(read, rows[d], new)
<1>2. /\ TypeOK /\ tx[t] \in TxType /\ d \in Docs /\ read \in RowType /\ rows[d] \in RowType
      /\ "own" \in Docs /\ local \subseteq Docs /\ torn \subseteq Docs
      /\ disturbed \subseteq Rejections
  BY DEF IInv, TypeOK, TxType, Docs
<1>3. /\ new \in RowType /\ new.guid = read.guid /\ new.refs = read.refs
      /\ new.exchange = read.exchange /\ new.recipient = read.recipient
  BY <1>2 DEF RowType, Payments
<1>4. /\ tx[t].at = "paying" /\ UNCHANGED <<context, sent, payments>> /\ torn' = torn
      /\ disturbed' = disturbed /\ local' = local \cup {d}
  BY DEF AddPayment
<1> HIDE DEF new
<1>5. Keeps(t, new, "idle")
  BY <1>1, <1>3, <1>4 DEF Keeps, Loaded, new
<1>6. Write(t, new, "idle")
  BY <1>5 DEF Keeps
<1>7. /\ TypeOK' /\ OwnReason' /\ Guids'
      /\ \A u \in Threads : Placed(u)' /\ Fresh(u)' /\ Own(u)'
      /\ \A r \in Rejections : Unused(r)'
  BY <1>2, <1>3, <1>4, <1>5, WriteKeeps
<1>8. /\ rows'[d] = row
      /\ \A e \in Docs \ {d} : rows'[e] = rows[e]
      /\ tx'[t].at = "idle" /\ tx'[t].rejection = None
      /\ \A u \in Threads \ {t} :
           /\ tx'[u].at = tx[u].at /\ tx'[u].doc = tx[u].doc
           /\ tx'[u].rejection = tx[u].rejection /\ tx'[u].read = tx[u].read
  BY <1>2, <1>3, <1>6, WriteStep
<1>9. /\ row.exchange = rows[d].exchange /\ row.recipient = rows[d].recipient
      /\ row.refs = rows[d].refs
  BY <1>2, <1>3, FlushedRow
<1> HIDE DEF row
<1>10. RowAgrees'
  <2>1. \A k : Mapped(k)' = Mapped(k)
    BY <1>4, MappedKept DEF context
  <2>2. ASSUME NEW e \in Docs \ torn, rows'[e].refs.code # None
        PROVE  /\ rows'[e].exchange = Mapped(rows'[e].refs.code).exchange
               /\ rows'[e].recipient = Mapped(rows'[e].refs.code).recipient
               /\ rows'[e].payment = Mapped(rows'[e].refs.code).payment \/ e \in local'
    <3>1. CASE e = d
      BY <1>4, <1>8, <1>9, <2>2, <3>1 DEF IInv, RowAgrees
    <3>2. CASE e # d
      BY <1>4, <1>8, <2>2, <3>2 DEF IInv, RowAgrees
    <3> QED
      BY <3>1, <3>2
  <2> QED
    BY <1>4, <2>1, <2>2 DEF RowAgrees
<1>11. ASSUME NEW u \in Threads PROVE Kept(u)'
  <2>1. rows'["own"].refs = rows["own"].refs
    BY <1>2, <1>8, <1>9
  <2> QED
    BY <1>4, <1>8, <2>1 DEF IInv, Kept
<1> QED
  BY <1>7, <1>10, <1>11 DEF IInv

\* The agreement of a row survives a write of the reason alone.
LEMMA ReasonAgrees ==
  ASSUME IInv, NEW t \in Threads, NEW new \in RowType, NEW step \in {"idle", "stored"},
         Write(t, new, step), Tear(t, new), UNCHANGED context, local' = local,
         tx[t].at \in {"rejecting", "recording"},
         new.exchange = tx[t].read.exchange, new.recipient = tx[t].read.recipient,
         new.payment = tx[t].read.payment, new.refs.code = tx[t].read.refs.code
  PROVE  RowAgrees' /\ torn' \subseteq Docs
<1> DEFINE d == tx[t].doc
           read == tx[t].read
           row == Flushed(read, rows[d], new)
<1>1. TypeOK /\ d \in Docs /\ read \in RowType /\ rows[d] \in RowType /\ torn \subseteq Docs
  BY DEF IInv, TypeOK, TxType
<1>2. rows'[d] = row /\ \A e \in Docs \ {d} : rows'[e] = rows[e]
  BY <1>1, WriteStep
<1>3. /\ row.exchange = rows[d].exchange /\ row.recipient = rows[d].recipient
      /\ row.payment = rows[d].payment
      /\ row.refs = IF new.refs = read.refs THEN rows[d].refs ELSE new.refs
  BY <1>1, FlushedRow
<1> HIDE DEF row
<1>4. torn' = IF tx[t].stale /\ new.refs # read.refs THEN torn \cup {d} ELSE torn
  BY DEF Tear
<1>5. \A k : Mapped(k)' = Mapped(k)
  BY MappedKept DEF context
<1>6. ASSUME NEW e \in Docs \ torn', rows'[e].refs.code # None
      PROVE  /\ rows'[e].exchange = Mapped(rows'[e].refs.code).exchange
             /\ rows'[e].recipient = Mapped(rows'[e].refs.code).recipient
             /\ rows'[e].payment = Mapped(rows'[e].refs.code).payment \/ e \in local'
  <2>1. e \notin torn
    BY <1>4, <1>6
  <2>2. CASE e = d
    <3>1. tx[t].stale => new.refs = read.refs
      BY <1>4, <1>6, <2>2
    <3>2. ~tx[t].stale => read = rows[d]
      BY DEF IInv, Fresh
    <3>3. row.refs.code = rows[d].refs.code
      BY <1>3, <3>1, <3>2
    <3> QED
      BY <1>2, <1>3, <1>6, <2>1, <2>2, <3>3 DEF IInv, RowAgrees
  <2>3. CASE e # d
    BY <1>2, <1>6, <2>1, <2>3 DEF IInv, RowAgrees
  <2> QED
    BY <2>2, <2>3
<1> QED
  BY <1>1, <1>4, <1>5, <1>6 DEF RowAgrees

\* A rejection stores its reason: it is in the row, unless another rejection or a loaded
\* reconciliation was there.
LEMMA InvReject ==
  ASSUME IInv, NEW t \in Threads, Reject(t)
  PROVE  IInv'
<1> DEFINE d == tx[t].doc
           read == tx[t].read
           r == tx[t].rejection
           refs == [read.refs EXCEPT !.pending = r]
           new == [read EXCEPT !.refs.pending = r]
           others == {u \in Threads \ {t} : tx[u].rejection # None}
           row == Flushed(read, rows[d], new)
<1>1. /\ TypeOK /\ tx \in [Threads -> TxType] /\ tx[t] \in TxType /\ read \in RowType
      /\ rows[d] \in RowType /\ "own" \in Docs /\ local \subseteq Docs
      /\ torn \subseteq Docs /\ disturbed \subseteq Rejections
  BY DEF IInv, TypeOK, TxType, Docs
<1>2. /\ tx[t].at = "rejecting" /\ Write(t, new, "stored") /\ Tear(t, new)
      /\ UNCHANGED <<context, sent, payments>> /\ local' = local
      /\ disturbed' = disturbed \cup {tx[u].rejection : u \in others}
           \cup (IF others # {} \/ \E u \in Threads : tx[u].at = "loaded" THEN {r} ELSE {})
  BY DEF Reject
<1>3. r \in Rejections /\ d = "own" /\ direction = "INBOUND" /\ rows["own"].guid
  BY <1>1, <1>2 DEF IInv, Placed, Rejecting, TxType, Guids
<1>4. /\ new \in RowType /\ new.guid = read.guid /\ new.refs = refs
      /\ refs.pending = r /\ refs.code = read.refs.code
      /\ new.exchange = read.exchange /\ new.recipient = read.recipient
      /\ new.payment = read.payment
  BY <1>1, <1>3 DEF RowType
<1>5. read.refs.pending # r
  BY <1>2, <1>3 DEF IInv, Unused
<1> HIDE DEF new, others
<1>6. Keeps(t, new, "stored")
  BY <1>2, <1>3, <1>4 DEF Keeps, Loaded, Rejecting
<1>7. \A u \in Threads : tx[u].rejection \in Rejections \cup {None}
  BY <1>1 DEF TxType
<1>8. disturbed \subseteq disturbed' /\ disturbed' \subseteq Rejections
  BY <1>1, <1>2, <1>3, <1>7 DEF others
<1>9. RowAgrees' /\ torn' \subseteq Docs
  BY <1>2, <1>4, ReasonAgrees
<1>10. /\ TypeOK' /\ OwnReason' /\ Guids'
       /\ \A u \in Threads : Placed(u)' /\ Fresh(u)' /\ Own(u)'
       /\ \A q \in Rejections : Unused(q)'
  BY <1>1, <1>2, <1>4, <1>6, <1>8, <1>9, WriteKeeps
<1>11. /\ rows'["own"] = row
       /\ tx'[t].at = "stored" /\ tx'[t].rejection = r
       /\ \A u \in Threads \ {t} :
            /\ tx'[u].at = tx[u].at /\ tx'[u].doc = tx[u].doc
            /\ tx'[u].rejection = tx[u].rejection /\ tx'[u].read = tx[u].read
  BY <1>1, <1>2, <1>3, <1>4, WriteStep
<1>12. row.refs.pending = r
  <2>1. row.refs = IF new.refs = read.refs THEN rows[d].refs ELSE new.refs
    BY <1>1, <1>4, FlushedRow
  <2>2. new.refs # read.refs /\ new.refs.pending = r
    BY <1>4, <1>5
  <2> QED
    BY <2>1, <2>2
<1> HIDE DEF row
<1>13. Kept(t)'
  <2>1. ASSUME r \notin disturbed'
        PROVE  others = {} /\ \A u \in Threads : tx[u].at # "loaded"
    BY <1>2, <2>1
  <2> QED
    BY <1>11, <1>12, <2>1 DEF Kept, others
<1>14. ASSUME NEW u \in Threads \ {t} PROVE Kept(u)'
  <2>1. tx[u].at = "stored" => u \in others
    BY DEF IInv, Placed, Rejecting, others
  <2>2. tx[u].at = "stored" => tx[u].rejection \in disturbed'
    BY <1>2, <2>1
  <2> QED
    BY <1>11, <2>2 DEF Kept
<1> QED
  BY <1>9, <1>10, <1>13, <1>14 DEF IInv

\* The result of a rejection: nobody's undisturbed reason is under way but its own.
LEMMA InvRecord ==
  ASSUME IInv, NEW t \in Threads, Record(t)
  PROVE  IInv'
<1> DEFINE read == tx[t].read
<1>1. /\ TypeOK /\ tx \in [Threads -> TxType] /\ tx[t] \in TxType /\ read \in RowType
      /\ "own" \in Docs /\ local \subseteq Docs /\ torn \subseteq Docs
      /\ disturbed \subseteq Rejections
  BY DEF IInv, TypeOK, TxType, Docs
<1>2. PICK new \in {read, [read EXCEPT !.refs.pending = None]} :
        Write(t, new, "idle") /\ Tear(t, new)
  BY DEF Record
<1>3. /\ tx[t].at = "recording" /\ UNCHANGED <<context, sent, payments>>
      /\ disturbed' = disturbed /\ local' = local
  BY DEF Record
<1>4. /\ tx[t].rejection # None /\ tx[t].doc = "own" /\ rows["own"].guid
  BY <1>3 DEF IInv, Placed, Rejecting, Guids
<1>5. /\ new \in RowType /\ new.guid = read.guid
      /\ new.refs.pending \in {read.refs.pending, None} /\ new.refs.code = read.refs.code
      /\ new.exchange = read.exchange /\ new.recipient = read.recipient
      /\ new.payment = read.payment
  BY <1>1, <1>2 DEF RowType
<1>6. Keeps(t, new, "idle")
  BY <1>2, <1>3, <1>4, <1>5 DEF Keeps, Loaded
<1>7. RowAgrees' /\ torn' \subseteq Docs
  BY <1>2, <1>3, <1>5, ReasonAgrees
<1>8. /\ TypeOK' /\ OwnReason' /\ Guids'
      /\ \A u \in Threads : Placed(u)' /\ Fresh(u)' /\ Own(u)'
      /\ \A r \in Rejections : Unused(r)'
  BY <1>1, <1>3, <1>5, <1>6, <1>7, WriteKeeps
<1>9. /\ tx'[t].at = "idle"
      /\ \A u \in Threads \ {t} : tx'[u].at = tx[u].at /\ tx'[u].rejection = tx[u].rejection
  BY <1>1, <1>2, <1>5, WriteStep
<1>10. ASSUME NEW u \in Threads PROVE Kept(u)'
  BY <1>3, <1>4, <1>9 DEF IInv, Kept
<1> QED
  BY <1>7, <1>8, <1>10 DEF IInv

----
(* The theorems.                                                           *)

\* Every step keeps the inductive invariant.
LEMMA InvNext == IInv /\ [Next]_vars => IInv'
<1> SUFFICES ASSUME IInv, [Next]_vars PROVE IInv'
  OBVIOUS
<1>1. CASE UNCHANGED vars
  <2>1. /\ UNCHANGED context /\ rows' = rows /\ tx' = tx /\ sent' = sent
        /\ disturbed' = disturbed /\ torn' = torn /\ local' = local /\ payments' = payments
    BY <1>1 DEF vars
  <2>2. TypeOK' /\ OwnReason' /\ Guids'
    BY <2>1 DEF IInv, TypeOK, OwnReason, Guids, context
  <2>3. RowAgrees'
    BY <2>1, MappedKept DEF IInv, RowAgrees, context
  <2>4. \A t \in Threads : Placed(t)' /\ Fresh(t)' /\ Own(t)' /\ Kept(t)'
    BY <2>1 DEF IInv, Placed, Fresh, Own, Kept, context
  <2>5. \A r \in Rejections : Unused(r)'
    BY <2>1 DEF IInv, Unused
  <2> QED
    BY <2>2, <2>3, <2>4, <2>5 DEF IInv
<1>2. ASSUME NEW t \in Threads, Step(t) PROVE IInv'
  BY <1>2, InvRead, InvStoreCopy, InvApply, InvPayment, InvReject, InvRecord DEF Step
<1> QED
  BY <1>1, <1>2, InvEnvironment, InvRecordSend, InvRead DEF Next

\* The inductive invariant holds in every reachable state.
THEOREM Invariance == Spec => []IInv
BY InvInit, InvNext, PTL DEF Spec

\* Types: no code maps to a value outside the axes, no thread keeps one that is.
THEOREM TypeCorrect == Spec => []TypeOK
BY Invariance, PTL DEF IInv

\* An undisturbed rejection goes out with its own reason, though the worker reads it
\* back from a column that reconciliations rewrite.
THEOREM RejectionsSendTheirReason == Spec => []OwnReason
BY Invariance, PTL DEF IInv

\* For every mapping of codes: the axes of a document are those of the code it shows, as
\* long as no stale thread was the last to write it.
THEOREM RowsAgree == Spec => []RowAgrees
BY Invariance, PTL DEF IInv
=============================================================================
