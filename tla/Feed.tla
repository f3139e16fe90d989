-------------------------------- MODULE Feed --------------------------------
(***************************************************************************)
(* What a client can follow: the pages of a taxpayer's documents           *)
(* (_list_direction), ordered by cursor_seq, and the outbox events of a    *)
(* document (record_event), numbered max + 1.                              *)
(*                                                                         *)
(* Both are written by transactions that overlap.  cursor_seq is drawn     *)
(* from an identity column when the row is inserted, and the row is        *)
(* visible when its transaction commits.  The number of an event is read   *)
(* from the committed events; there is neither a lock nor a unique index.  *)
(***************************************************************************)
EXTENDS Naturals, FiniteSets, FiniteSetsExt

CONSTANTS
  Writers,       \* threads with a transaction: of a request, or of a reconciliation
  Outbound,      \* outbound documents of the taxpayer: the reader lists these
  Inbound,       \* documents of the other direction, from the same identity column
  Limit,         \* documents in a page
  MaxTransactions,  \* bound: writing transactions
  MaxRows,       \* bound: documents in a run's transaction
  MaxRollbacks,  \* bound: transactions that fail or whose thread dies
  None

Documents == Outbound \cup Inbound

ASSUME FeedAssumption ==
  /\ Outbound \cap Inbound = {} /\ IsFiniteSet(Documents)
  /\ None \notin Writers \cup Documents
  /\ Limit \in Nat \ {0}
  /\ {MaxTransactions, MaxRollbacks} \subseteq Nat

VARIABLES
  sequence,   \* cursor_seq of each document, 0 until it is drawn
  documents,  \* the committed ones
  events,     \* committed outbox_events
  oibLock,    \* the advisory lock of the taxpayer
  rowLock,    \* who updated a document and has not committed
  tx,         \* the open transactions
  reader,     \* a client that lists the outbound documents
  byRun,      \* history: documents that a reconciliation stored
  begun,      \* number of transactions begun
  rollbacks

vars == <<sequence, documents, events, oibLock, rowLock, tx, reader, byRun, begun, rollbacks>>

\* "changed" is history: the transaction updated (or inserted) the document's row
\* before it numbered the event.
Events == [doc : Documents, number : Nat \ {0}, changed : BOOLEAN]

Transactions ==
  [kind : {"none", "request", "run"}, at : {"idle", "open", "written", "noted"},
   doc : Documents \cup {None}, change : BOOLEAN, handled : SUBSET Documents,
   inserted : SUBSET Documents, recorded : SUBSET Events]

Readers ==
  [at : {"idle", "pass", "follow"}, cursor : Nat, shown : SUBSET Outbound,
   began : SUBSET Outbound, repeated : BOOLEAN]

Idle == [kind |-> "none", at |-> "idle", doc |-> None, change |-> FALSE,
         handled |-> {}, inserted |-> {}, recorded |-> {}]

Init ==
  /\ sequence = [d \in Documents |-> 0]
  /\ documents = {}
  /\ events = {}
  /\ oibLock = None
  /\ rowLock = [d \in Documents |-> None]
  /\ tx = [w \in Writers |-> Idle]
  /\ reader = [at |-> "idle", cursor |-> 0, shown |-> {}, began |-> {}, repeated |-> FALSE]
  /\ byRun = {}
  /\ begun = 0
  /\ rollbacks = 0

----
(* The writing transactions.                                               *)

\* The identity column: values are drawn in order and never given back.
Draw(d) ==
  /\ sequence[d] = 0
  /\ sequence' = [sequence EXCEPT ![d] = 1 + Max({sequence[e] : e \in Documents})]

\* A transaction of a request or of a run begins with its first row, and a run's
\* goes on with another one.
Begin(w, kind) ==
  \/ tx[w].at = "idle" /\ begun < MaxTransactions /\ begun' = begun + 1
  \/ /\ tx[w].at = "open" /\ kind = "run" /\ UNCHANGED begun
     /\ Cardinality(tx[w].handled) < MaxRows

\* Mutant: documents are created without the taxpayer's lock.
CreateUnlocked(w, d) ==
  /\ Begin(w, "request")
  /\ Draw(d)
  /\ tx' = [tx EXCEPT ![w] = [Idle EXCEPT !.kind = "request", !.at = "written", !.doc = d,
                                          !.change = TRUE, !.inserted = {d}]]
  /\ UNCHANGED <<documents, events, oibLock, rowLock, reader, byRun, rollbacks>>

\* create_outbound: require_ready_outbound takes the lock, which is kept until commit.
Create(w, d) ==
  /\ Begin(w, "request")
  /\ oibLock = None
  /\ oibLock' = w
  /\ Draw(d)
  /\ tx' = [tx EXCEPT ![w] = [Idle EXCEPT !.kind = "request", !.at = "written", !.doc = d,
                                          !.change = TRUE, !.inserted = {d}]]
  /\ UNCHANGED <<documents, events, rowLock, reader, byRun, rollbacks>>

\* The last transaction of a reconciliation, which takes no such lock, stores a
\* document it does not find: an inbound one with an event, a sent one without.
StoreNew(w, d) ==
  /\ Begin(w, "run")
  /\ Draw(d)
  /\ tx' = [tx EXCEPT ![w] = [tx[w] EXCEPT
       !.kind = "run", !.at = IF d \in Inbound THEN "written" ELSE "open",
       !.doc = IF d \in Inbound THEN d ELSE None, !.change = TRUE,
       !.handled = @ \cup {d}, !.inserted = @ \cup {d}]]
  /\ byRun' = byRun \cup {d}
  /\ UNCHANGED <<documents, events, oibLock, rowLock, reader, rollbacks>>

\* Mutant: the event is numbered before the update is flushed.
UpdateLater(w, d, kind) ==
  /\ Begin(w, kind)
  /\ d \in documents \ tx[w].handled
  /\ tx' = [tx EXCEPT ![w] = [tx[w] EXCEPT
       !.kind = kind, !.at = "written", !.doc = d, !.change = TRUE, !.handled = @ \cup {d}]]
  /\ UNCHANGED <<sequence, documents, events, oibLock, rowLock, reader, byRun, rollbacks>>

\* A document is loaded, assigned to and flushed: by a request (a payment, a rejection,
\* a workflow status), by the worker's result, or by a row of a run's listing.  The
\* UPDATE waits for the row; when what is assigned is what the row held, there is none.
Update(w, d, kind) ==
  /\ Begin(w, kind)
  /\ d \in documents \ tx[w].handled
  /\ \E change \in BOOLEAN :
       /\ change => rowLock[d] = None
       /\ rowLock' = [rowLock EXCEPT ![d] = IF change THEN w ELSE @]
       /\ tx' = [tx EXCEPT ![w] = [tx[w] EXCEPT
            !.kind = kind, !.at = "written", !.doc = d, !.change = change,
            !.handled = @ \cup {d}]]
  /\ UNCHANGED <<sequence, documents, events, oibLock, reader, byRun, rollbacks>>

\* Back to the batch, or on to the commit of a request.
Onward(t, recorded) ==
  [t EXCEPT !.at = IF t.kind = "run" THEN "open" ELSE "noted", !.doc = None,
            !.recorded = @ \cup recorded]

\* Mutant: events are numbered over all documents.
LastNumberOfAll(w, d) == Max({0} \cup {e.number : e \in events \cup tx[w].recorded})

\* max(sequence), over the committed events and the transaction's own.
LastNumber(w, d) ==
  Max({0} \cup {e.number : e \in {f \in events \cup tx[w].recorded : f.doc = d}})

\* record_event.
Record(w) ==
  LET t == tx[w]
      event == [doc |-> t.doc, number |-> LastNumber(w, t.doc) + 1, changed |-> t.change]
  IN
  /\ t.at = "written"
  /\ t.kind = "run" => t.doc \in Outbound \cup t.inserted
  /\ tx' = [tx EXCEPT ![w] = Onward(t, {event})]
  /\ UNCHANGED <<sequence, documents, events, oibLock, rowLock, reader, byRun, begun, rollbacks>>

\* set_workflow, and the status of an inbound document, record no event.
NoEvent(w) ==
  /\ tx[w].at = "written"
  /\ tx[w].doc \in Inbound \ tx[w].inserted
  /\ tx' = [tx EXCEPT ![w] = Onward(@, {})]
  /\ UNCHANGED <<sequence, documents, events, oibLock, rowLock, reader, byRun, begun, rollbacks>>

\* The end of a transaction frees what it locked.
Leave(w) ==
  /\ tx' = [tx EXCEPT ![w] = Idle]
  /\ oibLock' = IF oibLock = w THEN None ELSE oibLock
  /\ rowLock' = [d \in Documents |-> IF rowLock[d] = w THEN None ELSE rowLock[d]]

Commit(w) ==
  /\ tx[w].at \in {"open", "noted"}
  /\ documents' = documents \cup tx[w].inserted
  /\ events' = events \cup tx[w].recorded
  /\ Leave(w)
  /\ UNCHANGED <<sequence, reader, byRun, begun, rollbacks>>

\* An error, a dead thread, or the victim of a deadlock of two runs that update the
\* same documents in the orders of their lists.  The sequence values it drew are gone.
Rollback(w) ==
  /\ tx[w].at # "idle"
  /\ rollbacks < MaxRollbacks
  /\ rollbacks' = rollbacks + 1
  /\ Leave(w)
  /\ UNCHANGED <<sequence, documents, events, reader, byRun, begun>>

----
(* The reader.                                                             *)

\* The client begins a pass: its first listing has no cursor.
StartPass ==
  /\ reader.at = "idle"
  /\ reader' = [reader EXCEPT !.at = "pass", !.began = documents \cap Outbound]
  /\ UNCHANGED <<sequence, documents, events, oibLock, rowLock, tx, byRun, begun, rollbacks>>

\* The rows of a listing: those of the taxpayer and direction behind the cursor.
Rows == {d \in documents \cap Outbound : sequence[d] > reader.cursor}

\* The first n of them in the order of cursor_seq.
First(n) == {d \in Rows : Cardinality({e \in Rows : sequence[e] < sequence[d]}) < n}

\* Mutant: the cursor is that of the row fetched to see whether there are more.
CursorOfExtraRow == Max({sequence[d] : d \in First(Limit + 1)})

\* next_cursor: the last document of the page.
NextCursor == Max({sequence[d] : d \in First(Limit)})

\* list_outbound.  The last page has no next_cursor: the client keeps the one it has,
\* and may ask again from there later, for what is new.
ListPage ==
  LET more == Cardinality(Rows) > Limit IN
  /\ reader.at # "idle"
  /\ reader' = [reader EXCEPT
       !.at = IF more THEN @ ELSE "follow",
       !.cursor = IF more THEN NextCursor ELSE @,
       !.shown = @ \cup First(Limit),
       !.repeated = @ \/ (reader.at = "pass" /\ First(Limit) \cap reader.shown # {})]
  /\ UNCHANGED <<sequence, documents, events, oibLock, rowLock, tx, byRun, begun, rollbacks>>

Next ==
  \/ \E w \in Writers :
       \/ \E d \in Outbound : Create(w, d)
       \/ \E d \in Documents : StoreNew(w, d) \/ \E kind \in {"request", "run"} : Update(w, d, kind)
       \/ Record(w) \/ NoEvent(w) \/ Commit(w) \/ Rollback(w)
  \/ StartPass \/ ListPage

Spec == Init /\ [][Next]_vars

----
(* Properties.                                                             *)

\* Types; a thread without a transaction holds no lock.
TypeOK ==
  /\ sequence \in [Documents -> Nat]
  /\ documents \subseteq {d \in Documents : sequence[d] > 0}
  /\ events \subseteq Events
  /\ oibLock \in Writers \cup {None}
  /\ rowLock \in [Documents -> Writers \cup {None}]
  /\ tx \in [Writers -> Transactions]
  /\ \A w \in Writers : tx[w].at = "idle" =>
       oibLock # w /\ \A d \in Documents : rowLock[d] # w
  /\ reader \in Readers /\ reader.shown \subseteq documents
  /\ byRun \subseteq Documents
  /\ rollbacks \in 0..MaxRollbacks /\ begun \in 0..MaxTransactions

\* The events of a document become visible in the order of their numbers, no two
\* alike, unless one of the transactions left the document's row as it was: its
\* UPDATE is all that makes a second writer wait before it reads the maximum.
EventsInOrder ==
  \A w \in Writers : \A e \in tx[w].recorded, f \in events :
    e.doc = f.doc /\ e.changed /\ f.changed => e.number > f.number

\* The numbers of a document have no gaps, whatever is rolled back or numbered twice: a
\* consumer that sees one can wait for those before it.
NoGaps ==
  \A e \in events : \A n \in 1..(e.number - 1) :
    \E f \in events : f.doc = e.doc /\ f.number = n

\* A pass over the pages returns every document committed before it began, and none
\* twice, however many are stored meanwhile and in whatever order they commit.
PassComplete == (reader.at = "follow" => reader.began \subseteq reader.shown) /\ ~reader.repeated

\* A client that keeps its cursor misses a document behind it only because of a
\* reconciliation: among the documents that requests create, the advisory lock makes
\* the order of cursor_seq the order of the commits.
NothingBehindCursor ==
  \A d \in documents \cap Outbound :
    sequence[d] <= reader.cursor /\ d \notin reader.shown =>
      \E e \in reader.shown : sequence[e] > sequence[d] /\ {d, e} \cap byRun # {}
=============================================================================
