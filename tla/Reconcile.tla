----------------------------- MODULE Reconcile -----------------------------
(***************************************************************************)
(* Reconciliations of one taxpayer: run_reconciliation lists what the      *)
(* provider received ("in") and, for a provider that has it, what was sent *)
(* through it before ("out"), and stores the documents the gateway does    *)
(* not have.  A poll_checkpoint per direction and account decides from     *)
(* which day the next run lists.                                           *)
(*                                                                         *)
(* A run is one request thread and three transactions: setup, which reads  *)
(* binding, configuration and checkpoints; the provider calls, outside any *)
(* transaction; and persisting, which reads the binding again.  Runs       *)
(* overlap, bindings change between the steps, days pass, and rejections   *)
(* of stored documents are dispatched.  A credential keeps its account.    *)
(***************************************************************************)
EXTENDS Integers, FiniteSets

CONSTANTS
  Jobs,        \* reconciliations: each is run once, by the thread that made it
  Items,       \* invoices at the provider
  SideOf,      \* the direction of an item
  ItemAccount, \* the provider account it is in
  Bindings, Configs,  \* bindings and outbound_provider_configs rows
  AccountOf,   \* the account of their credential; None: a DISABLED configuration
  Accounts,
  LastDay,     \* bound: days in a run
  Initial,     \* days the first listing goes back (400)
  Overlap,     \* super_poll_overlap_days
  Lookback,    \* super_inbound_lookback_days
  Relists,     \* the inbound adapter lists Lookback days anyway: Super
  Historical,  \* the outbound adapter can fetch sent invoices: Pondi
  MaxCrashes,  \* bound: threads killed or database errors in a run
  None

Sides == {"in", "out"}

ASSUME ReconcileAssumption ==
  /\ SideOf \in [Items -> Sides]
  /\ ItemAccount \in [Items -> Accounts]
  /\ AccountOf \in [Bindings \cup Configs -> Accounts \cup {None}]
  /\ \A b \in Bindings : AccountOf[b] # None
  /\ None \notin Accounts \cup Bindings \cup Configs \cup Jobs
  /\ {LastDay, Initial, Lookback, MaxCrashes} \subseteq Nat
  /\ Overlap \in Nat \ {0}
  /\ {Relists, Historical} \subseteq BOOLEAN

VARIABLES
  today,
  received,    \* the day the provider received an item, NotYet before
  source,      \* the ACTIVE binding and the actual outbound configuration, or None
  checkpoint,  \* poll_checkpoints by direction and account
  docs,        \* documents stored by reconciliations
  status,      \* reconciliations.status
  pc,
  seen,        \* what a run has read, by direction
  lock,        \* the run that holds a checkpoint row's lock
  passed,      \* history: items a poll that moved its watermark could have listed
  crashes

vars == <<today, received, source, checkpoint, docs, status, pc, seen, lock, passed, crashes>>

Days   == 0..LastDay
NotYet == LastDay + 1

\* A checkpoint row: Absent; Fresh while last_unique_id is NULL; else its watermark.
Absent == -2
Fresh  == -1
Marks  == {Absent, Fresh} \cup Days

Sources(s) == IF s = "in" THEN Bindings ELSE Configs

Statuses == {"ABSENT", "QUEUED", "RUNNING", "FAILED", "COMPLETED", "COMPLETED_WITH_ERRORS"}

\* The steps about one direction, and where each leads.
At == [list  |-> [in |-> "list_in",  out |-> "list_out"],
       read  |-> [in |-> "read_in",  out |-> "read_out"],
       store |-> [in |-> "store_in", out |-> "store_out"]]

After(phase, s) ==
  IF phase = "list" THEN (IF s = "in" THEN At.list.out ELSE At.read.in)
  ELSE (IF s = "in" THEN At.read.out ELSE "commit")

Steps == {"none", "queued", "running", "setup", "commit", "ended"}
           \cup {At[phase][s] : phase \in {"list", "read", "store"}, s \in Sides}

\* account is None when the direction is not part of the run.
Nothing ==
  [account |-> None, insert |-> FALSE, from |-> 0, to |-> 0, offered |-> {}, listed |-> {},
   fetched |-> {}, error |-> FALSE, began |-> None, source |-> None, gone |-> FALSE,
   existing |-> {}, created |-> {}, mark |-> Absent]

Stored(s) == {d.item : d \in {e \in docs : SideOf[e.item] = s}}

\* Documents are looked up by their account.
Known(s, a) == {d.item : d \in {e \in docs : SideOf[e.item] = s /\ e.account = a}}

Init ==
  /\ today = 0
  /\ received = [i \in Items |-> NotYet]
  /\ source \in [Sides -> Bindings \cup Configs \cup {None}]
  /\ \A s \in Sides : source[s] \in Sources(s) \cup {None}
  /\ checkpoint = [s \in Sides |-> [a \in Accounts |-> Absent]]
  /\ docs = {}
  /\ status = [j \in Jobs |-> "ABSENT"]
  /\ pc = [j \in Jobs |-> "none"]
  /\ seen = [j \in Jobs |-> [s \in Sides |-> Nothing]]
  /\ lock = [s \in Sides |-> [a \in Accounts |-> None]]
  /\ passed = {}
  /\ crashes = 0

Goto(j, step) == pc' = [pc EXCEPT ![j] = step]

\* Mutant: the row locks outlive the transaction.
LeaveLocked(j) ==
  /\ Goto(j, "ended")
  /\ seen' = [seen EXCEPT ![j] = [s \in Sides |-> Nothing]]
  /\ UNCHANGED lock

\* The run is over; its locks go.
Leave(j) ==
  /\ Goto(j, "ended")
  /\ seen' = [seen EXCEPT ![j] = [s \in Sides |-> Nothing]]
  /\ lock' = [s \in Sides |-> [a \in Accounts |-> IF lock[s][a] = j THEN None ELSE lock[s][a]]]

----
\* start_reconciliation, and the commit before the run.
Start(j) ==
  /\ pc[j] = "none"
  /\ status' = [status EXCEPT ![j] = "QUEUED"]
  /\ Goto(j, "queued")
  /\ UNCHANGED <<today, received, source, checkpoint, docs, seen, lock, passed, crashes>>

Run(j) ==
  /\ pc[j] = "queued"
  /\ status' = [status EXCEPT ![j] = "RUNNING"]
  /\ Goto(j, "running")
  /\ UNCHANGED <<today, received, source, checkpoint, docs, seen, lock, passed, crashes>>

\* The binding's adapter is not live, or its credential cannot be resolved.
SetupFail(j) ==
  /\ pc[j] = "running"
  /\ source["in"] # None
  /\ status' = [status EXCEPT ![j] = "FAILED"]
  /\ Leave(j)
  /\ UNCHANGED <<today, received, source, checkpoint, docs, passed, crashes>>

\* The first day to list, from a checkpoint.
WindowStart(mark) == IF mark \in Days THEN mark - Overlap ELSE today - Initial

\* The directions of a run: no ACTIVE binding, no "in"; an outbound configuration
\* that is disabled, unresolvable or of an adapter without history, no "out".
Directions ==
  {f \in [Sides -> Accounts \cup {None}] :
     /\ f["in"] = IF source["in"] = None THEN None ELSE AccountOf[source["in"]]
     /\ \/ f["out"] = None
        \/ Historical /\ source["out"] # None /\ f["out"] = AccountOf[source["out"]]}

Setup(j) ==
  /\ pc[j] = "running"
  /\ \E f \in Directions :
       seen' = [seen EXCEPT ![j] = [s \in Sides |->
                  IF f[s] = None THEN Nothing
                  ELSE [Nothing EXCEPT !.account = f[s], !.began = source[s],
                                       !.insert = checkpoint[s][f[s]] = Absent,
                                       !.from = WindowStart(checkpoint[s][f[s]]),
                                       !.to = today]]]
  /\ Goto(j, "setup")
  /\ UNCHANGED <<today, received, source, checkpoint, docs, status, lock, passed, crashes>>

\* The run inserts a checkpoint row that another run has committed meanwhile.
Collides(j) ==
  \E s \in Sides : seen[j][s].insert /\ checkpoint[s][seen[j][s].account] # Absent

SetupCommit(j) ==
  /\ pc[j] = "setup"
  /\ ~Collides(j)
  /\ checkpoint' = [s \in Sides |-> [a \in Accounts |->
                      IF seen[j][s].insert /\ seen[j][s].account = a THEN Fresh
                      ELSE checkpoint[s][a]]]
  /\ Goto(j, At.list.in)
  /\ UNCHANGED <<today, received, source, docs, status, seen, lock, passed, crashes>>

\* The unique constraint refuses the row: the run ends and the job stays RUNNING.
SetupCollide(j) ==
  /\ pc[j] = "setup"
  /\ Collides(j)
  /\ Leave(j)
  /\ UNCHANGED <<today, received, source, checkpoint, docs, status, passed, crashes>>

----
\* What the provider has for a run at this moment; Super's adapter moves the start.
Offered(j, s) ==
  LET v == seen[j][s]
      from == IF s = "in" /\ Relists /\ today - Lookback < v.from THEN today - Lookback
              ELSE v.from
  IN  {i \in Items : /\ SideOf[i] = s /\ ItemAccount[i] = v.account
                     /\ received[i] # NotYet /\ from <= received[i] /\ received[i] <= v.to}

\* The response may leave items out, and a document may fail to come (or, for a
\* document known already, is not asked for).
List(j, s) ==
  /\ pc[j] = At.list[s]
  /\ seen[j][s].account # None
  /\ \E listed \in SUBSET Offered(j, s) : \E fetched \in SUBSET listed :
       seen' = [seen EXCEPT ![j][s].offered = Offered(j, s),
                            ![j][s].listed = listed, ![j][s].fetched = fetched]
  /\ Goto(j, After("list", s))
  /\ UNCHANGED <<today, received, source, checkpoint, docs, status, lock, passed, crashes>>

\* A provider error; a run without outbound history asks for statuses instead.
ListError(j, s) ==
  /\ pc[j] = At.list[s]
  /\ seen[j][s].account # None \/ s = "out"
  /\ seen' = [seen EXCEPT ![j][s].error = TRUE]
  /\ Goto(j, After("list", s))
  /\ UNCHANGED <<today, received, source, checkpoint, docs, status, lock, passed, crashes>>

NothingToList(j, s) ==
  /\ pc[j] = At.list[s]
  /\ seen[j][s].account = None
  /\ Goto(j, After("list", s))
  /\ UNCHANGED <<today, received, source, checkpoint, docs, status, seen, lock, passed, crashes>>

\* Any other exception: _mark_reconciliation_failed, in a transaction of its own.
Bug(j) ==
  /\ \E s \in Sides : pc[j] = At.list[s]
  /\ status' = [status EXCEPT ![j] = "FAILED"]
  /\ Leave(j)
  /\ UNCHANGED <<today, received, source, checkpoint, docs, passed, crashes>>

----
\* Mutant: what a failed listing returned is persisted like an empty list.
PersistsAnyway(j, s) ==
  /\ seen[j][s].account # None
  /\ s = "in" => source["in"] # None

Persists(j, s) ==
  /\ seen[j][s].account # None
  /\ ~seen[j][s].error
  /\ s = "in" => source["in"] # None

\* The last transaction: the binding or configuration of now, the documents there are.
Read(j, s) ==
  /\ pc[j] = At.read[s]
  /\ Persists(j, s)
  /\ seen' = [seen EXCEPT ![j][s].source = source[s],
                            ![j][s].existing = Known(s, seen[j][s].account)]
  /\ Goto(j, At.store[s])
  /\ UNCHANGED <<today, received, source, checkpoint, docs, status, lock, passed, crashes>>

\* "gone" is history: what was listed is dropped, and no error, since the taxpayer has
\* no ACTIVE binding any more.
NothingToStore(j, s) ==
  /\ pc[j] = At.read[s]
  /\ ~Persists(j, s)
  /\ seen' = [seen EXCEPT ![j][s].gone = seen[j][s].account # None /\ ~seen[j][s].error]
  /\ Goto(j, After("store", s))
  /\ UNCHANGED <<today, received, source, checkpoint, docs, status, lock, passed, crashes>>

\* Mutant: no unique index on inbound documents.
NewTwice(j, s) == seen[j][s].fetched \ seen[j][s].existing

\* The documents to insert.  An inbound one that another run has committed since the
\* read is refused by the unique index and only updated; outbound has no such index.
New(j, s) ==
  (seen[j][s].fetched \ seen[j][s].existing)
    \ (IF s = "in" THEN Known(s, seen[j][s].account) ELSE {})

\* Items that move last_unique_id: stored before, or now.  An outbound item without
\* its document is passed over even when it is stored.
Handled(j, s) ==
  LET v == seen[j][s] IN
  (v.existing \cap (IF s = "in" THEN v.listed ELSE v.fetched)) \cup v.created

Failed(j, s) ==
  LET v == seen[j][s] IN
  (v.listed \ v.fetched) \ (IF s = "in" THEN v.existing ELSE {})

\* Mutant: the checkpoint is not written, so nobody waits for its row.
StoreUnlocked(j, s) ==
  /\ pc[j] = At.store[s]
  /\ seen' = [seen EXCEPT ![j][s].created = New(j, s), ![j][s].mark = today]
  /\ Goto(j, After("store", s))
  /\ UNCHANGED <<today, received, source, checkpoint, docs, status, lock, passed, crashes>>

\* The inserts, then the checkpoint: its UPDATE waits for the row, and so do the
\* inserts of a document that another run of the same account has inserted.
Store(j, s) ==
  LET a == seen[j][s].account IN
  /\ pc[j] = At.store[s]
  /\ lock[s][a] = None
  /\ lock' = [lock EXCEPT ![s][a] = j]
  /\ seen' = [seen EXCEPT ![j][s].created = New(j, s), ![j][s].mark = today]
  /\ Goto(j, After("store", s))
  /\ UNCHANGED <<today, received, source, checkpoint, docs, status, passed, crashes>>

\* Mutant: only provider errors count, not documents that could not be stored.
OutcomeIgnoringItems(j) ==
  LET errors == {s \in Sides : seen[j][s].error} IN
  IF errors = Sides THEN "FAILED"
  ELSE IF errors # {} THEN "COMPLETED_WITH_ERRORS" ELSE "COMPLETED"

\* The result of a run: both directions in error fail it.
Outcome(j) ==
  LET errors == {s \in Sides : seen[j][s].error}
      items  == {s \in Sides : seen[j][s].mark # Absent /\ Failed(j, s) # {}}
  IN  IF errors = Sides THEN "FAILED"
      ELSE IF errors \cup items # {} THEN "COMPLETED_WITH_ERRORS" ELSE "COMPLETED"

\* Mutant: the documents get the account of the binding of now.
DocumentsOfNow(j) ==
  UNION {{[item |-> i, job |-> j, began |-> seen[j][s].began, source |-> seen[j][s].source,
           account |-> IF seen[j][s].source = None THEN None ELSE AccountOf[seen[j][s].source],
           behind |-> None, moved |-> FALSE] : i \in seen[j][s].created} : s \in Sides}

\* The documents of a run.  The account is the one that was listed, the binding or the
\* configuration the one of now.  The others are history: the binding or configuration
\* that was listed, the inbound checkpoint whose lock the run held, and whether a
\* rejection has moved the document to another account.
Documents(j) ==
  UNION {{[item |-> i, job |-> j, began |-> seen[j][s].began, source |-> seen[j][s].source,
           account |-> seen[j][s].account,
           behind |-> IF seen[j]["in"].mark = Absent THEN None ELSE seen[j]["in"].account,
           moved |-> FALSE] : i \in seen[j][s].created} : s \in Sides}

Commit(j) ==
  LET moved == {s \in Sides : seen[j][s].mark # Absent} IN
  /\ pc[j] = "commit"
  /\ docs' = docs \cup Documents(j)
  /\ checkpoint' = [s \in Sides |-> [a \in Accounts |->
       IF s \notin moved \/ seen[j][s].account # a THEN checkpoint[s][a]
       ELSE IF checkpoint[s][a] = Fresh /\ Handled(j, s) = {} THEN Fresh
       ELSE seen[j][s].mark]]
  /\ passed' = passed \cup UNION {seen[j][s].offered : s \in moved}
  /\ status' = [status EXCEPT ![j] = Outcome(j)]
  /\ Leave(j)
  /\ UNCHANGED <<today, received, source, crashes>>

----
\* A new ACTIVE binding (or none, see Bindings), a new outbound configuration.
Rebind(s, c) ==
  /\ c \in Sources(s) \cup (IF s = "in" THEN {None} ELSE {})
  /\ c # source[s]
  /\ source' = [source EXCEPT ![s] = c]
  /\ UNCHANGED <<today, received, checkpoint, docs, status, pc, seen, lock, passed, crashes>>

\* The first transaction of a rejection's dispatch: the document gets the account of its
\* binding, unless the unique index finds the invoice there already.
Readdress(d) ==
  LET a == AccountOf[d.source] IN
  /\ SideOf[d.item] = "in"
  /\ d.account # a
  /\ d.item \notin Known("in", a)
  /\ \A j \in Jobs : seen[j]["in"].account = a => d.item \notin seen[j]["in"].created
  /\ docs' = (docs \ {d}) \cup {[d EXCEPT !.account = a, !.moved = TRUE]}
  /\ UNCHANGED <<today, received, source, checkpoint, status, pc, seen, lock, passed, crashes>>

Receive(i) ==
  /\ received[i] = NotYet
  /\ received' = [received EXCEPT ![i] = today]
  /\ UNCHANGED <<today, source, checkpoint, docs, status, pc, seen, lock, passed, crashes>>

\* Midnight.  A run takes less than a day: it sees one midnight at most.
Tick ==
  /\ today < LastDay
  /\ \A j \in Jobs : \A s \in Sides : seen[j][s].account # None => seen[j][s].to = today
  /\ today' = today + 1
  /\ UNCHANGED <<received, source, checkpoint, docs, status, pc, seen, lock, passed, crashes>>

Crash(j) ==
  /\ pc[j] \notin {"none", "ended"}
  /\ crashes < MaxCrashes
  /\ crashes' = crashes + 1
  /\ Leave(j)
  /\ UNCHANGED <<today, received, source, checkpoint, docs, status, passed>>

Step(j) ==
  \/ Run(j) \/ SetupFail(j) \/ Setup(j) \/ SetupCommit(j) \/ SetupCollide(j) \/ Commit(j)
  \/ \E s \in Sides :
       \/ List(j, s) \/ ListError(j, s) \/ NothingToList(j, s)
       \/ Read(j, s) \/ NothingToStore(j, s) \/ Store(j, s)

Next ==
  \/ Tick
  \/ \E d \in docs : Readdress(d)
  \/ \E i \in Items : Receive(i)
  \/ \E s \in Sides, c \in Bindings \cup Configs \cup {None} : Rebind(s, c)
  \/ \E j \in Jobs : Start(j) \/ Step(j) \/ Bug(j) \/ Crash(j)

Spec == Init /\ [][Next]_vars

----
(* Properties.                                                             *)

DocRows == [item : Items, job : Jobs, began : Bindings \cup Configs,
            source : Bindings \cup Configs \cup {None}, account : Accounts,
            behind : Accounts \cup {None}, moved : BOOLEAN]

SeenRows ==
  [account : Accounts \cup {None}, insert : BOOLEAN, from : (-Initial - Overlap)..LastDay,
   to : Days, offered : SUBSET Items, listed : SUBSET Items, fetched : SUBSET Items,
   error : BOOLEAN, began : Bindings \cup Configs \cup {None},
   source : Bindings \cup Configs \cup {None}, gone : BOOLEAN, existing : SUBSET Items,
   created : SUBSET Items, mark : {Absent} \cup Days]

\* Types; a lock is held by a run that has stored its direction and not committed.
TypeOK ==
  /\ today \in Days
  /\ received \in [Items -> Days \cup {NotYet}]
  /\ source \in [Sides -> Bindings \cup Configs \cup {None}]
  /\ \A s \in Sides : source[s] \in Sources(s) \cup {None}
  /\ checkpoint \in [Sides -> [Accounts -> Marks]]
  /\ docs \subseteq DocRows
  /\ status \in [Jobs -> Statuses]
  /\ pc \in [Jobs -> Steps]
  /\ seen \in [Jobs -> [Sides -> SeenRows]]
  /\ lock \in [Sides -> [Accounts -> Jobs \cup {None}]]
  /\ \A s \in Sides, a \in Accounts : lock[s][a] # None => seen[lock[s][a]][s].mark # Absent
  /\ passed \subseteq Items
  /\ crashes \in 0..MaxCrashes

\* An inbound invoice becomes one document, however many runs list it at once, unless a
\* rejection has moved one of its documents to another account.
StoredOnce ==
  \A d, e \in docs :
    SideOf[d.item] = "in" /\ d.item = e.item /\ d # e =>
      d.account # e.account /\ (d.moved \/ e.moved)

\* A document is filed under the account it was listed from, and it is pinned to a
\* binding or configuration of that account as well, unless that was another one by the
\* time the run stored it.  Such an inbound document moves, and only such a one: when it
\* is rejected it takes on the account of the binding it is pinned to.
FiledWhereListed ==
  \A d \in docs :
    /\ ~d.moved => d.account = ItemAccount[d.item]
    /\ d.source = d.began => ~d.moved /\ AccountOf[d.source] = d.account
    /\ d.moved => SideOf[d.item] = "in" /\ d.account = AccountOf[d.source]

\* Sent invoices have no unique index.  What keeps two runs from storing one twice is
\* the row lock of the inbound checkpoint, taken before they look: two copies only
\* come from runs of which one stored no inbound, or for different accounts.
CopiesNotBehindOneLock ==
  \A d, e \in docs :
    SideOf[d.item] = "out" /\ d.item = e.item /\ d # e =>
      d.behind = None \/ d.behind # e.behind

\* COMPLETED promises that everything the run listed is a document, in both directions.
\* The one exception is code: when the taxpayer has lost its binding by the time the
\* run stores, what it listed is dropped without an error.
CompletedStoredAll ==
  [][\A j \in Jobs, s \in Sides :
       status[j] # "COMPLETED" /\ status'[j] = "COMPLETED" /\ seen[j][s].account # None
         => \/ seen[j][s].listed \subseteq {d.item : d \in docs'}
            \/ s = "in" /\ seen[j][s].gone]_vars

\* No invoice falls between two windows: one that the next listing of its account
\* starts behind is stored, or was there to be listed in an earlier run that moved
\* the watermark (and was left out of the response, or came without its document).
NoneBetweenWindows ==
  \A i \in Items :
    LET from == WindowStart(checkpoint[SideOf[i]][ItemAccount[i]]) IN
    received[i] < from => i \in Stored(SideOf[i]) \cup passed

\* A run that waits for a checkpoint row waits for one that is under way and does not
\* wait for it in turn: both take the inbound row before the outbound one, and every
\* way a run ends gives its rows back.
Waits(j, k) ==
  \E s \in Sides : /\ pc[j] = At.store[s] /\ k # j
                   /\ lock[s][seen[j][s].account] = k
NoCircularWait ==
  \A j, k \in Jobs : Waits(j, k) => pc[k] \notin {"none", "ended"} /\ ~Waits(k, j)

\* What test_reconciliation_internal_error_failed_and_reraises asserts of an internal
\* error: a run that is over has not left its job RUNNING.
InternalErrorFails ==
  crashes = 0 => \A j \in Jobs : pc[j] = "ended" => status[j] # "RUNNING"
=============================================================================
