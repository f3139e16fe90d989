-------------------------- MODULE OutboundProvider --------------------------
(***************************************************************************)
(* The outbound provider of one taxpayer: put_outbound_provider keeps a    *)
(* history of generations with one actual row, create_outbound stamps each *)
(* new document with that row, and process_attempt checks provider and     *)
(* account again before every call about the document.  run_reconciliation *)
(* lists what was sent through the provider before and stores copies,      *)
(* stamped with the row that is actual by then.                            *)
(*                                                                         *)
(* PUT and create_outbound run under the taxpayer's advisory lock, held to *)
(* the end of their transaction; process_attempt and run_reconciliation    *)
(* take no lock.  The operator changes the credential store at any time.   *)
(***************************************************************************)
EXTENDS Naturals

CONSTANTS
  Workers,    \* request threads
  Configs,    \* ids of outbound_provider_configs rows; bound: one per PUT
  Documents,  \* outbound documents
  Refs,       \* credential_ref: names in the credential store
  Accounts,   \* provider accounts (company_guid)
  MaxGeneration,  \* bound: the highest generation, at least the number of Configs
  MaxCalls,   \* bound: provider calls about one document
  None

ASSUME ProviderAssumption ==
  /\ None \notin Workers \cup Configs \cup Refs \cup Accounts \cup Documents
  /\ MaxGeneration \in Nat /\ MaxCalls \in Nat

VARIABLES
  config,    \* the committed rows
  stamp,     \* documents: the row and account stamped at the insert, None before
  store,     \* the credential store: the account a reference resolves to, or None
  lock,      \* the transaction holding the advisory lock
  pc, job,
  seen,      \* what the transaction has read
  used,      \* history: accounts the provider was called with, by document
  calls      \* history: number of calls, by document

vars == <<config, stamp, store, lock, pc, job, seen, used, calls>>

Statuses == {"ABSENT", "CONFIGURED", "DISABLED", "SUPERSEDED"}
Actual   == {c \in Configs : config[c].status \in {"CONFIGURED", "DISABLED"}}
Steps    == {"idle", "put", "putting", "create", "creating", "listing", "storing",
             "check", "resolve", "calling"}

Rows == [generation : 0..MaxGeneration, status : Statuses, ref : Refs \cup {None},
         account : Accounts \cup {None}]
NoRow == [generation |-> 0, status |-> "ABSENT", ref |-> None, account |-> None]

\* A transaction's reads: the actual row, its generation as read, the reference and
\* account it will write, stamp or call with.
Seen == [current : Configs \cup {None}, generation : 0..MaxGeneration,
         status : Statuses, ref : Refs \cup {None}, account : Accounts \cup {None}]
NothingSeen ==
  [current |-> None, generation |-> 0, status |-> "ABSENT", ref |-> None, account |-> None]

Unstamped == [config |-> None, account |-> None]

Init ==
  /\ config = [c \in Configs |-> NoRow]
  /\ stamp = [d \in Documents |-> Unstamped]
  /\ store \in [Refs -> Accounts \cup {None}]
  /\ lock = None
  /\ pc = [w \in Workers |-> "idle"]
  /\ job = [w \in Workers |-> None]
  /\ seen = [w \in Workers |-> NothingSeen]
  /\ used = [d \in Documents |-> {}]
  /\ calls = [d \in Documents |-> 0]

Goto(w, step) == pc' = [pc EXCEPT ![w] = step]

\* The transaction ends: commit, refusal or error.
Leave(w) ==
  /\ Goto(w, "idle")
  /\ job' = [job EXCEPT ![w] = None]
  /\ seen' = [seen EXCEPT ![w] = NothingSeen]
  /\ lock' = IF lock = w THEN None ELSE lock

\* Mutant: the lock is not exclusive.
AcquireShared(w) == lock' = w

\* lock_oib
Acquire(w) == lock = None /\ lock' = w

\* get_actual
Current == IF Actual = {} THEN None ELSE CHOOSE c \in Actual : TRUE

LastGeneration ==
  CHOOSE n \in 0..MaxGeneration :
    /\ \A c \in Configs : config[c].generation <= n
    /\ n = 0 \/ \E c \in Configs : config[c].generation = n

\* resolve: None for a GatewayError
Resolve(ref) == IF ref = None THEN None ELSE store[ref]

----
(* put_outbound_provider                                                   *)

PutBegin(w) ==
  /\ pc[w] = "idle"
  /\ Acquire(w)
  /\ Goto(w, "put")
  /\ UNCHANGED <<config, stamp, store, job, seen, used, calls>>

\* The reads: current row, credential (the payload's reference or else the current
\* one), account, last generation.  CONFIGURED needs a reference.
PutRead(w) ==
  LET old == IF Current = None THEN NoRow ELSE config[Current] IN
  /\ pc[w] = "put"
  /\ \E s \in {"CONFIGURED", "DISABLED"}, r \in Refs \cup {old.ref} :
       /\ s = "CONFIGURED" => r # None
       /\ seen' = [seen EXCEPT ![w] =
            [current |-> Current, generation |-> LastGeneration, status |-> s, ref |-> r,
             account |-> IF s = "CONFIGURED" THEN Resolve(r) ELSE old.account]]
  /\ Goto(w, "putting")
  /\ UNCHANGED <<config, stamp, store, lock, job, used, calls>>

\* CONFIGURED without any reference: INVALID_REQUEST.
PutRefuse(w) ==
  LET old == IF Current = None THEN NoRow ELSE config[Current] IN
  /\ pc[w] = "put"
  /\ old.ref = None
  /\ Leave(w)
  /\ UNCHANGED <<config, stamp, store, used, calls>>

\* The unique indexes would refuse the row: a second actual one, or a generation
\* used twice.
Collides(w) ==
  \/ Actual \ {seen[w].current} # {}
  \/ \E c \in Configs : config[c].generation = seen[w].generation + 1

\* Mutant: the previous row is left as it was read.
PutCommitKeeping(w) ==
  LET s == seen[w] IN
  /\ pc[w] = "putting"
  /\ s.generation < MaxGeneration
  /\ ~Collides(w)
  /\ \E c \in Configs :
       /\ config[c].status = "ABSENT"
       /\ config' = [config EXCEPT ![c] =
            [generation |-> s.generation + 1, status |-> s.status, ref |-> s.ref,
             account |-> s.account]]
  /\ Leave(w)
  /\ UNCHANGED <<stamp, store, used, calls>>

\* The current row is superseded, the new one inserted, one commit.
PutCommit(w) ==
  LET s == seen[w] IN
  /\ pc[w] = "putting"
  /\ s.generation < MaxGeneration
  /\ ~Collides(w)
  /\ \E c \in Configs :
       /\ config[c].status = "ABSENT"
       /\ config' = [b \in Configs |->
            IF b = c THEN [generation |-> s.generation + 1, status |-> s.status,
                           ref |-> s.ref, account |-> s.account]
            ELSE IF b = s.current THEN [config[b] EXCEPT !.status = "SUPERSEDED"]
            ELSE config[b]]
  /\ Leave(w)
  /\ UNCHANGED <<stamp, store, used, calls>>

----
(* create_outbound of a document_id that does not exist yet.               *)

\* session.get(Document) finds nothing, then the lock.
CreateBegin(w, d) ==
  /\ pc[w] = "idle"
  /\ stamp[d] = Unstamped
  /\ job' = [job EXCEPT ![w] = d]
  /\ Goto(w, "create")
  /\ UNCHANGED <<config, stamp, store, lock, seen, used, calls>>

\* outbound_readiness of the actual row
Ready ==
  \E c \in Actual : config[c].status = "CONFIGURED" /\ Resolve(config[c].ref) # None

\* Mutant: the provider is read before the lock is taken.
RequireReadyUnlocked(w) ==
  /\ pc[w] = "create"
  /\ Ready
  /\ seen' = [seen EXCEPT ![w] =
       [current |-> Current, generation |-> config[Current].generation,
        status |-> config[Current].status, ref |-> config[Current].ref,
        account |-> config[Current].account]]
  /\ Goto(w, "creating")
  /\ UNCHANGED <<config, stamp, store, lock, job, used, calls>>

\* require_ready_outbound: the account stamped is the one resolved by the PUT, the
\* one resolved now only has to exist.
RequireReady(w) ==
  /\ pc[w] = "create"
  /\ Acquire(w)
  /\ Ready
  /\ seen' = [seen EXCEPT ![w] =
       [current |-> Current, generation |-> config[Current].generation,
        status |-> config[Current].status, ref |-> config[Current].ref,
        account |-> config[Current].account]]
  /\ Goto(w, "creating")
  /\ UNCHANGED <<config, stamp, store, job, used, calls>>

NotReady(w) ==
  /\ pc[w] = "create"
  /\ lock = None
  /\ ~Ready
  /\ Leave(w)
  /\ UNCHANGED <<config, stamp, store, used, calls>>

\* The insert, refused if another request has created the document meanwhile.
CreateCommit(w) ==
  LET d == job[w] IN
  /\ pc[w] = "creating"
  /\ stamp' = [stamp EXCEPT ![d] =
                 IF @ = Unstamped THEN [config |-> seen[w].current, account |-> seen[w].account]
                 ELSE @]
  /\ Leave(w)
  /\ UNCHANGED <<config, store, used, calls>>

----
(* run_reconciliation with an adapter that has outbound history; bound: one new        *)
(* document in a run.                                                                  *)

\* The setup transaction and the listing: the account is the one resolved now.
ListHistory(w) ==
  /\ pc[w] = "idle"
  /\ Ready
  /\ seen' = [seen EXCEPT ![w] = [@ EXCEPT !.account = Resolve(config[Current].ref)]]
  /\ Goto(w, "listing")
  /\ UNCHANGED <<config, stamp, store, lock, job, used, calls>>

\* The last transaction reads the actual row, or none, again: without the advisory lock,
\* and whatever its status is.
ReadActual(w) ==
  /\ pc[w] = "listing"
  /\ seen' = [seen EXCEPT ![w] = [@ EXCEPT !.current = Current]]
  /\ Goto(w, "storing")
  /\ UNCHANGED <<config, stamp, store, lock, job, used, calls>>

\* persist_historical_outbound_batch: a document of its own id, under the account listed.
StoreHistory(w, d) ==
  /\ pc[w] = "storing"
  /\ stamp[d] = Unstamped
  /\ \A v \in Workers : job[v] # d
  /\ stamp' = [stamp EXCEPT ![d] = [config |-> seen[w].current, account |-> seen[w].account]]
  /\ Leave(w)
  /\ UNCHANGED <<config, store, used, calls>>

----
(* process_attempt of a send or a payment of the document.                 *)

\* get_config of the stamped row: a copy stored while there was no actual row has none.
StampedRef(d) == IF stamp[d].config = None THEN None ELSE config[stamp[d].config].ref

DispatchBegin(w, d) ==
  /\ pc[w] = "idle"
  /\ stamp[d] # Unstamped
  /\ calls[d] < MaxCalls
  /\ job' = [job EXCEPT ![w] = d]
  /\ Goto(w, "check")
  /\ UNCHANGED <<config, stamp, store, lock, seen, used, calls>>

\* Mutant: the actual provider is not looked at.
CheckNothing(w) ==
  /\ pc[w] = "check"
  /\ seen' = [seen EXCEPT ![w] = [@ EXCEPT !.ref = StampedRef(job[w]),
                                           !.generation = LastGeneration]]
  /\ Goto(w, "resolve")
  /\ UNCHANGED <<config, stamp, store, lock, job, used, calls>>

\* get_config and get_actual: DISABLED blocks every document, whichever row it is
\* stamped with; otherwise the stamped row's reference is used, if it has one.
CheckActual(w) ==
  /\ pc[w] = "check"
  /\ IF \E c \in Actual : config[c].status = "DISABLED"
     THEN Leave(w)
     ELSE /\ seen' = [seen EXCEPT ![w] =
               [@ EXCEPT !.ref = StampedRef(job[w]), !.generation = LastGeneration]]
          /\ Goto(w, "resolve")
          /\ UNCHANGED <<lock, job>>
  /\ UNCHANGED <<config, stamp, store, used, calls>>

\* adapter.resolve and the comparison with the stamped account, if there is one.
ResolveStamped(w) ==
  LET account == Resolve(seen[w].ref) IN
  /\ pc[w] = "resolve"
  /\ account # None
  /\ stamp[job[w]].account \in {None, account}
  /\ seen' = [seen EXCEPT ![w] = [@ EXCEPT !.account = account]]
  /\ Goto(w, "calling")
  /\ UNCHANGED <<config, stamp, store, lock, job, used, calls>>

\* BLOCKED_CREDENTIAL_UNAVAILABLE
Block(w) ==
  LET account == Resolve(seen[w].ref) IN
  /\ pc[w] = "resolve"
  /\ account = None \/ stamp[job[w]].account \notin {None, account}
  /\ Leave(w)
  /\ UNCHANGED <<config, stamp, store, used, calls>>

\* The call, with the credential resolved before the commit.
Call(w) ==
  LET d == job[w] IN
  /\ pc[w] = "calling"
  /\ calls[d] < MaxCalls
  /\ used' = [used EXCEPT ![d] = @ \cup {seen[w].account}]
  /\ calls' = [calls EXCEPT ![d] = @ + 1]
  /\ Leave(w)
  /\ UNCHANGED <<config, stamp, store>>

----
\* A thread dies or a statement fails: its transaction is rolled back, and the
\* advisory lock goes with it.
Crash(w) ==
  /\ pc[w] # "idle"
  /\ Leave(w)
  /\ UNCHANGED <<config, stamp, store, used, calls>>

ChangeStore(r) ==
  /\ \E a \in Accounts \cup {None} : store' = [store EXCEPT ![r] = a]
  /\ UNCHANGED <<config, stamp, lock, pc, job, seen, used, calls>>

Transaction(w) ==
  \/ PutBegin(w) \/ PutRead(w) \/ PutRefuse(w) \/ PutCommit(w)
  \/ RequireReady(w) \/ NotReady(w) \/ CreateCommit(w)
  \/ ListHistory(w) \/ ReadActual(w)
  \/ CheckActual(w) \/ ResolveStamped(w) \/ Block(w) \/ Call(w)
  \/ \E d \in Documents : CreateBegin(w, d) \/ StoreHistory(w, d) \/ DispatchBegin(w, d)

Next ==
  \/ \E w \in Workers : Transaction(w) \/ Crash(w)
  \/ \E r \in Refs : ChangeStore(r)

Spec == Init /\ [][Next]_vars

----
(* Properties.                                                             *)

\* Types; the advisory lock is held exactly by the thread inside a PUT or an insert.
TypeOK ==
  /\ config \in [Configs -> Rows]
  /\ stamp \in [Documents -> [config : Configs \cup {None}, account : Accounts \cup {None}]]
  /\ store \in [Refs -> Accounts \cup {None}]
  /\ lock \in Workers \cup {None}
  /\ \A w \in Workers : lock = w <=> pc[w] \in {"put", "putting", "creating"}
  /\ pc \in [Workers -> Steps]
  /\ job \in [Workers -> Documents \cup {None}]
  /\ seen \in [Workers -> Seen]
  /\ used \in [Documents -> SUBSET Accounts]
  /\ calls \in [Documents -> 0..MaxCalls]

\* The history of a taxpayer's provider: generations without gap or repetition, the
\* last one and no other is actual.
History ==
  /\ \A c \in Configs : config[c].status # "ABSENT" =>
       /\ config[c].status \in {"CONFIGURED", "DISABLED"}
            <=> config[c].generation = LastGeneration
       /\ \A b \in Configs : config[b].generation = config[c].generation => b = c
       /\ config[c].generation > 1 =>
            \E b \in Configs : config[b].generation = config[c].generation - 1

\* Concurrent PUTs are serialised by the advisory lock before they read: none is
\* refused by the unique indexes.
NoCollision == \A w \in Workers : pc[w] = "putting" => ~Collides(w)

\* A document is stamped once.  One that a request creates gets the row that is actual,
\* and CONFIGURED, when it becomes visible: no PUT, a disabling one least of all, slips
\* between check and insert.  A reconciliation's copy is no thread's document before.
StampedActual ==
  [][\A d \in Documents :
       stamp'[d] # stamp[d] =>
         /\ stamp[d] = Unstamped
         /\ (\E w \in Workers : job[w] = d) =>
              LET c == stamp'[d].config IN
              /\ c \in Actual /\ config[c].status = "CONFIGURED"
              /\ stamp'[d].account = config[c].account]_vars

\* Every call about a document with a stamped account, its send and its payments
\* through later generations and changes of the credential store, uses that account.
StampedAccountUsed ==
  \A d \in Documents :
    stamp[d].account # None => used[d] \subseteq {stamp[d].account}

\* While the provider is DISABLED nothing is sent except by threads that had looked
\* before the disabling PUT.
CallsPredateDisable ==
  [][\A w \in Workers :
       /\ pc[w] = "calling" /\ calls'[job[w]] # calls[job[w]]
       => \A c \in Actual : config[c].status = "DISABLED" =>
            seen[w].generation < config[c].generation]_vars

\* The row of a generation, and what every later commit leaves of it.
RowOf(g) == CHOOSE c \in Configs : config[c].generation = g
Written(c) == [ref |-> config[c].ref, account |-> config[c].account]

\* The generation a document is stamped with.
Position(d) == IF stamp[d].config = None THEN 0 ELSE config[stamp[d].config].generation

H == INSTANCE ProviderHistory WITH
  rows     <- [g \in 1..LastGeneration |-> Written(RowOf(g))],
  status   <- IF Current = None THEN "ABSENT" ELSE config[Current].status,
  position <- [d \in Documents |-> Position(d)],
  account  <- [d \in Documents |-> stamp[d].account]

\* Racing PUTs, inserts, reconciliations and calls, dying threads and a changing
\* credential store add up to one history: rows are never rewritten, a disabling one
\* keeps the account, a new document takes the account of the last row, and whatever
\* happens afterwards a call about it, or about a copy, uses the account it was given.
ImplementsHistory == H!Spec
=============================================================================
