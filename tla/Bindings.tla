------------------------------ MODULE Bindings ------------------------------
(***************************************************************************)
(* Inbound bindings of one taxpayer (taxpayers share nothing): put_binding *)
(* and confirm_binding, as concurrent transactions under READ COMMITTED    *)
(* with row locks and the partial unique index on status = 'ACTIVE'.       *)
(*                                                                         *)
(* A confirmation loads its binding without a lock, locks the ACTIVE rows, *)
(* supersedes the others, then updates its own row.  That UPDATE names the *)
(* status only if the session had loaded another one, and it is there that *)
(* the unique index is checked.                                            *)
(***************************************************************************)
EXTENDS Naturals, FiniteSets

CONSTANTS
  Workers,       \* request threads
  MaxBindings,   \* bound: bindings put in a run; numbered by created_at
  MaxCrashes,    \* bound: threads killed or database errors in a run
  NoWorker

ASSUME BindingAssumption ==
  /\ NoWorker \notin Workers
  /\ MaxBindings \in Nat
  /\ MaxCrashes \in Nat

Ids == 1..MaxBindings

VARIABLES
  status,      \* committed bindings.status
  confirmed,   \* history: a confirmation of the binding was committed
  locker,      \* the transaction that holds the row's lock
  pc,
  target,      \* the binding a confirmation is about, 0 for none
  read,        \* its status as the session loaded it
  active,      \* ACTIVE rows: the snapshot of the SELECT, then those it locked
  crashes

vars == <<status, confirmed, locker, pc, target, read, active, crashes>>

Statuses == {"ABSENT", "PENDING_CONFIRMATION", "ACTIVE", "SUPERSEDED"}
Steps    == {"idle", "loaded", "selecting", "locked", "superseding", "checking", "written"}

Active == {b \in Ids : status[b] = "ACTIVE"}
Put    == {b \in Ids : status[b] # "ABSENT"}

\* The rows a transaction has changed the status of, not committed yet.
Superseding(w) ==
  IF pc[w] \in {"superseding", "checking", "written"} THEN active[w] \ {target[w]} ELSE {}

\* Mutant: only a pending binding is activated, a superseded one stays so.
ActivatingPending(w) ==
  IF pc[w] \in {"checking", "written"} /\ read[w] = "PENDING_CONFIRMATION"
  THEN {target[w]} ELSE {}

\* The row a transaction has made ACTIVE, not committed yet: none if the session had loaded it so.
Activating(w) ==
  IF pc[w] \in {"checking", "written"} /\ read[w] # "ACTIVE" THEN {target[w]} ELSE {}

Init ==
  /\ status = [b \in Ids |-> "ABSENT"]
  /\ confirmed = [b \in Ids |-> FALSE]
  /\ locker = [b \in Ids |-> NoWorker]
  /\ pc = [w \in Workers |-> "idle"]
  /\ target = [w \in Workers |-> 0]
  /\ read = [w \in Workers |-> "ABSENT"]
  /\ active = [w \in Workers |-> {}]
  /\ crashes = 0

Goto(w, step) == pc' = [pc EXCEPT ![w] = step]

\* put_binding: a new row, waiting for its confirmation.
PutBinding ==
  LET b == Cardinality(Put) + 1 IN
  /\ b \in Ids
  /\ status' = [status EXCEPT ![b] = "PENDING_CONFIRMATION"]
  /\ UNCHANGED <<confirmed, locker, pc, target, read, active, crashes>>

\* The binding named by binding_id, whatever its status, or else the latest that
\* waits for confirmation (which is one of them).
LoadBinding(w, b) ==
  /\ pc[w] = "idle"
  /\ b \in Put
  /\ target' = [target EXCEPT ![w] = b]
  /\ read' = [read EXCEPT ![w] = status[b]]
  /\ Goto(w, "loaded")
  /\ UNCHANGED <<status, confirmed, locker, active, crashes>>

\* SELECT ... WHERE status = 'ACTIVE' FOR UPDATE takes its snapshot ...
SelectActive(w) ==
  /\ pc[w] = "loaded"
  /\ active' = [active EXCEPT ![w] = Active]
  /\ Goto(w, "selecting")
  /\ UNCHANGED <<status, confirmed, locker, target, read, crashes>>

\* ... waits for the rows of that snapshot, and keeps those that are still ACTIVE.
LockActive(w) ==
  /\ pc[w] = "selecting"
  /\ \A b \in active[w] : locker[b] \in {w, NoWorker}
  /\ active' = [active EXCEPT ![w] = {b \in @ : status[b] = "ACTIVE"}]
  /\ locker' = [b \in Ids |-> IF b \in active'[w] THEN w ELSE locker[b]]
  /\ Goto(w, "locked")
  /\ UNCHANGED <<status, confirmed, target, read, crashes>>

\* The first flush: every other ACTIVE row becomes SUPERSEDED.
Supersede(w) ==
  /\ pc[w] = "locked"
  /\ Goto(w, "superseding")
  /\ UNCHANGED <<status, confirmed, locker, target, read, active, crashes>>

\* The second flush: UPDATE of the binding, which waits for the row's lock.
WriteBinding(w) ==
  LET b == target[w] IN
  /\ pc[w] = "superseding"
  /\ locker[b] \in {w, NoWorker}
  /\ locker' = [locker EXCEPT ![b] = w]
  /\ Goto(w, "checking")
  /\ UNCHANGED <<status, confirmed, target, read, active, crashes>>

\* Rows in the index that another transaction may yet remove or withdraw: the
\* uniqueness check waits for it.
Contested(w) ==
  {v \in Workers \ {w} :
     \/ Activating(v) \ {target[w]} # {}
     \/ (Superseding(v) \cap Active) \ {target[w]} # {}}

\* Rows in the index that stay.
Conflicting(w) ==
  (Active \ {target[w]}) \ UNION {Superseding(v) : v \in Workers}

\* Mutant: the index is not unique.
NoIndex(w) ==
  /\ pc[w] = "checking"
  /\ Goto(w, "written")
  /\ UNCHANGED <<status, confirmed, locker, target, read, active, crashes>>

CheckIndex(w) ==
  /\ pc[w] = "checking"
  /\ Activating(w) = {} \/ (Conflicting(w) = {} /\ Contested(w) = {})
  /\ Goto(w, "written")
  /\ UNCHANGED <<status, confirmed, locker, target, read, active, crashes>>

\* End of a transaction: its locks go, and what it had loaded.
Leave(w) ==
  /\ Goto(w, "idle")
  /\ target' = [target EXCEPT ![w] = 0]
  /\ read' = [read EXCEPT ![w] = "ABSENT"]
  /\ active' = [active EXCEPT ![w] = {}]
  /\ locker' = [b \in Ids |-> IF locker[b] = w THEN NoWorker ELSE locker[b]]

\* IntegrityError: the confirmation is answered with BINDING_NOT_ACTIVE.
Refuse(w) ==
  /\ pc[w] = "checking"
  /\ Activating(w) # {} /\ Conflicting(w) # {}
  /\ Leave(w)
  /\ UNCHANGED <<status, confirmed, crashes>>

\* The commit; the response says ACTIVE.
Commit(w) ==
  /\ pc[w] = "written"
  /\ status' = [b \in Ids |-> IF b \in Activating(w) THEN "ACTIVE"
                              ELSE IF b \in Superseding(w) THEN "SUPERSEDED"
                              ELSE status[b]]
  /\ confirmed' = [confirmed EXCEPT ![target[w]] = TRUE]
  /\ Leave(w)
  /\ UNCHANGED crashes

Crash(w) ==
  /\ pc[w] # "idle"
  /\ crashes < MaxCrashes
  /\ crashes' = crashes + 1
  /\ Leave(w)
  /\ UNCHANGED <<status, confirmed>>

\* Whom a transaction waits for.
WaitsFor(w) ==
  CASE pc[w] = "selecting"   -> {locker[b] : b \in active[w]} \ {w, NoWorker}
    [] pc[w] = "superseding" -> {locker[target[w]]} \ {w, NoWorker}
    [] pc[w] = "checking"    -> IF Activating(w) = {} \/ Conflicting(w) # {} THEN {}
                                ELSE Contested(w)
    [] OTHER                 -> {}

\* Mutant: deadlocks are not detected.
NoVictim(w) == FALSE /\ UNCHANGED vars

\* PostgreSQL aborts one of two transactions that wait for each other.
DeadlockVictim(w) ==
  /\ \E v \in WaitsFor(w) : w \in WaitsFor(v)
  /\ Leave(w)
  /\ UNCHANGED <<status, confirmed, crashes>>

Confirm(w) ==
  \/ SelectActive(w) \/ LockActive(w) \/ Supersede(w) \/ WriteBinding(w)
  \/ CheckIndex(w) \/ Refuse(w) \/ Commit(w) \/ DeadlockVictim(w)

Next ==
  \/ PutBinding
  \/ \E w \in Workers : Confirm(w) \/ Crash(w) \/ \E b \in Ids : LoadBinding(w, b)

Spec == Init /\ [][Next]_vars

\* Transactions keep running; the lock queue serves everyone.
FairSpec == Spec /\ \A w \in Workers : SF_vars(Confirm(w))

----
(* Properties.                                                             *)

\* Types; a thread has a target and holds row locks only inside its transaction.
TypeOK ==
  /\ status \in [Ids -> Statuses]
  /\ confirmed \in [Ids -> BOOLEAN]
  /\ locker \in [Ids -> Workers \cup {NoWorker}]
  /\ pc \in [Workers -> Steps]
  /\ target \in [Workers -> 0..MaxBindings]
  /\ \A w \in Workers : pc[w] = "idle" <=> target[w] = 0
  /\ \A b \in Ids : locker[b] # NoWorker => pc[locker[b]] # "idle"
  /\ read \in [Workers -> Statuses]
  /\ active \in [Workers -> SUBSET Ids]
  /\ crashes \in 0..MaxCrashes

\* Documents pin at most one binding: never two ACTIVE ones, whatever races.
AtMostOneActive == \A b, c \in Active : b = c

\* A binding stops being ACTIVE only in favour of another one.  The exception: a
\* confirmation of a binding that was ACTIVE when it was loaded and was superseded
\* meanwhile supersedes its successor and puts nothing in its place.
SupersededByAnother ==
  [][\A b \in Ids :
       status[b] = "ACTIVE" /\ status'[b] # "ACTIVE" =>
         \E w \in Workers :
           /\ pc[w] = "written" /\ target[w] # b
           /\ \/ status'[target[w]] = "ACTIVE"
              \/ read[w] = "ACTIVE" /\ status[target[w]] = "SUPERSEDED"]_vars

\* A confirmation always ends: nobody waits for a lock for ever.
Ends == \A w \in Workers : pc[w] # "idle" ~> pc[w] = "idle"

\* What test_concurrent_binding_activation asserts after its confirmations: exactly
\* one ACTIVE binding.
OneActiveAfterConfirmation ==
  (\E b \in Ids : confirmed[b]) => Cardinality(Active) = 1
=============================================================================
