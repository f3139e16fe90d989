---------------------------- MODULE Idempotency ----------------------------
(***************************************************************************)
(* Requests under an Idempotency-Key: run_idempotent, _dispatch_write and  *)
(* update_stored_response, over PostgreSQL's unique constraint on          *)
(* (service_principal, key).                                               *)
(*                                                                         *)
(* The owner's placeholder, the effect of its action and the first version *)
(* of the stored body become visible in one commit.  A writing endpoint    *)
(* then dispatches the attempt outside that transaction and stores a       *)
(* second version of the body in another commit, the one that ends the     *)
(* request.  Everybody else under the key waits for the first commit.      *)
(***************************************************************************)
EXTENDS Naturals, FiniteSets

CONSTANTS
  Requests,     \* HTTP requests, each retry one of its own
  Keys,         \* (service_principal, key)
  Payloads,     \* request_hash: method, path, taxpayer and body
  KeyOf,        \* [Requests -> Keys]
  PayloadOf,    \* [Requests -> Payloads]
  Dispatched,   \* payloads of endpoints that call _dispatch_write
  MaxCrashes,   \* bound: threads killed or database errors in a run
  NoRequest

ASSUME RequestAssumption ==
  /\ KeyOf \in [Requests -> Keys]
  /\ PayloadOf \in [Requests -> Payloads]
  /\ Dispatched \subseteq Payloads
  /\ NoRequest \notin Requests
  /\ MaxCrashes \in Nat

VARIABLES
  row,       \* committed idempotency_keys rows: who executed, which body is stored
  owner,     \* the request whose insert of the key is not committed yet
  pc,
  answer,    \* what the client was told
  executed,  \* history: requests whose action was committed
  crashes

vars == <<row, owner, pc, answer, executed, crashes>>

NoRow    == [by |-> NoRequest, body |-> "none"]
Bodies   == {"initial", "final"}
Rows     == [by : Requests, body : Bodies] \cup {NoRow}
NoAnswer == [kind |-> "none", by |-> NoRequest, body |-> "none"]
Answers  ==
  [kind : {"ok"}, by : Requests, body : Bodies]
    \cup [kind : {"none", "conflict", "failed", "lost"}, by : {NoRequest}, body : {"none"}]
Steps    == {"idle", "inserting", "acting", "duplicate", "dispatching", "storing", "answered"}

Error(kind) == [kind |-> kind, by |-> NoRequest, body |-> "none"]
Ok(stored)  == [kind |-> "ok", by |-> stored.by, body |-> stored.body]

Init ==
  /\ row = [k \in Keys |-> NoRow]
  /\ owner = [k \in Keys |-> NoRequest]
  /\ pc = [r \in Requests |-> "idle"]
  /\ answer = [r \in Requests |-> NoAnswer]
  /\ executed = {}
  /\ crashes = 0

Goto(r, step) == pc' = [pc EXCEPT ![r] = step]

Reply(r, a) ==
  /\ Goto(r, "answered")
  /\ answer' = [answer EXCEPT ![r] = a]

Arrive(r) ==
  /\ pc[r] = "idle"
  /\ Goto(r, "inserting")
  /\ UNCHANGED <<row, owner, answer, executed, crashes>>

\* The flush of the placeholder.  It waits while another transaction holds an
\* uncommitted row of the key.
Insert(r) ==
  LET k == KeyOf[r] IN
  /\ pc[r] = "inserting"
  /\ owner[k] = NoRequest
  /\ row[k] = NoRow
  /\ owner' = [owner EXCEPT ![k] = r]
  /\ Goto(r, "acting")
  /\ UNCHANGED <<row, answer, executed, crashes>>

\* IntegrityError: the savepoint is rolled back, the request is not the owner.
Duplicate(r) ==
  LET k == KeyOf[r] IN
  /\ pc[r] = "inserting"
  /\ owner[k] = NoRequest
  /\ row[k] # NoRow
  /\ Goto(r, "duplicate")
  /\ UNCHANGED <<row, owner, answer, executed, crashes>>

\* Mutant: the stored hash is not compared.
ReplayAnything(r) ==
  LET stored == row[KeyOf[r]] IN
  /\ pc[r] = "duplicate"
  /\ Reply(r, IF stored = NoRow THEN Error("failed") ELSE Ok(stored))
  /\ UNCHANGED <<row, owner, executed, crashes>>

\* SELECT ... FOR UPDATE (.one() fails if there is no row) and the hash comparison.
\* The body is the one stored by now, not the one at the time of the insert.
Replay(r) ==
  LET stored == row[KeyOf[r]] IN
  /\ pc[r] = "duplicate"
  /\ Reply(r, IF stored = NoRow THEN Error("failed")
              ELSE IF PayloadOf[stored.by] # PayloadOf[r] THEN Error("conflict")
              ELSE Ok(stored))
  /\ UNCHANGED <<row, owner, executed, crashes>>

\* Mutant: the transaction of a failed action is left open.
FailHolding(r) ==
  /\ pc[r] = "acting"
  /\ Reply(r, Error("failed"))
  /\ UNCHANGED <<row, owner, executed, crashes>>

\* Mutant: the placeholder of a failed action is committed.
FailKept(r) ==
  /\ pc[r] = "acting"
  /\ row' = [row EXCEPT ![KeyOf[r]] = [by |-> r, body |-> "initial"]]
  /\ owner' = [owner EXCEPT ![KeyOf[r]] = NoRequest]
  /\ Reply(r, Error("failed"))
  /\ UNCHANGED <<executed, crashes>>

\* The action raises: get_session rolls back, placeholder and all (its explicit
\* deletion for PROVIDER_NOT_CONFIGURED included).
Fail(r) ==
  /\ pc[r] = "acting"
  /\ owner' = [owner EXCEPT ![KeyOf[r]] = NoRequest]
  /\ Reply(r, Error("failed"))
  /\ UNCHANGED <<row, executed, crashes>>

\* The action succeeds: commit by get_session, the response is final ...
Finish(r) ==
  LET stored == [by |-> r, body |-> "final"] IN
  /\ pc[r] = "acting"
  /\ PayloadOf[r] \notin Dispatched
  /\ row' = [row EXCEPT ![KeyOf[r]] = stored]
  /\ owner' = [owner EXCEPT ![KeyOf[r]] = NoRequest]
  /\ executed' = executed \cup {r}
  /\ Reply(r, Ok(stored))
  /\ UNCHANGED crashes

\* ... or, at the top of _dispatch_write, before the attempt is dispatched.
Publish(r) ==
  /\ pc[r] = "acting"
  /\ PayloadOf[r] \in Dispatched
  /\ row' = [row EXCEPT ![KeyOf[r]] = [by |-> r, body |-> "initial"]]
  /\ owner' = [owner EXCEPT ![KeyOf[r]] = NoRequest]
  /\ executed' = executed \cup {r}
  /\ Goto(r, "dispatching")
  /\ UNCHANGED <<answer, crashes>>

\* process_attempt or run_reconciliation, in transactions of their own.
Dispatch(r) ==
  /\ pc[r] = "dispatching"
  /\ Goto(r, "storing")
  /\ UNCHANGED <<row, owner, answer, executed, crashes>>

\* Mutant: the refreshed body is returned but not stored.
StoreNothing(r) ==
  /\ pc[r] = "storing"
  /\ Reply(r, [kind |-> "ok", by |-> r, body |-> "final"])
  /\ UNCHANGED <<row, owner, executed, crashes>>

\* The refreshed body, update_stored_response and the commit by get_session.
Store(r) ==
  LET stored == [by |-> r, body |-> "final"] IN
  /\ pc[r] = "storing"
  /\ row' = [row EXCEPT ![KeyOf[r]] = stored]
  /\ Reply(r, Ok(stored))
  /\ UNCHANGED <<owner, executed, crashes>>

\* The thread dies or a statement fails: what is not committed is rolled back, the
\* key included; what is committed stays, the initial body included.
Crash(r) ==
  /\ pc[r] \notin {"idle", "answered"}
  /\ crashes < MaxCrashes
  /\ crashes' = crashes + 1
  /\ owner' = [k \in Keys |-> IF owner[k] = r THEN NoRequest ELSE owner[k]]
  /\ Reply(r, Error("lost"))
  /\ UNCHANGED <<row, executed>>

Serve(r) ==
  \/ Insert(r) \/ Duplicate(r) \/ Replay(r)
  \/ Fail(r) \/ Finish(r) \/ Publish(r) \/ Dispatch(r) \/ Store(r)

Next == \E r \in Requests : Arrive(r) \/ Serve(r) \/ Crash(r)

Spec == Init /\ [][Next]_vars

----
(* Properties.                                                             *)

\* The types of the variables.
Types ==
  /\ row \in [Keys -> Rows]
  /\ owner \in [Keys -> Requests \cup {NoRequest}]
  /\ pc \in [Requests -> Steps]
  /\ answer \in [Requests -> Answers]
  /\ executed \subseteq Requests
  /\ crashes \in 0..MaxCrashes

\* The holder of an uncommitted placeholder is in its first transaction, and the key
\* has no committed row.
OwnerHolds ==
  /\ \A r \in Requests : pc[r] = "acting" => owner[KeyOf[r]] = r
  /\ \A k \in Keys : owner[k] # NoRequest =>
       pc[owner[k]] = "acting" /\ KeyOf[owner[k]] = k /\ row[k] = NoRow

\* Types, and an uncommitted key belongs to a request that is executing.
TypeOK == Types /\ OwnerHolds

\* However often a request is sent under a key, concurrently, after a lost answer or
\* after a failure, at most one of them takes effect.
ExecutedOnce ==
  \A r, s \in executed : KeyOf[r] = KeyOf[s] => r = s

\* The key and the effect live and die together: a key is taken by its execution and
\* by nothing else, so a failed or crashed request leaves it free for a retry.
KeyMeansEffect ==
  \A k \in Keys :
    /\ row[k] # NoRow => row[k].by \in executed /\ KeyOf[row[k].by] = k
    /\ \A r \in executed : KeyOf[r] = k => row[k].by = r

\* A success reports the one execution of the request's own key and payload, and a
\* conflict means that another payload was executed under the key.
AnswersAreOwn ==
  \A r \in Requests :
    /\ answer[r].kind = "ok" =>
         LET e == answer[r].by IN
         /\ e \in executed
         /\ KeyOf[e] = KeyOf[r] /\ PayloadOf[e] = PayloadOf[r]
    /\ answer[r].kind = "conflict" =>
         \E e \in executed : KeyOf[e] = KeyOf[r] /\ PayloadOf[e] # PayloadOf[r]

\* Once the executing request was answered, its answer is what every replay gets, and
\* the final body of a dispatched request is never shown before its dispatch ended.
OwnerAnswerStands ==
  \A r \in Requests :
    /\ answer[r].kind = "ok" /\ answer[r].by = r => row[KeyOf[r]] = [by |-> r, body |-> "final"]
    /\ answer[r].kind = "ok" /\ answer[r].body = "final" => pc[answer[r].by] = "answered"

\* A stored answer is never withdrawn nor replaced: its body is completed, once, by
\* the request that executed.
RowStands ==
  [][\A k \in Keys :
       row[k] # NoRow /\ row'[k] # row[k] =>
         /\ row'[k] = [row[k] EXCEPT !.body = "final"]
         /\ pc[row[k].by] = "storing"]_vars

\* No request waits for a key for ever.
Answered == \A r \in Requests : pc[r] # "idle" ~> pc[r] = "answered"
=============================================================================
