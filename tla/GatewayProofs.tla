---------------------------- MODULE GatewayProofs ----------------------------
(***************************************************************************)
(* Proofs about Idempotency and about its composition with Dispatch, for   *)
(* any sets of requests, keys, payloads and attempts and any number of     *)
(* crashes.                                                                *)
(*                                                                         *)
(* Idempotency: an uncommitted placeholder excludes a committed one        *)
(* (OwnerHolds), a request that executed is past its first transaction     *)
(* (ExecutorPast), and so the row of a key is the trace of its only        *)
(* execution (KeyMeansEffect), from which everything else is read off.     *)
(*                                                                         *)
(* The composition: each step of Gateway is a step or a stutter of either  *)
(* part (KeyStep, DispatchStep), so all that is proved of the parts holds  *)
(* of the whole.  What ties them (GInv) is that the attempts there are are *)
(* those of the requests that executed, so a key has one attempt at most   *)
(* (MadeOnce), that a status row finds its document by a guid that is      *)
(* there for good (ListedTaken), and that a body only ages in ways that    *)
(* keep it true (BodiesAreTrue, SaysStays).  Delivery by attempt, proved   *)
(* in DispatchProofs, becomes delivery by key (KeyDelivers).               *)
(***************************************************************************)
EXTENDS Gateway, TLAPS

\* Requests that executed are past the commit, those in dispatch did execute.
ExecutorPast ==
  /\ \A r \in executed : pc[r] \in {"dispatching", "storing", "answered"}
  /\ \A r \in Requests : pc[r] \in {"dispatching", "storing"} => r \in executed

Unanswered == \A r \in Requests : pc[r] # "answered" => answer[r] = NoAnswer

FinalRow ==
  \A k \in Keys : row[k].body = "final" => pc[row[k].by] = "answered"

IInv == /\ Types /\ OwnerHolds /\ ExecutorPast /\ Unanswered /\ FinalRow
        /\ KeyMeansEffect /\ AnswersAreOwn /\ OwnerAnswerStands

USE RequestAssumption

\* The initial state satisfies the inductive invariant.
LEMMA InvInit == Init => IInv
<1>1. SUFFICES ASSUME Init PROVE IInv
  OBVIOUS
<1>2. NoRow \in Rows /\ NoAnswer \in Answers
  BY DEF NoRow, Rows, NoAnswer, Answers
<1>3. Types
  BY <1>1, <1>2 DEF Init, Types, Steps
<1>4. OwnerHolds /\ ExecutorPast /\ Unanswered /\ FinalRow
  BY <1>1 DEF Init, OwnerHolds, ExecutorPast, Unanswered, FinalRow, NoRow
<1>5. KeyMeansEffect /\ AnswersAreOwn /\ OwnerAnswerStands
  BY <1>1 DEF Init, KeyMeansEffect, AnswersAreOwn, OwnerAnswerStands, NoAnswer
<1> QED
  BY <1>3, <1>4, <1>5 DEF IInv

\* OwnerAnswerStands survives a step that answers nobody but r, takes no answered
\* request back and leaves the rows of answered owners alone.
LEMMA StandsKept ==
  ASSUME OwnerAnswerStands, NEW r \in Requests,
         \A s \in Requests \ {r} : answer'[s] = answer[s],
         \A s \in Requests : pc[s] = "answered" => pc'[s] = "answered",
         \A s \in Requests \ {r} : answer[s].kind = "ok" =>
           /\ answer[s].by \in Requests
           /\ answer[s].by = s => row'[KeyOf[s]] = row[KeyOf[s]],
         answer'[r].kind = "ok" =>
           /\ answer'[r].by = r => row'[KeyOf[r]] = [by |-> r, body |-> "final"]
           /\ answer'[r].body = "final" => pc'[answer'[r].by] = "answered"
  PROVE  OwnerAnswerStands'
<1>1. SUFFICES ASSUME NEW s \in Requests, answer'[s].kind = "ok"
               PROVE  /\ answer'[s].by = s => row'[KeyOf[s]] = [by |-> s, body |-> "final"]
                      /\ answer'[s].body = "final" => pc'[answer'[s].by] = "answered"
  BY DEF OwnerAnswerStands
<1>2. CASE s = r
  BY <1>1, <1>2
<1>3. CASE s # r
  <2>1. answer'[s] = answer[s] /\ answer[s].by \in Requests
    BY <1>1, <1>3
  <2>2. answer[s].by = s => row[KeyOf[s]] = [by |-> s, body |-> "final"]
    BY <1>1, <2>1 DEF OwnerAnswerStands
  <2>3. answer[s].body = "final" => pc[answer[s].by] = "answered"
    BY <1>1, <2>1 DEF OwnerAnswerStands
  <2> QED
    BY <1>1, <1>3, <2>1, <2>2, <2>3
<1> QED
  BY <1>2, <1>3

\* The owner of an answer is a request, whoever was answered.
LEMMA AnswerOwner ==
  ASSUME Types, AnswersAreOwn, NEW s \in Requests, answer[s].kind = "ok"
  PROVE  answer[s].by \in executed /\ answer[s].by \in Requests
BY DEF Types, AnswersAreOwn

\* Steps that leave the rows and the executions alone: everything before the first
\* commit, replays, failures and crashes.
LEMMA InvQuiet ==
  ASSUME IInv, NEW r \in Requests,
         \/ Arrive(r) \/ Insert(r) \/ Duplicate(r) \/ Dispatch(r)
  PROVE  IInv'
<1> USE DEF IInv
<1>1. Types'
  BY DEF Types, Arrive, Insert, Duplicate, Dispatch, Goto, Steps
<1>2. OwnerHolds'
  BY DEF Types, OwnerHolds, Arrive, Insert, Duplicate, Dispatch, Goto, Steps
<1>3. ExecutorPast' /\ Unanswered'
  BY DEF Types, ExecutorPast, Unanswered, Arrive, Insert, Duplicate, Dispatch, Goto, Steps
<1>4. FinalRow'
  BY DEF Types, FinalRow, KeyMeansEffect, Rows, NoRow, Arrive, Insert, Duplicate, Dispatch, Goto
<1>5. KeyMeansEffect' /\ AnswersAreOwn'
  BY DEF KeyMeansEffect, AnswersAreOwn, Arrive, Insert, Duplicate, Dispatch, Goto
<1>6. OwnerAnswerStands'
  <2>1. /\ \A s \in Requests \ {r} : pc'[s] = pc[s]
        /\ pc[r] # "answered"
        /\ answer' = answer /\ row' = row
    BY DEF Types, Arrive, Insert, Duplicate, Dispatch, Goto
  <2>2. \A s \in Requests : answer[s].kind = "ok" => answer[s].by \in Requests
    BY DEF Types, AnswersAreOwn
  <2> QED
    BY <2>1, <2>2 DEF OwnerAnswerStands
<1> QED
  BY <1>1, <1>2, <1>3, <1>4, <1>5, <1>6

\* A replay reads the row of its key, so its answer is that row's.
LEMMA InvReplay ==
  ASSUME IInv, NEW r \in Requests, Replay(r)
  PROVE  IInv'
<1> DEFINE stored == row[KeyOf[r]]
<1> USE DEF IInv
<1>1. stored \in Rows /\ pc[r] = "duplicate" /\ r \notin executed
  BY DEF Types, Replay, ExecutorPast
<1>2. /\ pc' = [pc EXCEPT ![r] = "answered"]
      /\ answer' = [answer EXCEPT ![r] = answer'[r]]
      /\ answer'[r] \in Answers
      /\ UNCHANGED <<row, owner, executed, crashes>>
  <2>1. /\ stored # NoRow => Ok(stored) \in Answers
        /\ Error("failed") \in Answers /\ Error("conflict") \in Answers
    BY <1>1 DEF Ok, Error, Answers, Rows
  <2> QED
    BY <1>1, <2>1 DEF Replay, Reply, Goto, Types
<1>3. /\ answer'[r].kind = "ok" =>
           stored # NoRow /\ PayloadOf[stored.by] = PayloadOf[r] /\ answer'[r].by = stored.by
           /\ answer'[r].body = stored.body
      /\ answer'[r].kind = "conflict" => stored # NoRow /\ PayloadOf[stored.by] # PayloadOf[r]
  BY <1>1 DEF Replay, Reply, Types, Ok, Error
<1>4. Types'
  BY <1>2 DEF Types, Steps
<1>5. OwnerHolds' /\ ExecutorPast' /\ Unanswered'
  BY <1>1, <1>2 DEF Types, OwnerHolds, ExecutorPast, Unanswered
<1>6. FinalRow' /\ KeyMeansEffect'
  BY <1>1, <1>2 DEF Types, FinalRow, KeyMeansEffect, Rows, NoRow
<1>7. AnswersAreOwn'
  BY <1>1, <1>2, <1>3 DEF Types, AnswersAreOwn, KeyMeansEffect
<1>8. OwnerAnswerStands'
  <2>1. \A s \in Requests \ {r} : answer'[s] = answer[s]
    BY <1>2 DEF Types
  <2>2. \A s \in Requests : pc[s] = "answered" => pc'[s] = "answered"
    BY <1>2 DEF Types
  <2>3. answer'[r].kind = "ok" =>
          /\ answer'[r].by # r
          /\ answer'[r].body = "final" => pc'[answer'[r].by] = "answered"
    <3>1. stored # NoRow => stored.by \in executed /\ stored.by \in Requests
      BY DEF Types, KeyMeansEffect
    <3>2. stored.body = "final" => pc[stored.by] = "answered"
      BY DEF Types, FinalRow
    <3> QED
      BY <1>1, <1>3, <2>2, <3>1, <3>2
  <2> QED
    BY <1>2, <2>1, <2>2, <2>3, StandsKept, AnswerOwner
<1> QED
  BY <1>4, <1>5, <1>6, <1>7, <1>8

\* A failure or a crash rolls the uncommitted placeholder back.
LEMMA InvRollback ==
  ASSUME IInv, NEW r \in Requests, Fail(r) \/ Crash(r)
  PROVE  IInv'
<1> USE DEF IInv
<1>1. /\ pc' = [pc EXCEPT ![r] = "answered"]
      /\ \E kind \in {"failed", "lost"} : answer' = [answer EXCEPT ![r] = Error(kind)]
      /\ owner' = [k \in Keys |-> IF owner[k] = r THEN NoRequest ELSE owner[k]]
      /\ crashes' \in 0..MaxCrashes
      /\ UNCHANGED <<row, executed>>
  <2>1. CASE Fail(r)
    <3>1. \A k \in Keys : owner[k] = r <=> k = KeyOf[r]
      BY <2>1 DEF Fail, Types, OwnerHolds
    <3>2. owner' = [k \in Keys |-> IF owner[k] = r THEN NoRequest ELSE owner[k]]
      BY <2>1, <3>1 DEF Fail, Types
    <3> QED
      BY <2>1, <3>2 DEF Fail, Reply, Goto, Types
  <2>2. CASE Crash(r)
    BY <2>2 DEF Crash, Reply, Goto, Types
  <2> QED
    BY <2>1, <2>2
<1>2. pc[r] \notin {"idle", "answered"}
  BY DEF Fail, Crash
<1>3. Types'
  BY <1>1 DEF Types, Steps, Error, Answers
<1>4. OwnerHolds' /\ ExecutorPast' /\ Unanswered'
  BY <1>1, <1>2 DEF Types, OwnerHolds, ExecutorPast, Unanswered
<1>5. FinalRow' /\ KeyMeansEffect'
  BY <1>1 DEF Types, FinalRow, KeyMeansEffect, Rows, NoRow
<1>6. AnswersAreOwn'
  BY <1>1 DEF Types, AnswersAreOwn, Error
<1>7. OwnerAnswerStands'
  <2>1. \A s \in Requests \ {r} : answer'[s] = answer[s]
    BY <1>1 DEF Types
  <2>2. \A s \in Requests : pc[s] = "answered" => pc'[s] = "answered"
    BY <1>1 DEF Types
  <2>3. answer'[r].kind # "ok"
    BY <1>1 DEF Types, Error
  <2> QED
    BY <1>1, <2>1, <2>2, <2>3, StandsKept, AnswerOwner
<1> QED
  BY <1>3, <1>4, <1>5, <1>6, <1>7

\* The first commit: the key had no row and no execution.
LEMMA InvCommit ==
  ASSUME IInv, NEW r \in Requests, Finish(r) \/ Publish(r)
  PROVE  IInv'
<1> DEFINE k == KeyOf[r]
<1> USE DEF IInv
<1>1. PICK body \in Bodies :
        /\ row' = [row EXCEPT ![k] = [by |-> r, body |-> body]]
        /\ body = "final" => pc'[r] = "answered"
        /\ answer' = [answer EXCEPT ![r] = answer'[r]]
        /\ \/ answer'[r] = answer[r] /\ pc' = [pc EXCEPT ![r] = "dispatching"]
           \/ /\ answer'[r] = [kind |-> "ok", by |-> r, body |-> "final"]
              /\ body = "final" /\ pc' = [pc EXCEPT ![r] = "answered"]
  <2>1. CASE Finish(r)
    BY <2>1 DEF Finish, Reply, Goto, Ok, Bodies, Types
  <2>2. CASE Publish(r)
    BY <2>2 DEF Publish, Goto, Bodies, Types
  <2> QED
    BY <2>1, <2>2
<1>2. /\ owner' = [owner EXCEPT ![k] = NoRequest]
      /\ executed' = executed \cup {r}
      /\ UNCHANGED crashes
      /\ pc[r] = "acting"
  BY DEF Finish, Publish
<1>3. k \in Keys /\ row[k] = NoRow /\ r \notin executed /\ answer[r] = NoAnswer
  BY <1>2 DEF Types, OwnerHolds, ExecutorPast, Unanswered
<1>4. \A s \in executed : KeyOf[s] # k
  BY <1>3 DEF Types, KeyMeansEffect, NoRow
<1>5. Types'
  <2>1. [by |-> r, body |-> body] \in Rows /\ answer'[r] \in Answers
    BY <1>1 DEF Rows, Answers, Bodies, Types
  <2> QED
    BY <1>1, <1>2, <1>3, <2>1 DEF Types, Steps
<1>6. OwnerHolds'
  BY <1>1, <1>2, <1>3 DEF Types, OwnerHolds
<1>7. ExecutorPast' /\ Unanswered'
  BY <1>1, <1>2, <1>3 DEF Types, ExecutorPast, Unanswered
<1>8. FinalRow'
  BY <1>1, <1>2, <1>3 DEF Types, FinalRow, KeyMeansEffect, Rows, NoRow
<1>9. KeyMeansEffect'
  <2>1. row'[k] = [by |-> r, body |-> body]
    BY <1>1, <1>3 DEF Types
  <2>2. \A l \in Keys \ {k} : row'[l] = row[l]
    BY <1>1, <1>3 DEF Types
  <2> QED
    BY <1>2, <1>3, <1>4, <2>1, <2>2 DEF KeyMeansEffect
<1>10. AnswersAreOwn'
  BY <1>1, <1>2, <1>3 DEF Types, AnswersAreOwn, NoAnswer
<1>11. OwnerAnswerStands'
  <2>1. \A s \in Requests \ {r} : answer'[s] = answer[s]
    BY <1>1 DEF Types
  <2>2. \A s \in Requests : pc[s] = "answered" => pc'[s] = "answered"
    BY <1>1, <1>2 DEF Types
  <2>3. ASSUME NEW s \in Requests \ {r}, answer[s].kind = "ok", answer[s].by = s
        PROVE  row'[KeyOf[s]] = row[KeyOf[s]]
    BY <1>1, <1>3, <1>4, <2>3, AnswerOwner DEF Types
  <2>4. answer'[r].kind = "ok" =>
          /\ row'[k] = [by |-> r, body |-> "final"]
          /\ answer'[r].by = r /\ pc'[r] = "answered"
    BY <1>1, <1>3 DEF Types, NoAnswer
  <2> QED
    BY <2>1, <2>2, <2>3, <2>4, StandsKept, AnswerOwner
<1> QED
  BY <1>5, <1>6, <1>7, <1>8, <1>9, <1>10, <1>11

\* The second commit replaces the body of the request's own row.
LEMMA InvStore ==
  ASSUME IInv, NEW r \in Requests, Store(r)
  PROVE  IInv'
<1> DEFINE k == KeyOf[r]
           stored == [by |-> r, body |-> "final"]
<1> USE DEF IInv
<1>1. /\ row' = [row EXCEPT ![k] = stored]
      /\ pc' = [pc EXCEPT ![r] = "answered"]
      /\ answer' = [answer EXCEPT ![r] = [kind |-> "ok", by |-> r, body |-> "final"]]
      /\ UNCHANGED <<owner, executed, crashes>>
      /\ pc[r] = "storing"
  BY DEF Store, Reply, Goto, Ok
<1>2. k \in Keys /\ r \in executed /\ row[k].by = r /\ row[k] # NoRow
  BY <1>1 DEF Types, ExecutorPast, KeyMeansEffect, NoRow
<1>3. Types'
  <2>1. stored \in Rows /\ [kind |-> "ok", by |-> r, body |-> "final"] \in Answers
    BY DEF Rows, Answers, Bodies
  <2> QED
    BY <1>1, <1>2, <2>1 DEF Types, Steps
<1>4. OwnerHolds' /\ ExecutorPast' /\ Unanswered'
  BY <1>1, <1>2 DEF Types, OwnerHolds, ExecutorPast, Unanswered
<1>5. FinalRow'
  BY <1>1, <1>2 DEF Types, FinalRow, Rows, NoRow, KeyMeansEffect
<1>6. KeyMeansEffect'
  BY <1>1, <1>2 DEF Types, KeyMeansEffect
<1>7. AnswersAreOwn'
  BY <1>1, <1>2 DEF Types, AnswersAreOwn
<1>8. OwnerAnswerStands'
  <2>1. \A s \in Requests \ {r} : answer'[s] = answer[s]
    BY <1>1 DEF Types
  <2>2. \A s \in Requests : pc[s] = "answered" => pc'[s] = "answered"
    BY <1>1 DEF Types
  <2>3. ASSUME NEW s \in Requests \ {r}, answer[s].kind = "ok", answer[s].by = s
        PROVE  row'[KeyOf[s]] = row[KeyOf[s]]
    <3>1. KeyOf[s] # k
      BY <1>2, <2>3, AnswerOwner DEF KeyMeansEffect
    <3> QED
      BY <1>1, <1>2, <3>1 DEF Types
  <2>4. /\ row'[k] = stored /\ pc'[r] = "answered"
        /\ answer'[r] = [kind |-> "ok", by |-> r, body |-> "final"]
    BY <1>1, <1>2 DEF Types
  <2> QED
    BY <2>1, <2>2, <2>3, <2>4, StandsKept, AnswerOwner
<1> QED
  BY <1>3, <1>4, <1>5, <1>6, <1>7, <1>8

\* Every step preserves the inductive invariant.
LEMMA InvStep == IInv /\ [Next]_vars => IInv'
<1>1. SUFFICES ASSUME IInv, [Next]_vars PROVE IInv'
  OBVIOUS
<1>2. CASE UNCHANGED vars
  BY <1>1, <1>2 DEF vars, IInv, Types, OwnerHolds, ExecutorPast, Unanswered, FinalRow,
                    KeyMeansEffect, AnswersAreOwn, OwnerAnswerStands
<1>3. ASSUME NEW r \in Requests, Arrive(r) \/ Serve(r) \/ Crash(r) PROVE IInv'
  BY <1>1, <1>3, InvQuiet, InvReplay, InvRollback, InvCommit, InvStore DEF Serve
<1> QED
  BY <1>1, <1>2, <1>3 DEF Next

\* The inductive invariant of run_idempotent and _dispatch_write: the row of a key is
\* the trace of its one execution.
THEOREM Invariance == Spec => []IInv
BY InvInit, InvStep, PTL DEF Spec

\* Tables and threads stay within their types, and an uncommitted placeholder belongs to
\* a request in its first transaction, under a key without a committed row.
THEOREM TypeCorrect == Spec => []TypeOK
<1>1. IInv => TypeOK
  BY DEF IInv, TypeOK
<1> QED
  BY <1>1, Invariance, PTL

\* Whatever the number of requests, retries and crashes, at most one request takes
\* effect under an Idempotency-Key.
THEOREM AtMostOneExecution == Spec => []ExecutedOnce
<1>1. IInv => ExecutedOnce
  BY DEF IInv, Types, KeyMeansEffect, ExecutedOnce
<1> QED
  BY <1>1, Invariance, PTL

\* A key is taken by its execution and by nothing else.
THEOREM KeysMeanEffects == Spec => []KeyMeansEffect
BY Invariance, PTL DEF IInv

\* A success reports the execution of the request's own key and payload.
THEOREM AnswersMatchRequests == Spec => []AnswersAreOwn
BY Invariance, PTL DEF IInv

\* What the executing request was told is what every later replay is told.
THEOREM OwnersAnswersStand == Spec => []OwnerAnswerStands
BY Invariance, PTL DEF IInv

\* A stored answer is completed at most once and never withdrawn.
THEOREM RowsStand == Spec => RowStands
<1> DEFINE Completed(k) ==
      row[k] # NoRow /\ row'[k] # row[k] =>
        /\ row'[k] = [row[k] EXCEPT !.body = "final"]
        /\ pc[row[k].by] = "storing"
<1>1. IInv /\ [Next]_vars => [\A k \in Keys : Completed(k)]_vars
  <2>1. SUFFICES ASSUME IInv, NEW r \in Requests, Arrive(r) \/ Serve(r) \/ Crash(r),
                        NEW k \in Keys, row[k] # NoRow, row'[k] # row[k]
                 PROVE  /\ row'[k] = [row[k] EXCEPT !.body = "final"]
                        /\ pc[row[k].by] = "storing"
    BY DEF Next
  <2>2. CASE Store(r)
    <3>1. KeyOf[r] = k /\ r \in executed
      BY <2>1, <2>2 DEF Store, IInv, Types, ExecutorPast
    <3>2. row[k] \in Rows /\ row[k].by = r
      BY <2>1, <3>1 DEF IInv, Types, KeyMeansEffect
    <3> QED
      BY <2>1, <2>2, <3>1, <3>2 DEF Store, IInv, Types, Rows
  <2>3. CASE Finish(r) \/ Publish(r)
    BY <2>1, <2>3 DEF Finish, Publish, IInv, Types, OwnerHolds
  <2> QED
    BY <2>1, <2>2, <2>3 DEF Arrive, Serve, Insert, Duplicate, Replay, Fail, Dispatch, Crash
<1> QED
  BY <1>1, Invariance, PTL DEF RowStands, Spec

----
(* The composition.                                                        *)

P == INSTANCE DispatchProofs WITH Workers <- Requests, pc <- thread, crashes <- aborted

USE DEF Attend

\* The assumption about attempts is the dispatcher's.
LEMMA SameAssumption == P!AttemptAssumption
BY GatewayAssumption DEF D!AttemptAssumption, P!AttemptAssumption, D!Attempts, P!Attempts

\* Both instances of the dispatcher have the same definitions: first its requests, ...
LEMMA SameRequest ==
  ASSUME NEW r \in Requests
  PROVE  /\ \A a : /\ D!CreateOutbound(r, a) => P!CreateOutbound(r, a)
                   /\ D!AddPayment(r, a) => P!AddPayment(r, a)
                   /\ D!LoadForReject(r, a) => P!LoadForReject(r, a)
                   /\ D!Redrive(r, a) => P!Redrive(r, a)
         /\ D!Abandon(r) => P!Abandon(r)
         /\ D!Crash(r) => P!Crash(r)
BY DEF D!CreateOutbound, P!CreateOutbound, D!AddPayment, P!AddPayment, D!LoadForReject,
       P!LoadForReject, D!Redrive, P!Redrive, D!Abandon, P!Abandon, D!Crash, P!Crash,
       D!CreateAttempt, P!CreateAttempt, D!Take, P!Take, D!Leave, P!Leave, D!Snapshot,
       P!Snapshot, D!NoSnapshot, P!NoSnapshot, D!attemptVars, P!attemptVars, D!documentVars,
       P!documentVars, D!settingVars, P!settingVars, D!historyVars, P!historyVars

\* ... then process_attempt, ...
LEMMA SameProcess ==
  ASSUME NEW r \in Requests
  PROVE  /\ D!Process(r) => P!Process(r)
         /\ D!Reject(r) => P!Reject(r)
BY DEF D!Process, P!Process, D!Reject, P!Reject, D!CreateAttempt, P!CreateAttempt,
       D!Flushed, P!Flushed, D!NoSnapshot, P!NoSnapshot, D!ClaimSkip, P!ClaimSkip,
       D!ClaimAmbiguous, P!ClaimAmbiguous, D!Claim, P!Claim, D!LoadDocument, P!LoadDocument,
       D!Release, P!Release, D!Authorise, P!Authorise, D!WithoutGuid, P!WithoutGuid,
       D!CallProvider, P!CallProvider, D!ReadBack, P!ReadBack, D!Record, P!Record, D!Locked,
       P!Locked, D!Held, P!Held, D!Terminal, P!Terminal, D!Leave, P!Leave, D!Snapshot,
       P!Snapshot, D!Refusal, P!Refusal, D!MayCall, P!MayCall, D!Outbound, P!Outbound,
       D!Outcomes, P!Outcomes, D!FinalStatus, P!FinalStatus, D!FinalCode, P!FinalCode,
       D!FinalAxis, P!FinalAxis, D!FinalFiscalization, P!FinalFiscalization, D!attemptVars,
       P!attemptVars, D!documentVars, P!documentVars, D!settingVars, P!settingVars,
       D!historyVars, P!historyVars

\* ... then the rest.
LEMMA SameEnvironment ==
  /\ D!Init => P!Init
  /\ D!Attempts = P!Attempts
  /\ \A a : D!LeaseExpires(a) => P!LeaseExpires(a)
  /\ D!PutProvider => P!PutProvider
  /\ \A d : D!ChangeCredential(d) => P!ChangeCredential(d)
BY DEF D!Init, P!Init, D!Attempts, P!Attempts, D!Outbound, P!Outbound, D!NoSnapshot,
       P!NoSnapshot, D!LeaseExpires, P!LeaseExpires, D!PutProvider, P!PutProvider,
       D!ChangeCredential, P!ChangeCredential, D!attemptVars, P!attemptVars, D!documentVars,
       P!documentVars, D!settingVars, P!settingVars, D!historyVars, P!historyVars

\* A step of a request with its attempt (Commit), as a step of the dispatcher.
LEMMA ActStep ==
  ASSUME NEW r \in Requests, NEW a \in D!Attempts, Act(r, a)
  PROVE  P!Next
BY SameRequest, SameProcess DEF Act, P!Next, P!Request, P!Process

\* Every step of the gateway is a step of run_idempotent, or leaves it alone.
LEMMA KeyStep == [GatewayNext]_gatewayVars => [Next]_vars
BY DEF GatewayNext, gatewayVars, Enter, TakeKey, NotOwned, Plain, Commit, Work, Reload,
       Refresh, Die, Environment, StatusRow, Next, Serve

\* Every step of the gateway is a step of the dispatcher, or leaves it alone.
LEMMA DispatchStep == [GatewayNext]_gatewayVars => [P!Next]_(P!vars)
<1> SUFFICES ASSUME [GatewayNext]_gatewayVars PROVE P!Next \/ UNCHANGED P!vars
  OBVIOUS
<1>1. UNCHANGED dispatchVars => UNCHANGED P!vars
  BY DEF dispatchVars, P!vars, P!attemptVars, P!documentVars, P!settingVars, P!historyVars
<1>2. ASSUME NEW r \in Requests, Enter(r) PROVE P!Next \/ UNCHANGED P!vars
  BY <1>1, <1>2, SameRequest DEF Enter, P!Next, P!Request
<1>3. ASSUME NEW r \in Requests, NotOwned(r) \/ Die(r) PROVE P!Next \/ UNCHANGED P!vars
  BY <1>1, <1>3, SameRequest DEF NotOwned, Die, P!Next
<1>4. ASSUME NEW r \in Requests, Commit(r) PROVE P!Next
  <2>1. PayloadOf[r] \in Dispatched
    BY <1>4 DEF Commit, Publish
  <2>2. AttemptOf[r] \in D!Attempts
    BY <2>1, GatewayAssumption
  <2> QED
    BY <1>4, <2>2, ActStep DEF Commit
<1>5. ASSUME NEW r \in Requests, Work(r) PROVE P!Next
  BY <1>5, SameProcess DEF Work, P!Next
<1>6. CASE Environment
  BY <1>6, SameEnvironment DEF Environment, P!Next
<1> QED
  BY <1>1, <1>2, <1>3, <1>4, <1>5, <1>6
     DEF GatewayNext, gatewayVars, TakeKey, Plain, Reload, Refresh, StatusRow

\* The requests of the gateway are requests under a key, ...
THEOREM GatewayKeys == GatewaySpec => Spec
<1>1. GatewayInit => Init
  BY DEF GatewayInit
<1> QED
  BY <1>1, KeyStep, PTL DEF GatewaySpec, Spec

\* ... and its threads dispatch as process_attempt does, so everything proved of the two
\* components holds of the whole.
THEOREM GatewayDispatches == GatewaySpec => P!Spec
<1>1. GatewayInit => P!Init
  BY SameEnvironment DEF GatewayInit
<1> QED
  BY <1>1, DispatchStep, PTL DEF GatewaySpec, P!Spec

----
(* Attempts and keys.                                                      *)

\* Where the thread of a request stands with its attempt.
Tied ==
  \A r \in Requests :
    /\ thread[r] # "idle" => job[r] = AttemptOf[r] /\ AttemptOf[r] \in D!Attempts
    /\ thread[r] = "rejecting" => pc[r] \in {"inserting", "acting", "duplicate"}
    /\ thread[r] \notin {"idle", "rejecting"} => pc[r] = "dispatching"
    /\ pc[r] = "dispatching" => AttemptOf[r] \in D!Attempts

\* An attempt was made by a request that executed, for its key.
MakerExecuted ==
  /\ maker \in [D!Attempts -> Requests \cup {NoRequest}]
  /\ \A a \in D!Attempts :
       /\ status[a] = "ABSENT" <=> maker[a] = NoRequest
       /\ maker[a] # NoRequest => maker[a] \in executed /\ AttemptOf[maker[a]] = a

\* Whoever executed has left an attempt behind.
ExecutedMade ==
  \A r \in executed : AttemptOf[r] # NoAttempt => status[AttemptOf[r]] # "ABSENT"

\* What a body can show, and what it says of an attempt.
Shown == [says : D!Axes \cup Listings \cup {"none"}, guid : BOOLEAN]

Says(a, body) ==
  /\ a \in SendAttempts /\ (body.guid \/ body.says = "SUBMITTED") => accepted[a]
  /\ a \in SendAttempts \cup PaymentAttempts /\ body.says = "FAILED" /\ ~body.guid =>
       status[a] = "FAILED"
  /\ a \in RejectAttempts /\ body.says = "SUBMITTED" =>
       \E b \in RejectAttempts : DocumentOf[b] = DocumentOf[a] /\ accepted[b]

\* What the bodies say is so.
BodiesAreTrue ==
  /\ shown \in [Requests -> [Bodies -> Shown]]
  /\ \A r \in Requests, body \in Bodies : Says(AttemptOf[r], shown[r][body])

GInv == Tied /\ MakerExecuted /\ ExecutedMade /\ BodiesAreTrue

\* The initial state satisfies the invariant.
LEMMA GInvInit == GatewayInit => GInv
BY DEF GatewayInit, Init, D!Init, GInv, Tied, MakerExecuted, ExecutedMade, BodiesAreTrue,
       Says, Shown, Unsaid, D!Axes

\* Of the threads a step of process_attempt moves its own, on the attempt it is tied to.
LEMMA ProcessMoves ==
  ASSUME P!IInv, NEW r \in Requests, D!Process(r), thread[r] # "rejecting"
  PROVE  /\ thread[r] # "idle"
         /\ thread'[r] # "rejecting"
         /\ thread'[r] = "idle" \/ job'[r] = job[r]
         /\ \A s \in Requests \ {r} : thread'[s] = thread[s] /\ job'[s] = job[s]
BY DEF P!IInv, P!TypeOK, D!Process, D!Reject, D!ClaimSkip, D!ClaimAmbiguous, D!Claim,
       D!LoadDocument, D!Release, D!Authorise, D!WithoutGuid, D!CallProvider, D!ReadBack,
       D!Record, D!Leave

\* The commit starts the dispatch of the request's attempt.
LEMMA ActMoves ==
  ASSUME P!IInv, Tied, NEW r \in Requests, AttemptOf[r] \in D!Attempts, Act(r, AttemptOf[r])
  PROVE  /\ thread'[r] = "dispatch" /\ job'[r] = AttemptOf[r]
         /\ \A s \in Requests \ {r} : thread'[s] = thread[s] /\ job'[s] = job[s]
BY DEF Act, P!IInv, P!TypeOK, Tied, D!CreateOutbound, D!AddPayment, D!Redrive, D!Reject,
       D!Take

\* Every step of the gateway keeps threads tied to their requests.
LEMMA TiedStep ==
  ASSUME IInv, P!IInv, Tied, [GatewayNext]_gatewayVars
  PROVE  Tied'
<1> USE DEF Tied
<1>1. CASE UNCHANGED <<pc, thread, job>>
  BY <1>1
<1>2. ASSUME NEW r \in Requests, Enter(r) PROVE Tied'
  BY <1>2 DEF Enter, Arrive, Goto, D!LoadForReject, D!Take, D!Attempts, dispatchVars, IInv,
       Types, P!IInv, P!TypeOK
<1>3. ASSUME NEW r \in Requests, TakeKey(r) PROVE Tied'
  BY <1>3 DEF TakeKey, Insert, Duplicate, Goto, dispatchVars, IInv, Types
<1>4. ASSUME NEW r \in Requests, NotOwned(r) \/ Die(r) PROVE Tied'
  BY <1>4 DEF NotOwned, Die, Replay, Fail, Crash, Reply, Goto, D!Abandon, D!Crash, D!Leave,
       dispatchVars, IInv, Types, P!IInv, P!TypeOK
<1>5. ASSUME NEW r \in Requests, Plain(r) PROVE Tied'
  BY <1>5, GatewayAssumption, SameAssumption
     DEF Plain, Finish, Reply, Goto, dispatchVars, IInv, Types, P!AttemptAssumption,
         P!Attempts, D!Attempts
<1>6. ASSUME NEW r \in Requests, Commit(r) PROVE Tied'
  <2>1. AttemptOf[r] \in D!Attempts
    BY <1>6, GatewayAssumption DEF Commit, Publish
  <2> QED
    BY <1>6, <2>1, ActMoves DEF Commit, Publish, Goto, IInv, Types
<1>7. ASSUME NEW r \in Requests, Work(r) PROVE Tied'
  BY <1>7, ProcessMoves DEF Work, vars
<1>8. ASSUME NEW r \in Requests, Reload(r) \/ Refresh(r) PROVE Tied'
  BY <1>8 DEF Reload, Refresh, Dispatch, Store, Reply, Goto, dispatchVars, IInv, Types
<1>9. CASE Environment
  BY <1>9 DEF Environment, vars, D!LeaseExpires, D!PutProvider, D!ChangeCredential
<1> QED
  BY <1>1, <1>2, <1>3, <1>4, <1>5, <1>6, <1>7, <1>8, <1>9
     DEF GatewayNext, gatewayVars, vars, dispatchVars, StatusRow

\* process_attempt makes no attempts.
LEMMA ProcessMakesNone ==
  ASSUME P!IInv, NEW r \in Requests, D!Process(r), thread[r] # "rejecting",
         NEW a \in D!Attempts, status[a] = "ABSENT"
  PROVE  status'[a] = "ABSENT"
<1>1. thread[r] \in {"dispatch", "claimed", "read", "recording"} => status[job[r]] # "ABSENT"
  BY DEF P!IInv, P!DriverIntent, P!DriverKnows
<1> QED
  BY <1>1 DEF P!IInv, P!TypeOK, D!Process, D!Reject, D!ClaimSkip, D!ClaimAmbiguous, D!Claim,
       D!LoadDocument, D!Release, D!Authorise, D!WithoutGuid, D!CallProvider, D!ReadBack,
       D!Record, D!attemptVars, D!Attempts, P!Attempts

\* Only the commit of a writing request makes an attempt.
LEMMA OnlyCommitMakes ==
  ASSUME P!IInv, Tied, [GatewayNext]_gatewayVars, \A r \in Requests : ~Commit(r),
         NEW a \in D!Attempts, status[a] = "ABSENT"
  PROVE  status'[a] = "ABSENT" /\ maker' = maker
<1>1. ASSUME NEW r \in Requests, Work(r) PROVE status'[a] = "ABSENT" /\ maker' = maker
  BY <1>1, ProcessMakesNone DEF Work, history, Tied
<1> QED
  BY <1>1 DEF GatewayNext, gatewayVars, history, dispatchVars, Enter, TakeKey, NotOwned,
       Plain, Reload, Refresh, Die, Environment, StatusRow, D!LoadForReject, D!Abandon, D!Crash,
       D!LeaseExpires, D!PutProvider, D!ChangeCredential, D!attemptVars

\* The commit makes the attempt of its request, unless it is there.
LEMMA CommitMakes ==
  ASSUME P!IInv, Tied, NEW r \in Requests, Commit(r)
  PROVE  /\ AttemptOf[r] \in D!Attempts /\ status'[AttemptOf[r]] # "ABSENT"
         /\ \A a \in D!Attempts \ {AttemptOf[r]} : status'[a] = status[a]
<1>1. AttemptOf[r] \in D!Attempts
  BY GatewayAssumption DEF Commit, Publish
<1> QED
  BY <1>1 DEF Commit, Act, D!CreateOutbound, D!AddPayment, D!Redrive, D!Reject,
       D!CreateAttempt, D!attemptVars, Tied, P!IInv, P!TypeOK, D!Attempts, P!Attempts

\* Every step of the gateway leaves each attempt with the request that made it.
LEMMA MakerStep ==
  ASSUME P!IInv, Tied, MakerExecuted, [GatewayNext]_gatewayVars
  PROVE  MakerExecuted'
<1>1. executed \subseteq executed'
  BY KeyStep DEF Next, Serve, Arrive, Insert, Duplicate, Replay, Fail, Finish, Publish,
       Dispatch, Store, Crash, vars
<1>2. \A a \in D!Attempts : status[a] # "ABSENT" => status'[a] # "ABSENT"
  BY SameAssumption, SameEnvironment, DispatchStep, P!OnwardStep DEF P!Onward
<1>3. CASE \A r \in Requests : ~Commit(r)
  <2>1. maker' = maker
    BY <1>3 DEF GatewayNext, gatewayVars, history, Enter, TakeKey, NotOwned, Plain, Work,
         Reload, Refresh, Die, Environment, StatusRow
  <2> QED
    BY <1>1, <1>2, <1>3, <2>1, OnlyCommitMakes DEF MakerExecuted
<1>4. ASSUME NEW r \in Requests, Commit(r) PROVE MakerExecuted'
  <2>1. r \in executed'
    BY <1>4 DEF Commit, Publish
  <2>2. /\ maker' = IF status[AttemptOf[r]] = "ABSENT"
                    THEN [maker EXCEPT ![AttemptOf[r]] = r] ELSE maker
        /\ NoRequest \notin Requests
    BY <1>4, RequestAssumption DEF Commit
  <2> QED
    BY <1>1, <1>4, <2>1, <2>2, CommitMakes DEF MakerExecuted
<1> QED
  BY <1>3, <1>4

\* Every step of the gateway leaves whoever executed with an attempt.
LEMMA ExecutedStep ==
  ASSUME IInv, P!IInv, Tied, ExecutedMade, [GatewayNext]_gatewayVars
  PROVE  ExecutedMade'
<1> SUFFICES ASSUME NEW s \in executed', AttemptOf[s] # NoAttempt
             PROVE  status'[AttemptOf[s]] # "ABSENT"
  BY DEF ExecutedMade
<1>1. CASE s \in executed
  <2>1. AttemptOf[s] \in D!Attempts /\ status[AttemptOf[s]] # "ABSENT"
    BY <1>1, GatewayAssumption DEF ExecutedMade, IInv, Types
  <2> QED
    BY <2>1, SameAssumption, SameEnvironment, DispatchStep, P!OnwardStep DEF P!Onward
<1>2. ASSUME NEW r \in Requests, Commit(r), s \notin executed
      PROVE  status'[AttemptOf[s]] # "ABSENT"
  <2>1. s = r
    BY <1>2 DEF Commit, Publish
  <2> QED
    BY <1>2, <2>1, CommitMakes
<1>3. ASSUME NEW r \in Requests, Plain(r), s \notin executed PROVE FALSE
  <2>1. s = r /\ PayloadOf[r] \notin Dispatched
    BY <1>3 DEF Plain, Finish
  <2> QED
    BY <2>1, GatewayAssumption
<1> QED
  BY <1>1, <1>2, <1>3
     DEF GatewayNext, gatewayVars, vars, Enter, Arrive, TakeKey, Insert, Duplicate, NotOwned,
         Replay, Fail, Work, Reload, Dispatch, Refresh, Store, Die, Crash, Environment,
         StatusRow

----
(* What the bodies say.                                                    *)

\* A status row was written to sent documents whose guid was recorded.
ListedTaken ==
  /\ listed \in [Documents -> Listings \cup {"none"}]
  /\ \A d \in Documents : listed[d] # "none" => d \in P!Outbound /\ guid[d]

\* It remains so, because a guid stays.
LEMMA ListedHolds == GatewaySpec => []ListedTaken
<1>1. GatewayInit => ListedTaken
  BY DEF GatewayInit, ListedTaken
<1>2. P!IInv /\ ListedTaken /\ [GatewayNext]_gatewayVars => ListedTaken'
  <2> SUFFICES ASSUME P!IInv, ListedTaken, [GatewayNext]_gatewayVars PROVE ListedTaken'
    OBVIOUS
  <2>1. \A d \in Documents : guid[d] => guid'[d]
    BY DispatchStep, SameAssumption, P!GuidStays
  <2>2. CASE listed' = listed
    BY <2>1, <2>2 DEF ListedTaken
  <2>3. ASSUME NEW d \in Documents, StatusRow(d) PROVE ListedTaken'
    BY <2>1, <2>3 DEF ListedTaken, StatusRow, D!Outbound, P!Outbound
  <2> QED
    BY <2>2, <2>3 DEF GatewayNext, gatewayVars, Enter, TakeKey, NotOwned, Plain, Commit, Work,
       Reload, Refresh, Die, Environment
<1> QED
  BY <1>1, <1>2, GatewayDispatches, SameAssumption, P!Invariance, PTL DEF GatewaySpec

\* What a body would show now is so.
ColumnsAreTrue == \A a \in D!Attempts : BodyOf(a) \in Shown /\ Says(a, BodyOf(a))

\* The properties of the dispatcher make it so.
LEMMA ColumnsTell ==
  P!IInv /\ P!AxisAgrees /\ P!ResultIsTrue /\ P!RejectionTaken /\ ListedTaken => ColumnsAreTrue
<1> SUFFICES ASSUME P!IInv, P!AxisAgrees, P!ResultIsTrue, P!RejectionTaken, ListedTaken,
                    NEW a \in D!Attempts
             PROVE  BodyOf(a) \in Shown /\ Says(a, BodyOf(a))
  BY DEF ColumnsAreTrue
<1> DEFINE d == DocumentOf[a]
<1>1. d \in Documents /\ a \in P!Attempts
  BY SameAssumption, SameEnvironment DEF P!AttemptAssumption
<1>2. Column(a) \in D!Axes \cup Listings /\ guid[d] \in BOOLEAN
  BY <1>1 DEF Column, ListedTaken, P!IInv, P!TypeOK, P!Axes, D!Axes
<1>3. BodyOf(a) \in Shown
  BY <1>2 DEF BodyOf, Shown
<1>4. CASE a \in SendAttempts
  <2>1. a \notin RejectAttempts /\ a \notin PaymentAttempts
    BY <1>4, SameAssumption DEF P!AttemptAssumption
  <2>2. /\ Column(a) = IF listed[d] = "none" THEN axis[d] ELSE listed[d]
        /\ BodyOf(a) = [says |-> Column(a), guid |-> guid[d]]
    BY <1>2, <1>4, <2>1 DEF Column, BodyOf
  <2>3. /\ axis[d] = "SUBMITTED" => status[a] = "COMPLETED"
        /\ axis[d] = "FAILED" => status[a] = "FAILED"
        /\ guid[d] => status[a] = "COMPLETED"
    BY <1>4 DEF P!AxisAgrees
  <2>4. listed[d] # "none" => guid[d]
    BY <1>1 DEF ListedTaken
  <2>5. status[a] = "COMPLETED" => accepted[a]
    BY <1>1 DEF P!ResultIsTrue
  <2> QED
    BY <1>3, <2>1, <2>2, <2>3, <2>4, <2>5 DEF Says
<1>5. CASE a \in PaymentAttempts
  <2>1. Column(a) = fiscalization[a] /\ a \notin RejectAttempts \cup SendAttempts
    BY <1>5, SameAssumption DEF Column, P!AttemptAssumption
  <2>2. fiscalization[a] = "FAILED" => status[a] = "FAILED"
    BY <1>5 DEF P!AxisAgrees
  <2> QED
    BY <1>3, <2>1, <2>2 DEF Says, BodyOf
<1>6. CASE a \in RejectAttempts
  <2>1. a \notin SendAttempts \cup PaymentAttempts /\ d \notin P!Outbound
    BY <1>6, SameAssumption DEF P!AttemptAssumption, P!Outbound
  <2>2. Column(a) = axis[d]
    BY <1>1, <2>1 DEF Column, ListedTaken
  <2> QED
    BY <1>3, <1>6, <2>1, <2>2 DEF Says, BodyOf, P!RejectionTaken
<1> QED
  BY <1>4, <1>5, <1>6 DEF D!Attempts

\* What was said of an attempt remains so.
LEMMA SaysStays ==
  ASSUME P!IInv, [GatewayNext]_gatewayVars, NEW r \in Requests, NEW body \in Bodies,
         Says(AttemptOf[r], shown[r][body]), shown'[r][body] = shown[r][body]
  PROVE  Says(AttemptOf[r], shown[r][body])'
<1>1. \A a \in P!Attempts : P!Onward(a)
  BY SameAssumption, DispatchStep, P!OnwardStep
<1> QED
  BY <1>1 DEF Says, P!Onward, P!Attempts

\* Every step of the gateway keeps the bodies true.
LEMMA BodiesStep ==
  ASSUME P!IInv, Tied, BodiesAreTrue, ColumnsAreTrue, ColumnsAreTrue',
         [GatewayNext]_gatewayVars
  PROVE  BodiesAreTrue'
<1>1. CASE shown' = shown
  BY <1>1, SaysStays DEF BodiesAreTrue
<1>2. ASSUME NEW r \in Requests, Commit(r) PROVE BodiesAreTrue'
  <2>1. AttemptOf[r] \in D!Attempts
    BY <1>2, CommitMakes
  <2> DEFINE says ==
        IF AttemptOf[r] \in RejectAttempts THEN [says |-> "PENDING", guid |-> FALSE]
        ELSE BodyOf(AttemptOf[r])'
  <2>2. shown' = [shown EXCEPT ![r]["initial"] = says]
    BY <1>2 DEF Commit
  <2>3. says \in Shown /\ Says(AttemptOf[r], BodyOf(AttemptOf[r]))'
    BY <2>1 DEF ColumnsAreTrue, Shown, D!Axes
  <2> HIDE DEF says
  <2>4. /\ shown' \in [Requests -> [Bodies -> Shown]]
        /\ shown'[r]["initial"] = says
        /\ \A s \in Requests, body \in Bodies :
             <<s, body>> # <<r, "initial">> => shown'[s][body] = shown[s][body]
    BY <2>2, <2>3 DEF BodiesAreTrue, Bodies
  <2>5. Says(AttemptOf[r], shown[r]["initial"])'
    BY <2>1, <2>3, <2>4, SameAssumption
       DEF says, Says, P!AttemptAssumption
  <2> QED
    BY <2>4, <2>5, SaysStays DEF BodiesAreTrue
<1>3. ASSUME NEW r \in Requests, Reload(r) PROVE BodiesAreTrue'
  <2>1. AttemptOf[r] \in D!Attempts
    BY <1>3 DEF Reload, Dispatch, Tied
  <2> DEFINE says == BodyOf(AttemptOf[r])
  <2>2. shown' = [shown EXCEPT ![r]["final"] = says] /\ UNCHANGED <<accepted, status>>
    BY <1>3 DEF Reload, dispatchVars
  <2>3. says \in Shown /\ Says(AttemptOf[r], says)
    BY <2>1 DEF ColumnsAreTrue
  <2> HIDE DEF says
  <2>4. /\ shown' \in [Requests -> [Bodies -> Shown]]
        /\ shown'[r]["final"] = says
        /\ \A s \in Requests, body \in Bodies :
             <<s, body>> # <<r, "final">> => shown'[s][body] = shown[s][body]
    BY <2>2, <2>3 DEF BodiesAreTrue, Bodies
  <2>5. Says(AttemptOf[r], shown[r]["final"])'
    BY <2>2, <2>3, <2>4 DEF Says
  <2> QED
    BY <2>4, <2>5, SaysStays DEF BodiesAreTrue
<1> QED
  BY <1>1, <1>2, <1>3 DEF GatewayNext, gatewayVars, history, Enter, TakeKey, NotOwned, Plain,
     Work, Refresh, Die, Environment, StatusRow

\* Of the whole hold the invariants of its parts.
LEMMA PartsHold == GatewaySpec => []IInv /\ []P!IInv /\ []ColumnsAreTrue
BY GatewayKeys, GatewayDispatches, Invariance, SameAssumption, P!Invariance,
   P!DocumentsAgree, P!ReportsAreTrue, P!RejectionsAreTrue, ListedHolds, ColumnsTell, PTL

\* The inductive invariant of a writing request: threads are tied to their requests, an
\* attempt to the request that made it, and the bodies say what is so.
THEOREM GatewayInvariance == GatewaySpec => []GInv
<1>1. IInv /\ P!IInv /\ GInv /\ ColumnsAreTrue /\ ColumnsAreTrue' /\ [GatewayNext]_gatewayVars
        => GInv'
  BY TiedStep, MakerStep, ExecutedStep, BodiesStep DEF GInv
<1> QED
  BY <1>1, GInvInit, PartsHold, PTL DEF GatewaySpec

\* Nothing can be sent to a provider that a retry under an Idempotency-Key would not find,
\* and no key answers for an attempt that is not there.
THEOREM AttemptsAreKeyed == GatewaySpec => []AttemptsHaveKeys
<1>1. IInv /\ GInv => AttemptsHaveKeys
  <2> SUFFICES ASSUME IInv, GInv, NEW a \in D!Attempts
               PROVE  status[a] # "ABSENT" <=>
                        \E k \in Keys : row[k] # NoRow /\ AttemptOf[row[k].by] = a
    BY DEF AttemptsHaveKeys
  <2>1. ASSUME status[a] # "ABSENT"
        PROVE  \E k \in Keys : row[k] # NoRow /\ AttemptOf[row[k].by] = a
    <3>1. maker[a] \in executed /\ AttemptOf[maker[a]] = a
      BY <2>1 DEF GInv, MakerExecuted
    <3>2. KeyOf[maker[a]] \in Keys /\ row[KeyOf[maker[a]]].by = maker[a]
      BY <3>1 DEF IInv, Types, KeyMeansEffect
    <3> QED
      BY <3>1, <3>2 DEF IInv, Types, NoRow
  <2>2. ASSUME NEW k \in Keys, row[k] # NoRow, AttemptOf[row[k].by] = a
        PROVE  status[a] # "ABSENT"
    BY <2>2, SameAssumption, SameEnvironment
       DEF IInv, KeyMeansEffect, GInv, ExecutedMade, P!AttemptAssumption
  <2> QED
    BY <2>1, <2>2
<1> QED
  BY <1>1, PartsHold, GatewayInvariance, PTL

\* Whatever body a client is given, its own or a replayed one, fresh or stale: SUBMITTED or
\* a guid means that the provider took the message, FAILED without a guid that it did not
\* and never will.
THEOREM AnswersTellTheTruth == GatewaySpec => []AnswersAreTrue
<1>1. IInv /\ P!ResultIsTrue /\ GInv => AnswersAreTrue
  <2> SUFFICES ASSUME IInv, P!ResultIsTrue, GInv, NEW r \in Requests, answer[r].kind = "ok"
               PROVE  LET e == answer[r].by
                          a == AttemptOf[e]
                          body == shown[e][answer[r].body]
                      IN
                      /\ a \in SendAttempts /\ (body.guid \/ body.says = "SUBMITTED") =>
                           accepted[a]
                      /\ a \in SendAttempts \cup PaymentAttempts /\ body.says = "FAILED"
                           /\ ~body.guid => ~accepted[a]
                      /\ a \in RejectAttempts /\ body.says = "SUBMITTED" =>
                           \E b \in RejectAttempts :
                             DocumentOf[b] = DocumentOf[a] /\ accepted[b]
    BY DEF AnswersAreTrue
  <2>1. answer[r].by \in Requests /\ answer[r].body \in Bodies
    BY DEF IInv, Types, Answers
  <2>2. Says(AttemptOf[answer[r].by], shown[answer[r].by][answer[r].body])
    BY <2>1 DEF GInv, BodiesAreTrue
  <2> QED
    BY <2>2 DEF Says, P!ResultIsTrue, P!Attempts
<1> QED
  BY <1>1, PartsHold, GatewayInvariance, GatewayDispatches, SameAssumption,
     P!ReportsAreTrue, PTL

----
(* Refinement: under a key, the promise of Delivery.                       *)

\* A key and the attempt made under it determine each other.
MadeOnce ==
  /\ \A k \in Keys : Made(k) =>
       /\ Attempt(k) \in D!Attempts /\ status[Attempt(k)] # "ABSENT"
       /\ KeyOf[maker[Attempt(k)]] = k
  /\ \A a \in D!Attempts : status[a] # "ABSENT" =>
       \E k \in Keys : k = KeyOf[maker[a]] /\ Made(k) /\ Attempt(k) = a

\* The invariants make it so.
LEMMA MadeIsOnce == IInv /\ GInv => MadeOnce
<1> SUFFICES ASSUME IInv, GInv PROVE MadeOnce
  OBVIOUS
<1>1. ASSUME NEW k \in Keys, Made(k)
      PROVE  /\ Attempt(k) \in D!Attempts /\ status[Attempt(k)] # "ABSENT"
             /\ KeyOf[maker[Attempt(k)]] = k
  <2>1. row[k].by \in executed /\ row[k].by \in Requests /\ KeyOf[row[k].by] = k
    BY <1>1 DEF Made, IInv, Types, KeyMeansEffect
  <2>2. Attempt(k) \in D!Attempts
    BY <1>1, <2>1, GatewayAssumption DEF Made, Attempt
  <2> QED
    BY <1>1, <2>1, <2>2 DEF Made, GInv, MakerExecuted
<1>2. ASSUME NEW a \in D!Attempts, status[a] # "ABSENT"
      PROVE  \E k \in Keys : k = KeyOf[maker[a]] /\ Made(k) /\ Attempt(k) = a
  <2>1. maker[a] \in executed /\ maker[a] \in Requests /\ AttemptOf[maker[a]] = a
    BY <1>2 DEF GInv, MakerExecuted, IInv, Types
  <2>2. KeyOf[maker[a]] \in Keys /\ row[KeyOf[maker[a]]].by = maker[a]
    BY <2>1 DEF IInv, KeyMeansEffect
  <2>3. a # NoAttempt
    BY SameAssumption, SameEnvironment DEF P!AttemptAssumption
  <2> QED
    BY <2>1, <2>2, <2>3 DEF Made, Attempt, NoRow
<1> QED
  BY <1>1, <1>2 DEF MadeOnce

\* What is promised under a key is what the dispatcher promises of its attempt.
KeysMapped ==
  /\ keyStage = [k \in Keys |-> IF Made(k) THEN P!handStage[Attempt(k)] ELSE "none"]
  /\ keyTaken = [k \in Keys |-> IF Made(k) THEN accepted[Attempt(k)] ELSE FALSE]
  /\ keyReport = [k \in Keys |-> IF Made(k) THEN P!reported[Attempt(k)] ELSE "open"]

\* The refinement mapping of the gateway goes by way of the dispatcher's.
LEMMA KeysAreMapped == P!IInv /\ MadeOnce => KeysMapped
<1> SUFFICES ASSUME P!IInv, MadeOnce PROVE KeysMapped
  OBVIOUS
<1>1. ASSUME NEW k \in Keys, Made(k)
      PROVE  /\ Attempt(k) \in P!Attempts /\ status[Attempt(k)] # "ABSENT"
             /\ accepted[Attempt(k)] \in BOOLEAN
  BY <1>1, SameEnvironment DEF MadeOnce, P!IInv, P!TypeOK
<1>2. keyStage = [k \in Keys |-> IF Made(k) THEN P!handStage[Attempt(k)] ELSE "none"]
  BY <1>1 DEF keyStage, P!handStage
<1>3. keyTaken = [k \in Keys |-> IF Made(k) THEN accepted[Attempt(k)] ELSE FALSE]
  BY <1>1, Zenon DEF keyTaken
<1>4. keyReport = [k \in Keys |-> IF Made(k) THEN P!reported[Attempt(k)] ELSE "open"]
  BY <1>1 DEF keyReport, P!reported, P!Terminal, D!Terminal
<1> QED
  BY <1>2, <1>3, <1>4 DEF KeysMapped

\* A key keeps the attempt that was made under it.
LEMMA MadeStays ==
  ASSUME IInv, IInv', GInv, [GatewayNext]_gatewayVars, NEW k \in Keys, Made(k)
  PROVE  Made(k)' /\ Attempt(k)' = Attempt(k)
<1>1. row[k].by \in executed /\ row[k].by \in Requests /\ KeyOf[row[k].by] = k
  BY DEF Made, IInv, Types, KeyMeansEffect
<1>2. executed \subseteq executed'
  BY KeyStep DEF Next, Serve, Arrive, Insert, Duplicate, Replay, Fail, Finish, Publish,
       Dispatch, Store, Crash, vars
<1>3. row'[k].by = row[k].by /\ row'[k] # NoRow
  BY <1>1, <1>2 DEF IInv, KeyMeansEffect, NoRow
<1>4. Attempt(k)' = Attempt(k)
  BY <1>3 DEF Attempt
<1>5. Attempt(k) \in D!Attempts /\ status[Attempt(k)] # "ABSENT"
  BY MadeIsOnce DEF MadeOnce
<1>6. maker'[Attempt(k)] = maker[Attempt(k)]
  BY <1>5 DEF GatewayNext, gatewayVars, history, Enter, TakeKey, NotOwned, Plain, Commit,
       Work, Reload, Refresh, Die, Environment, StatusRow, GInv, MakerExecuted
<1> QED
  BY <1>3, <1>4, <1>6 DEF Made

\* A step of the dispatcher on one attempt is seen under the key of that attempt alone.
LEMMA KeyLift ==
  ASSUME IInv, IInv', GInv, MadeOnce, MadeOnce', KeysMapped, KeysMapped', P!IInv,
         [GatewayNext]_gatewayVars, NEW a \in D!Attempts, status'[a] # "ABSENT",
         \A b \in D!Attempts \ {a} :
           /\ P!handStage'[b] = P!handStage[b] /\ P!reported'[b] = P!reported[b]
           /\ accepted'[b] = accepted[b]
  PROVE  \E k \in Keys :
           /\ keyStage[k] = P!handStage[a] /\ keyTaken[k] = accepted[a]
           /\ keyReport[k] = P!reported[a]
           /\ keyStage' = [keyStage EXCEPT ![k] = P!handStage'[a]]
           /\ keyTaken' = [keyTaken EXCEPT ![k] = accepted'[a]]
           /\ keyReport' = [keyReport EXCEPT ![k] = P!reported'[a]]
<1>1. PICK k \in Keys : k = KeyOf[maker'[a]] /\ Made(k)' /\ Attempt(k)' = a
  BY DEF MadeOnce
<1>2. ASSUME NEW j \in Keys, NEW b \in D!Attempts, Made(j)', Attempt(j)' = b,
             status[b] # "ABSENT"
      PROVE  Made(j) /\ Attempt(j) = b
  <2>1. PICK i \in Keys : Made(i) /\ Attempt(i) = b
    BY <1>2 DEF MadeOnce
  <2>2. Made(i)' /\ Attempt(i)' = b
    BY <2>1, MadeStays
  <2>3. i = KeyOf[maker'[b]] /\ j = KeyOf[maker'[b]]
    BY <1>2, <2>2 DEF MadeOnce
  <2> QED
    BY <2>1, <2>3
<1>3. \A b \in D!Attempts :
        /\ P!handStage[b] = "none" <=> status[b] = "ABSENT"
        /\ P!handStage'[b] = "none" <=> status'[b] = "ABSENT"
  BY SameEnvironment DEF P!handStage
<1>4. \A b \in D!Attempts : status[b] = "ABSENT" => P!reported[b] = "open" /\ ~accepted[b]
  BY SameEnvironment DEF P!reported, P!Terminal, P!IInv, P!Unsent, P!Intended
<1>5. (accepted[a] = FALSE) <=> ~accepted[a]
  BY SameEnvironment, Zenon DEF P!IInv, P!TypeOK
<1>6. /\ keyStage[k] = P!handStage[a] /\ keyTaken[k] = accepted[a]
      /\ keyReport[k] = P!reported[a]
  <2>1. CASE status[a] # "ABSENT"
    BY <1>1, <1>2, <2>1 DEF KeysMapped
  <2>2. CASE status[a] = "ABSENT"
    <3>1. ~Made(k)
      BY <1>1, <2>2, MadeStays DEF MadeOnce
    <3> QED
      BY <1>3, <1>4, <1>5, <2>2, <3>1 DEF KeysMapped
  <2> QED
    BY <2>1, <2>2
<1>7. /\ keyStage'[k] = P!handStage'[a] /\ keyTaken'[k] = accepted'[a]
      /\ keyReport'[k] = P!reported'[a]
  BY <1>1 DEF KeysMapped
<1>8. ASSUME NEW j \in Keys \ {k}
      PROVE  /\ keyStage'[j] = keyStage[j] /\ keyTaken'[j] = keyTaken[j]
             /\ keyReport'[j] = keyReport[j]
  <2>1. CASE Made(j)
    <3>1. PICK b \in D!Attempts : b = Attempt(j) /\ Made(j)' /\ Attempt(j)' = b
      BY <2>1, MadeStays DEF MadeOnce
    <3>2. b # a
      BY <1>1, <1>8, <3>1 DEF MadeOnce
    <3> QED
      BY <2>1, <3>1, <3>2 DEF KeysMapped
  <2>2. CASE ~Made(j) /\ Made(j)'
    <3>1. PICK b \in D!Attempts : b = Attempt(j)' /\ status'[b] # "ABSENT"
      BY <2>2 DEF MadeOnce
    <3>2. b # a
      BY <1>1, <1>8, <2>2, <3>1 DEF MadeOnce
    <3>3. status[b] # "ABSENT"
      BY <1>3, <3>1, <3>2
    <3> QED
      BY <1>2, <2>2, <3>1, <3>3
  <2>3. CASE ~Made(j) /\ ~Made(j)'
    BY <2>3 DEF KeysMapped
  <2> QED
    BY <2>1, <2>2, <2>3
<1>9. /\ keyStage' = [keyStage EXCEPT ![k] = P!handStage'[a]]
      /\ keyTaken' = [keyTaken EXCEPT ![k] = accepted'[a]]
      /\ keyReport' = [keyReport EXCEPT ![k] = P!reported'[a]]
  <2>1. /\ keyStage = [j \in Keys |-> keyStage[j]]
        /\ keyTaken = [j \in Keys |-> keyTaken[j]]
        /\ keyReport = [j \in Keys |-> keyReport[j]]
    BY DEF KeysMapped
  <2>2. /\ keyStage' = [j \in Keys |-> keyStage'[j]]
        /\ keyTaken' = [j \in Keys |-> keyTaken'[j]]
        /\ keyReport' = [j \in Keys |-> keyReport'[j]]
    BY DEF KeysMapped
  <2> QED
    BY <1>7, <1>8, <2>1, <2>2, Zenon
<1> QED
  BY <1>6, <1>9

\* A step that the dispatcher's promise does not see is not seen under any key.
LEMMA KeyQuiet ==
  ASSUME IInv, IInv', GInv, MadeOnce, MadeOnce', KeysMapped, KeysMapped', P!IInv,
         [GatewayNext]_gatewayVars, UNCHANGED P!D!vars
  PROVE  UNCHANGED K!vars
<1>1. UNCHANGED <<P!handStage, accepted, P!reported>>
  BY DEF P!D!vars
<1>2. CASE \A a \in D!Attempts : status'[a] = "ABSENT"
  <2>1. \A k \in Keys : ~Made(k) /\ ~Made(k)'
    BY <1>2, MadeStays DEF MadeOnce
  <2> QED
    BY <2>1 DEF KeysMapped, K!vars
<1>3. ASSUME NEW a \in D!Attempts, status'[a] # "ABSENT" PROVE UNCHANGED K!vars
  <2>1. PICK k \in Keys :
          /\ keyStage[k] = P!handStage[a] /\ keyTaken[k] = accepted[a]
          /\ keyReport[k] = P!reported[a]
          /\ keyStage' = [keyStage EXCEPT ![k] = P!handStage'[a]]
          /\ keyTaken' = [keyTaken EXCEPT ![k] = accepted'[a]]
          /\ keyReport' = [keyReport EXCEPT ![k] = P!reported'[a]]
    BY <1>1, <1>3, KeyLift
  <2>2. /\ keyStage = [j \in Keys |-> keyStage[j]]
        /\ keyTaken = [j \in Keys |-> keyTaken[j]]
        /\ keyReport = [j \in Keys |-> keyReport[j]]
    BY DEF KeysMapped
  <2> QED
    BY <1>1, <2>1, <2>2 DEF K!vars
<1> QED
  BY <1>2, <1>3

\* A step of the dispatcher's promise for an attempt is the same step under its key.
LEMMA KeyDelivers ==
  ASSUME IInv, IInv', GInv, MadeOnce, MadeOnce', KeysMapped, KeysMapped', P!IInv, P!IInv',
         [GatewayNext]_gatewayVars, P!D!Next
  PROVE  K!Next
<1>1. PICK a \in D!Attempts :
        P!D!Create(a) \/ P!D!Hand(a) \/ \E r \in P!D!Reports \ {"open"} : P!D!Report(a, r)
  BY SameEnvironment DEF P!D!Next
<1>2. /\ P!handStage = [b \in D!Attempts |-> P!handStage[b]]
      /\ accepted = [b \in D!Attempts |-> accepted[b]]
      /\ P!reported = [b \in D!Attempts |-> P!reported[b]]
  BY SameEnvironment DEF P!handStage, P!reported, P!IInv, P!TypeOK
<1>3. \A b \in D!Attempts \ {a} :
        /\ P!handStage'[b] = P!handStage[b] /\ P!reported'[b] = P!reported[b]
        /\ accepted'[b] = accepted[b]
  BY <1>1, <1>2 DEF P!D!Create, P!D!Hand, P!D!Report
<1>4. P!handStage'[a] # "none"
  BY <1>1, <1>2 DEF P!D!Create, P!D!Hand, P!D!Report
<1>5. status'[a] # "ABSENT"
  BY <1>4, SameEnvironment DEF P!handStage
<1>6. PICK k \in Keys :
        /\ keyStage[k] = P!handStage[a] /\ keyTaken[k] = accepted[a]
        /\ keyReport[k] = P!reported[a]
        /\ keyStage' = [keyStage EXCEPT ![k] = P!handStage'[a]]
        /\ keyTaken' = [keyTaken EXCEPT ![k] = accepted'[a]]
        /\ keyReport' = [keyReport EXCEPT ![k] = P!reported'[a]]
  BY <1>3, <1>5, KeyLift
<1>7. /\ keyStage = [j \in Keys |-> keyStage[j]]
      /\ keyTaken = [j \in Keys |-> keyTaken[j]]
      /\ keyReport = [j \in Keys |-> keyReport[j]]
  BY DEF KeysMapped
<1>8. CASE P!D!Create(a)
  <2>1. /\ keyStage[k] = "none" /\ keyStage' = [keyStage EXCEPT ![k] = "queued"]
        /\ UNCHANGED <<keyTaken, keyReport>>
    BY <1>2, <1>6, <1>7, <1>8 DEF P!D!Create
  <2> QED
    BY <2>1 DEF K!Next, K!Create
<1>9. CASE P!D!Hand(a)
  <2>1. /\ keyStage[k] = "queued" /\ K!Undecided(k)
        /\ keyStage' = [keyStage EXCEPT ![k] = "handed"]
        /\ UNCHANGED keyReport
    BY <1>2, <1>6, <1>7, <1>9 DEF P!D!Hand, P!D!Undecided, K!Undecided
  <2>2. accepted'[a] \in BOOLEAN
    BY SameEnvironment DEF P!IInv, P!TypeOK
  <2> QED
    BY <1>6, <2>1, <2>2 DEF K!Next, K!Hand
<1>10. ASSUME NEW r \in P!D!Reports \ {"open"}, P!D!Report(a, r) PROVE K!Next
  <2>1. keyStage[k] # "none" /\ K!Undecided(k) /\ UNCHANGED <<keyStage, keyTaken>>
    BY <1>2, <1>6, <1>7, <1>10 DEF P!D!Report, P!D!Undecided, K!Undecided
  <2>2. /\ r = "COMPLETED" => keyTaken[k]
        /\ r = "FAILED" => keyStage[k] = "handed" /\ ~keyTaken[k]
    BY <1>6, <1>10 DEF P!D!Report
  <2>3. keyReport' = [keyReport EXCEPT ![k] = r]
    BY <1>2, <1>6, <1>10 DEF P!D!Report
  <2> QED
    BY <2>1, <2>2, <2>3 DEF K!Next, K!Report, K!Reports, P!D!Reports
<1> QED
  BY <1>1, <1>8, <1>9, <1>10

\* Every run of the gateway is, seen by its keys, a run of the promise: one message at most
\* leaves under an Idempotency-Key, and the results reported of it are true and final.
THEOREM GatewayImplementsDelivery == GatewaySpec => KeysImplementDelivery
<1>1. GatewayInit => K!Init
  BY DEF GatewayInit, Init, K!Init, keyStage, keyTaken, keyReport, Made
<1>2. GatewaySpec => []MadeOnce /\ []KeysMapped
  BY MadeIsOnce, KeysAreMapped, PartsHold, GatewayInvariance, PTL
<1>3. /\ IInv /\ IInv' /\ GInv /\ MadeOnce /\ MadeOnce' /\ KeysMapped /\ KeysMapped'
      /\ P!IInv /\ P!IInv' /\ [GatewayNext]_gatewayVars
      => [K!Next]_(K!vars)
  BY KeyDelivers, KeyQuiet, SameAssumption, DispatchStep, P!DeliveryStep
<1> QED
  BY <1>1, <1>2, <1>3, PartsHold, GatewayInvariance, PTL
     DEF GatewaySpec, KeysImplementDelivery, K!Spec
=============================================================================
