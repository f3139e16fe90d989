--------------------------- MODULE DispatchProofs ---------------------------
(***************************************************************************)
(* Proofs about Dispatch, for any sets of threads, documents and attempts  *)
(* and any number of crashes.                                              *)
(*                                                                         *)
(* The argument for AtMostOneCall: two threads are never past the claim of *)
(* the same attempt (OneDriver), because the first claim holds the row's   *)
(* lock until the intent is committed and the intent is never withdrawn    *)
(* afterwards (DriverIntent).  A thread about to call has not called yet,  *)
(* and nobody else can have.                                               *)
(*                                                                         *)
(* AxisAgrees rests on a second invariant (Stories), proved relative to    *)
(* the first: which axis values go with which status of an attempt, and    *)
(* what the thread that drives the attempt has read of them.               *)
(***************************************************************************)
EXTENDS Dispatch, TLAPS

Driving(w) == pc[w] \in {"claimed", "read", "calling", "returned", "recording"}

OneDriver ==
  \A v, w \in Workers : Driving(v) /\ Driving(w) /\ job[v] = job[w] => v = w

\* Until the intent is committed nothing was called, and the status says so.
Unsent ==
  \A a \in Attempts :
    ~writeIntended[a] => calls[a] = 0 /\ ~accepted[a] /\ status[a] \in {"ABSENT", "PENDING"}

Intended ==
  \A a \in Attempts : writeIntended[a] => status[a] \notin {"ABSENT", "PENDING"}

\* What a thread knows about its attempt at each step.
DriverKnows(w) ==
  /\ pc[w] = "dispatch" => status[job[w]] # "ABSENT"
  /\ pc[w] \in {"claimed", "read"} =>
       ~writeIntended[job[w]] /\ status[job[w]] = "PENDING"
  /\ pc[w] \in {"calling", "returned", "recording"} =>
       writeIntended[job[w]] /\ status[job[w]] \in {"CLAIMED", "UNKNOWN"}
  /\ pc[w] = "calling" => calls[job[w]] = 0 /\ ~accepted[job[w]]
  /\ pc[w] \in {"returned", "recording"} =>
       /\ outcome[w] \in Outcomes
       /\ outcome[w] = "ok" => accepted[job[w]]
       /\ outcome[w] = "refused" => ~accepted[job[w]] /\ calls[job[w]] = 1

DriverIntent == \A w \in Workers : DriverKnows(w)

Truth ==
  \A a \in Attempts :
    /\ status[a] = "COMPLETED" => accepted[a]
    /\ status[a] = "FAILED" => ~accepted[a] /\ calls[a] = 1

IInv == TypeOK /\ OneDriver /\ Unsent /\ Intended /\ DriverIntent /\ Truth /\ AtMostOneCall

----
(* Type correctness.                                                       *)

USE AttemptAssumption

\* What a session reads of an attempt and its document is a snapshot.
LEMMA SnapshotType ==
  ASSUME TypeOK, NEW a \in Attempts
  PROVE  Snapshot(a) \in Snapshots
BY DEF TypeOK, Snapshot, Snapshots

\* A thread that leaves its attempt keeps its own variables well typed.
LEMMA LeaveType ==
  ASSUME TypeOK, NEW w \in Workers, Leave(w)
  PROVE  /\ pc' \in [Workers -> Steps]
         /\ job' \in [Workers -> Attempts \cup {NoAttempt}]
         /\ \A v \in Workers : /\ pc'[v] = "idle" <=> job'[v] = NoAttempt
                               /\ pc'[v] = "rejecting" => job'[v] \in RejectAttempts
         /\ seen' \in [Workers -> Snapshots]
         /\ outcome' \in [Workers -> Outcomes \cup {"none"}]
<1>1. NoSnapshot \in Snapshots
  BY DEF NoSnapshot, Snapshots, Statuses, Codes, Reasons, Axes, Terminal
<1>2. QED
  BY <1>1 DEF TypeOK, Leave, Steps

\* And so does a thread that takes one up.
LEMMA TakeType ==
  ASSUME TypeOK, NEW w \in Workers, NEW a \in Attempts, NEW step \in Steps,
         step # "idle", step = "rejecting" => a \in RejectAttempts, Take(w, a, step)
  PROVE  /\ pc' \in [Workers -> Steps]
         /\ job' \in [Workers -> Attempts \cup {NoAttempt}]
         /\ \A v \in Workers : /\ pc'[v] = "idle" <=> job'[v] = NoAttempt
                               /\ pc'[v] = "rejecting" => job'[v] \in RejectAttempts
BY DEF TypeOK, Take

\* Every step of the dispatcher preserves the types.
LEMMA TypeStep ==
  ASSUME TypeOK, Next
  PROVE  TypeOK'
<1> USE DEF TypeOK
<1>0. ASSUME NEW w \in Workers, NEW a \in Attempts, Take(w, a, "dispatch")
      PROVE  /\ pc' \in [Workers -> Steps]
             /\ job' \in [Workers -> Attempts \cup {NoAttempt}]
             /\ \A v \in Workers : /\ pc'[v] = "idle" <=> job'[v] = NoAttempt
                                   /\ pc'[v] = "rejecting" => job'[v] \in RejectAttempts
  BY <1>0, TakeType DEF Steps
<1>1. ASSUME NEW w \in Workers, NEW a \in SendAttempts, CreateOutbound(w, a)
      PROVE  TypeOK'
  <2>1. a \in Attempts /\ DocumentOf[a] \in Documents
    BY DEF Attempts
  <2>2. QED
    BY <1>0, <1>1, <2>1 DEF CreateOutbound, CreateAttempt, Statuses, Axes, settingVars,
         historyVars
<1>2. ASSUME NEW w \in Workers, NEW a \in PaymentAttempts, AddPayment(w, a)
      PROVE  TypeOK'
  <2>1. a \in Attempts
    BY DEF Attempts
  <2>2. QED
    BY <1>0, <1>2, <2>1 DEF AddPayment, CreateAttempt, Statuses, Axes, documentVars,
         settingVars, historyVars
<1>3. ASSUME NEW w \in Workers, NEW a \in SendAttempts \cup PaymentAttempts, Redrive(w, a)
      PROVE  TypeOK'
  <2>1. a \in Attempts
    BY DEF Attempts
  <2>2. QED
    BY <1>0, <1>3, <2>1 DEF Redrive, attemptVars, documentVars, settingVars, historyVars
<1>4. ASSUME NEW w \in Workers, NEW a \in RejectAttempts, LoadForReject(w, a)
      PROVE  TypeOK'
  <2>1. Snapshot(a) \in Snapshots
    BY SnapshotType DEF Attempts
  <2>2. a \in Attempts /\ "rejecting" \in Steps
    BY DEF Attempts, Steps
  <2>3. QED
    BY <1>4, <2>1, <2>2, TakeType DEF LoadForReject, attemptVars, documentVars,
         settingVars, historyVars
<1>5. ASSUME NEW w \in Workers, Crash(w) \/ Abandon(w) PROVE TypeOK'
  BY <1>5, LeaveType DEF Crash, Abandon, attemptVars, documentVars, settingVars, historyVars
<1>6. ASSUME NEW a \in Attempts, LeaseExpires(a) PROVE TypeOK'
  BY <1>6 DEF LeaseExpires, Leases, documentVars, settingVars, historyVars
<1>7. CASE PutProvider
  BY <1>7 DEF PutProvider, attemptVars, documentVars, historyVars
<1>8. ASSUME NEW d \in Documents, ChangeCredential(d) PROVE TypeOK'
  BY <1>8 DEF ChangeCredential, attemptVars, documentVars, historyVars
<1>9. ASSUME NEW w \in Workers, Process(w) PROVE TypeOK'
  <2> DEFINE a == job[w]
  <2>1. a \in Attempts /\ DocumentOf[a] \in Documents
    <3>1. pc[w] # "idle"
      BY <1>9 DEF Process, Reject, ClaimSkip, ClaimAmbiguous, Claim, LoadDocument, Release,
           Authorise, WithoutGuid, CallProvider, ReadBack, Record
    <3>2. QED
      BY <3>1
  <2>2. Snapshot(a) \in Snapshots /\ NoSnapshot \in Snapshots
    BY <2>1, SnapshotType
       DEF NoSnapshot, Snapshots, Statuses, Codes, Reasons, Axes, Terminal
  <2>3. seen[w] \in Snapshots
    OBVIOUS
  <2>4. CASE Reject(w)
    BY <2>1, <2>2, <2>4 DEF Reject, CreateAttempt, Flushed, Attempts, Statuses, Axes,
         Reasons, Codes, Steps, settingVars, historyVars
  <2>5. CASE ClaimSkip(w)
    BY <2>5, LeaveType DEF ClaimSkip, attemptVars, documentVars, settingVars, historyVars
  <2>6. CASE ClaimAmbiguous(w)
    BY <2>1, <2>6, LeaveType DEF ClaimAmbiguous, Statuses, Terminal, Codes,
         documentVars, settingVars, historyVars
  <2>7. CASE Claim(w)
    BY <2>1, <2>7 DEF Claim, Steps, attemptVars, documentVars, settingVars, historyVars
  <2>8. CASE LoadDocument(w)
    BY <2>1, <2>2, <2>8 DEF LoadDocument, Steps, attemptVars, documentVars, settingVars,
         historyVars
  <2>9. CASE Release(w)
    <3>1. Refusal(DocumentOf[a]) \in Reasons
      BY DEF Refusal, Reasons
    <3>2. QED
      BY <2>1, <2>9, <3>1, LeaveType DEF Release, Flushed, Statuses, Leases,
           settingVars, historyVars
  <2>10. CASE Authorise(w)
    BY <2>1, <2>10 DEF Authorise, Statuses, Leases, Steps, documentVars, settingVars,
         historyVars
  <2>11. CASE WithoutGuid(w)
    BY <2>1, <2>11 DEF WithoutGuid, Outcomes, Steps, attemptVars, documentVars,
         settingVars, historyVars
  <2>12. CASE CallProvider(w)
    BY <2>1, <2>12 DEF CallProvider, Outcomes, Steps, attemptVars, documentVars, settingVars
  <2>13. CASE ReadBack(w)
    BY <2>1, <2>2, <2>13 DEF ReadBack, Steps, attemptVars, documentVars, settingVars,
         historyVars
  <2>14. CASE Record(w)
    <3>1. \A o \in Outcomes \cup {"none"} :
            /\ FinalStatus(o) \in Statuses /\ FinalCode(o) \in Codes /\ FinalCode(o) \in Reasons
            /\ FinalAxis(o) \in Axes /\ FinalFiscalization(o) \in Axes
      BY DEF FinalStatus, FinalCode, FinalAxis, FinalFiscalization, Outcomes, Statuses,
           Terminal, Codes, Reasons, Axes
    <3>2. outcome[w] \in Outcomes \cup {"none"}
      OBVIOUS
    <3>3. QED
      BY <2>1, <2>14, <3>1, <3>2, LeaveType DEF Record, Flushed, Leases, settingVars,
           historyVars
  <2>15. QED
    BY <1>9, <2>4, <2>5, <2>6, <2>7, <2>8, <2>9, <2>10, <2>11, <2>12, <2>13, <2>14
       DEF Process
<1>10. QED
  BY <1>1, <1>2, <1>3, <1>4, <1>5, <1>6, <1>7, <1>8, <1>9 DEF Next, Request

\* The empty database is well typed.
LEMMA TypeInit == Init => TypeOK
<1> SUFFICES ASSUME Init PROVE TypeOK
  OBVIOUS
<1>1. NoSnapshot \in Snapshots
  BY DEF NoSnapshot, Snapshots, Statuses, Codes, Reasons, Axes, Terminal
<1>2. guid \in [Documents -> BOOLEAN]
  <2>1. \A d \in Documents : (d \notin Outbound) \in BOOLEAN
    OBVIOUS
  <2>2. QED
    BY <2>1, Zenon DEF Init
<1>3. axis \in [Documents -> Axes]
  BY DEF Init, Axes
<1>4. crashes \in 0..MaxCrashes
  BY DEF Init
<1>5. /\ status \in [Attempts -> Statuses] /\ writeIntended \in [Attempts -> BOOLEAN]
      /\ lease \in [Attempts -> Leases] /\ resultCode \in [Attempts -> Codes]
  BY DEF Init, Statuses, Leases, Codes
<1>6. /\ processing \in [Documents -> Reasons]
      /\ pending \in [Documents -> RejectAttempts \cup {NoAttempt}]
      /\ fiscalization \in [PaymentAttempts -> Axes]
      /\ disabled \in BOOLEAN /\ usable \in [Documents -> BOOLEAN]
  BY DEF Init, Reasons, Codes, Axes
<1>7. /\ pc \in [Workers -> Steps] /\ job \in [Workers -> Attempts \cup {NoAttempt}]
      /\ \A w \in Workers : pc[w] = "idle" /\ job[w] = NoAttempt
      /\ seen \in [Workers -> Snapshots] /\ outcome \in [Workers -> Outcomes \cup {"none"}]
  BY <1>1 DEF Init, Steps
<1>8. /\ calls \in [Attempts -> Nat] /\ accepted \in [Attempts -> BOOLEAN]
  BY DEF Init
<1>9. QED
  BY <1>2, <1>3, <1>4, <1>5, <1>6, <1>7, <1>8 DEF TypeOK

\* Every variable keeps its type, for any constants: the type invariant of the runs.
THEOREM TypeCorrect == Spec => []TypeOK
<1>1. TypeOK /\ UNCHANGED vars => TypeOK'
  BY DEF TypeOK, vars, attemptVars, documentVars, settingVars, historyVars
<1>2. QED
  BY <1>1, TypeInit, TypeStep, PTL DEF Spec

----
(* The inductive invariant.                                                *)

\* Without an attempt there is nobody to drive one.
LEMMA InvInit == Init => IInv
<1> SUFFICES ASSUME Init PROVE IInv
  OBVIOUS
<1>1. TypeOK
  BY TypeInit
<1>2. OneDriver /\ DriverIntent
  BY DEF Init, OneDriver, DriverIntent, DriverKnows, Driving
<1>3. Unsent /\ Intended /\ Truth /\ AtMostOneCall
  BY DEF Init, Unsent, Intended, Truth, AtMostOneCall
<1>4. QED
  BY <1>1, <1>2, <1>3 DEF IInv

\* Creating an attempt, or handing an existing one to an idle thread.
LEMMA InvRequest ==
  ASSUME IInv, NEW w \in Workers, Request(w)
  PROVE  IInv'
<1> USE DEF IInv
<1>1. TypeOK'
  BY TypeStep DEF Next
<1>2. ASSUME NEW a \in SendAttempts, CreateOutbound(w, a) PROVE IInv'
  <2>1. a \in Attempts
    BY DEF Attempts
  <2>2. Unsent' /\ Intended' /\ Truth' /\ AtMostOneCall'
    BY <1>2, <2>1 DEF CreateOutbound, CreateAttempt, historyVars, Unsent, Intended, Truth,
         AtMostOneCall, TypeOK
  <2>3. OneDriver' /\ DriverIntent'
    BY <1>2, <2>1 DEF CreateOutbound, CreateAttempt, Take, historyVars, OneDriver,
         DriverIntent, DriverKnows, Driving, TypeOK
  <2>4. QED
    BY <1>1, <2>2, <2>3
<1>3. ASSUME NEW a \in PaymentAttempts, AddPayment(w, a) PROVE IInv'
  <2>1. a \in Attempts
    BY DEF Attempts
  <2>2. Unsent' /\ Intended' /\ Truth' /\ AtMostOneCall'
    BY <1>3, <2>1 DEF AddPayment, CreateAttempt, historyVars, Unsent, Intended, Truth,
         AtMostOneCall, TypeOK
  <2>3. OneDriver' /\ DriverIntent'
    BY <1>3, <2>1 DEF AddPayment, CreateAttempt, Take, historyVars, OneDriver,
         DriverIntent, DriverKnows, Driving, TypeOK
  <2>4. QED
    BY <1>1, <2>2, <2>3
<1>4. ASSUME NEW a \in SendAttempts \cup PaymentAttempts, Redrive(w, a) PROVE IInv'
  <2>1. a \in Attempts
    BY DEF Attempts
  <2>2. Unsent' /\ Intended' /\ Truth' /\ AtMostOneCall'
    BY <1>4 DEF Redrive, attemptVars, historyVars, Unsent, Intended, Truth, AtMostOneCall
  <2>3. OneDriver' /\ DriverIntent'
    BY <1>4, <2>1 DEF Redrive, Take, attemptVars, historyVars, OneDriver, DriverIntent,
         DriverKnows, Driving, TypeOK
  <2>4. QED
    BY <1>1, <2>2, <2>3
<1>5. ASSUME NEW a \in RejectAttempts, LoadForReject(w, a) PROVE IInv'
  <2>1. a \in Attempts
    BY DEF Attempts
  <2>2. Unsent' /\ Intended' /\ Truth' /\ AtMostOneCall'
    BY <1>5 DEF LoadForReject, attemptVars, historyVars, Unsent, Intended, Truth,
         AtMostOneCall
  <2>3. OneDriver' /\ DriverIntent'
    BY <1>5, <2>1 DEF LoadForReject, Take, attemptVars, historyVars, OneDriver,
         DriverIntent, DriverKnows, Driving, TypeOK
  <2>4. QED
    BY <1>1, <2>2, <2>3
<1>6. QED
  BY <1>2, <1>3, <1>4, <1>5 DEF Request

\* A thread that leaves its attempt without touching the attempts table.
LEMMA InvLeave ==
  ASSUME IInv, TypeOK', NEW w \in Workers, Leave(w), UNCHANGED <<attemptVars, historyVars>>
  PROVE  IInv'
<1> USE DEF IInv, attemptVars, historyVars
<1>1. Unsent' /\ Intended' /\ Truth' /\ AtMostOneCall'
  BY DEF Unsent, Intended, Truth, AtMostOneCall
<1>2. OneDriver' /\ DriverIntent'
  BY DEF Leave, OneDriver, DriverIntent, DriverKnows, Driving, TypeOK
<1>3. QED
  BY <1>1, <1>2

\* process_attempt, one step per action.
LEMMA InvProcess ==
  ASSUME IInv, NEW w \in Workers, Process(w)
  PROVE  IInv'
<1> USE DEF IInv
<1> DEFINE a == job[w]
<1>1. TypeOK'
  BY TypeStep DEF Next
<1>2. a \in Attempts /\ pc[w] # "idle"
  BY DEF TypeOK, Process, Reject, ClaimSkip, ClaimAmbiguous, Claim, LoadDocument, Release,
       Authorise, WithoutGuid, CallProvider, ReadBack, Record
<1>3. CASE Reject(w)
  <2>1. Unsent' /\ Intended' /\ Truth' /\ AtMostOneCall'
    BY <1>2, <1>3 DEF Reject, CreateAttempt, historyVars, Unsent, Intended, Truth,
         AtMostOneCall, TypeOK
  <2>2. OneDriver' /\ DriverIntent'
    BY <1>2, <1>3 DEF Reject, CreateAttempt, historyVars, OneDriver, DriverIntent,
         DriverKnows, Driving, TypeOK
  <2>3. QED
    BY <1>1, <2>1, <2>2
<1>4. CASE ClaimSkip(w)
  BY <1>1, <1>4, InvLeave DEF ClaimSkip
<1>5. CASE ClaimAmbiguous(w)
  <2>1. \A v \in Workers : job[v] = a => pc[v] \notin {"claimed", "read"}
    BY <1>5 DEF ClaimAmbiguous, Locked
  <2>2. Unsent' /\ Intended' /\ Truth' /\ AtMostOneCall'
    BY <1>2, <1>5 DEF ClaimAmbiguous, historyVars, Unsent, Intended, Truth, AtMostOneCall,
         TypeOK
  <2>3. OneDriver' /\ DriverIntent'
    BY <1>2, <1>5, <2>1 DEF ClaimAmbiguous, Leave, historyVars, OneDriver, DriverIntent,
         DriverKnows, Driving, TypeOK
  <2>4. QED
    BY <1>1, <2>2, <2>3
<1>6. CASE Claim(w)
  <2>1. \A v \in Workers : job[v] = a => ~Driving(v)
    BY <1>6 DEF Claim, Locked, Driving, DriverIntent, DriverKnows
  <2>2. ~writeIntended[a] /\ status[a] = "PENDING"
    BY <1>2, <1>6 DEF Claim, Unsent, DriverIntent, DriverKnows
  <2>3. Unsent' /\ Intended' /\ Truth' /\ AtMostOneCall'
    BY <1>6 DEF Claim, attemptVars, historyVars, Unsent, Intended, Truth, AtMostOneCall
  <2>4. OneDriver' /\ DriverIntent'
    BY <1>2, <1>6, <2>1, <2>2 DEF Claim, attemptVars, historyVars, OneDriver,
         DriverIntent, DriverKnows, Driving, TypeOK
  <2>5. QED
    BY <1>1, <2>3, <2>4
<1>7. CASE LoadDocument(w)
  <2>1. Unsent' /\ Intended' /\ Truth' /\ AtMostOneCall'
    BY <1>7 DEF LoadDocument, attemptVars, historyVars, Unsent, Intended, Truth,
         AtMostOneCall
  <2>2. OneDriver' /\ DriverIntent'
    BY <1>2, <1>7 DEF LoadDocument, attemptVars, historyVars, OneDriver, DriverIntent,
         DriverKnows, Driving, TypeOK
  <2>3. QED
    BY <1>1, <2>1, <2>2
<1>8. CASE Release(w)
  <2>1. UNCHANGED <<status, writeIntended>>
    BY <1>2, <1>8 DEF Release, DriverIntent, DriverKnows, TypeOK
  <2>2. Unsent' /\ Intended' /\ Truth' /\ AtMostOneCall'
    BY <1>8, <2>1 DEF Release, historyVars, Unsent, Intended, Truth, AtMostOneCall
  <2>3. OneDriver' /\ DriverIntent'
    BY <1>2, <1>8, <2>1 DEF Release, Leave, historyVars, OneDriver, DriverIntent,
         DriverKnows, Driving, TypeOK
  <2>4. QED
    BY <1>1, <2>2, <2>3
<1>9. CASE Authorise(w)
  <2>1. calls[a] = 0 /\ ~accepted[a]
    BY <1>2, <1>9 DEF Authorise, DriverIntent, DriverKnows, Unsent
  <2>2. \A v \in Workers \ {w} : job[v] = a => ~Driving(v)
    BY <1>9 DEF Authorise, OneDriver, Driving
  <2>3. Unsent' /\ Intended' /\ Truth' /\ AtMostOneCall'
    BY <1>2, <1>9 DEF Authorise, historyVars, Unsent, Intended, Truth, AtMostOneCall, TypeOK
  <2>4. OneDriver'
    BY <1>2, <1>9 DEF Authorise, OneDriver, Driving, TypeOK
  <2>5. DriverIntent'
    BY <1>2, <1>9, <2>1, <2>2 DEF Authorise, historyVars, DriverIntent, DriverKnows,
         Driving, TypeOK
  <2>6. QED
    BY <1>1, <2>3, <2>4, <2>5
<1>10. CASE WithoutGuid(w)
  <2>1. Unsent' /\ Intended' /\ Truth' /\ AtMostOneCall'
    BY <1>10 DEF WithoutGuid, attemptVars, historyVars, Unsent, Intended, Truth,
         AtMostOneCall
  <2>2. OneDriver' /\ DriverIntent'
    BY <1>2, <1>10 DEF WithoutGuid, attemptVars, historyVars, OneDriver, DriverIntent,
         DriverKnows, Driving, TypeOK, Outcomes
  <2>3. QED
    BY <1>1, <2>1, <2>2
<1>11. CASE CallProvider(w)
  <2>1. calls[a] = 0 /\ ~accepted[a] /\ writeIntended[a] /\ status[a] \in {"CLAIMED", "UNKNOWN"}
    BY <1>11 DEF CallProvider, DriverIntent, DriverKnows
  <2>2. \A v \in Workers \ {w} : job[v] = a => ~Driving(v)
    BY <1>11 DEF CallProvider, OneDriver, Driving
  <2>3. /\ calls' = [calls EXCEPT ![a] = 1]
        /\ outcome'[w] \in Outcomes
        /\ outcome'[w] = "ok" => accepted'[a]
        /\ outcome'[w] = "refused" => ~accepted'[a]
        /\ \A b \in Attempts \ {a} : accepted'[b] = accepted[b]
        /\ \A v \in Workers \ {w} : outcome'[v] = outcome[v]
    BY <1>2, <1>11, <2>1 DEF CallProvider, TypeOK
  <2>4. Unsent' /\ Intended' /\ Truth' /\ AtMostOneCall'
    BY <1>2, <1>11, <2>1, <2>3 DEF CallProvider, attemptVars, Unsent, Intended, Truth,
         AtMostOneCall, TypeOK
  <2>5. OneDriver'
    BY <1>2, <1>11 DEF CallProvider, OneDriver, Driving, TypeOK
  <2>6. DriverIntent'
    BY <1>2, <1>11, <2>1, <2>2, <2>3 DEF CallProvider, attemptVars, DriverIntent,
         DriverKnows, Driving, TypeOK
  <2>7. QED
    BY <1>1, <2>4, <2>5, <2>6
<1>12. CASE ReadBack(w)
  <2>1. Unsent' /\ Intended' /\ Truth' /\ AtMostOneCall'
    BY <1>12 DEF ReadBack, attemptVars, historyVars, Unsent, Intended, Truth, AtMostOneCall
  <2>2. OneDriver' /\ DriverIntent'
    BY <1>2, <1>12 DEF ReadBack, attemptVars, historyVars, OneDriver, DriverIntent,
         DriverKnows, Driving, TypeOK
  <2>3. QED
    BY <1>1, <2>1, <2>2
<1>13. CASE Record(w)
  <2>1. writeIntended[a] /\ status[a] \in {"CLAIMED", "UNKNOWN"}
    BY <1>13 DEF Record, DriverIntent, DriverKnows
  <2>2. \A v \in Workers \ {w} : job[v] = a => ~Driving(v)
    BY <1>13 DEF Record, OneDriver, Driving
  <2>3. /\ status'[a] \in {status[a], FinalStatus(outcome[w])}
        /\ \A b \in Attempts \ {a} : status'[b] = status[b]
    BY <1>2, <1>13 DEF Record, Flushed, TypeOK
  <2>4. /\ status'[a] \notin {"ABSENT", "PENDING"}
        /\ status'[a] = "COMPLETED" => accepted[a]
        /\ status'[a] = "FAILED" => ~accepted[a] /\ calls[a] = 1
    BY <1>13, <2>1, <2>3 DEF Record, DriverIntent, DriverKnows, FinalStatus
  <2>5. Unsent' /\ Intended' /\ Truth' /\ AtMostOneCall'
    BY <1>2, <1>13, <2>1, <2>3, <2>4 DEF Record, historyVars, Unsent, Intended, Truth,
         AtMostOneCall
  <2>6. OneDriver'
    BY <1>2, <1>13 DEF Record, Leave, OneDriver, Driving, TypeOK
  <2>7. DriverIntent'
    <3> SUFFICES ASSUME NEW v \in Workers, v # w PROVE DriverKnows(v)'
      BY <1>13 DEF Record, Leave, DriverIntent, DriverKnows, TypeOK
    <3> QED
      BY <1>13, <2>2, <2>3, <2>4 DEF Record, Leave, historyVars, DriverIntent,
           DriverKnows, Driving, TypeOK
  <2>8. QED
    BY <1>1, <2>5, <2>6, <2>7
<1>14. QED
  BY <1>3, <1>4, <1>5, <1>6, <1>7, <1>8, <1>9, <1>10, <1>11, <1>12, <1>13 DEF Process

\* Every step of the dispatcher, and of its surroundings, preserves the invariant.
LEMMA InvStep == IInv /\ [Next]_vars => IInv'
<1> SUFFICES ASSUME IInv, [Next]_vars PROVE IInv'
  OBVIOUS
<1>1. ASSUME NEW w \in Workers, Crash(w) \/ Abandon(w) PROVE IInv'
  <2>1. TypeOK'
    BY <1>1, TypeStep DEF IInv, Next
  <2>2. QED
    BY <1>1, <2>1, InvLeave DEF Crash, Abandon
<1>2. ASSUME NEW a \in Attempts, LeaseExpires(a) PROVE IInv'
  <2>1. TypeOK'
    BY <1>2, TypeStep DEF IInv, Next
  <2>2. QED
    BY <1>2, <2>1 DEF LeaseExpires, historyVars, IInv, OneDriver, Unsent, Intended,
         DriverIntent, DriverKnows, Driving, Truth, AtMostOneCall
<1>3. CASE PutProvider
  <2>1. TypeOK'
    BY <1>3, TypeStep DEF IInv, Next
  <2>2. QED
    BY <1>3, <2>1 DEF PutProvider, attemptVars, historyVars, IInv, OneDriver, Unsent,
         Intended, DriverIntent, DriverKnows, Driving, Truth, AtMostOneCall
<1>4. ASSUME NEW d \in Documents, ChangeCredential(d) PROVE IInv'
  <2>1. TypeOK'
    BY <1>4, TypeStep DEF IInv, Next
  <2>2. QED
    BY <1>4, <2>1 DEF ChangeCredential, attemptVars, historyVars, IInv, OneDriver, Unsent,
         Intended, DriverIntent, DriverKnows, Driving, Truth, AtMostOneCall
<1>5. CASE UNCHANGED vars
  BY <1>5 DEF vars, attemptVars, documentVars, settingVars, historyVars, IInv, TypeOK,
       OneDriver, Unsent, Intended, DriverIntent, DriverKnows, Driving, Truth, AtMostOneCall
<1>6. QED
  BY <1>1, <1>2, <1>3, <1>4, <1>5, InvRequest, InvProcess DEF Next

\* The inductive invariant of process_attempt: of the threads that hold a claim, one at
\* most is past the intent, and the attempt's columns tell what it has done.
THEOREM Invariance == Spec => []IInv
<1>1. QED
  BY InvInit, InvStep, PTL DEF Spec

\* However many threads, re-posts, lease expiries and crashes there are, the provider
\* is called at most once for an attempt.
THEOREM CalledAtMostOnce == Spec => []AtMostOneCall
<1>1. IInv => AtMostOneCall
  BY DEF IInv
<1>2. QED
  BY <1>1, Invariance, PTL

\* COMPLETED and FAILED say what the provider did, and nothing has been sent for an
\* attempt that is still PENDING.
THEOREM ReportsAreTrue == Spec => []ResultIsTrue
<1>1. IInv => ResultIsTrue
  BY DEF IInv, TypeOK, Unsent, Intended, Truth, ResultIsTrue
<1>2. QED
  BY <1>1, Invariance, PTL

\* A terminal status changes only from UNKNOWN, in the step of the thread that called.
THEOREM RecordedStaysRecorded == Spec => RecordedIsFinal
<1> DEFINE Final == \A a \in Attempts :
       status[a] \in Terminal /\ status'[a] # status[a] =>
         /\ status[a] = "UNKNOWN"
         /\ \E w \in Workers : pc[w] = "recording" /\ job[w] = a
<1>1. IInv /\ [Next]_vars => [Final]_vars
  <2> SUFFICES ASSUME IInv, Next, NEW a \in Attempts,
                      status[a] \in Terminal, status'[a] # status[a]
               PROVE  /\ status[a] = "UNKNOWN"
                      /\ \E w \in Workers : pc[w] = "recording" /\ job[w] = a
    OBVIOUS
  <2>1. PICK w \in Workers : Request(w) \/ Process(w)
    BY DEF Next, Crash, Abandon, Leave, LeaseExpires, PutProvider, ChangeCredential,
           attemptVars
  <2>2. ~Request(w)
    BY DEF Request, CreateOutbound, AddPayment, LoadForReject, Redrive, CreateAttempt,
         attemptVars, Terminal, IInv, TypeOK
  <2>3. CASE Record(w)
    <3>1. a = job[w]
      BY <2>3 DEF Record, IInv, TypeOK
    <3>2. status[a] \in {"CLAIMED", "UNKNOWN"}
      BY <2>3, <3>1 DEF Record, IInv, DriverIntent, DriverKnows
    <3>3. QED
      BY <2>3, <3>1, <3>2 DEF Record, Terminal
  <2>4. ~Reject(w) /\ ~ClaimAmbiguous(w)
    BY DEF Reject, CreateAttempt, ClaimAmbiguous, Terminal, IInv, TypeOK
  <2>5. ~Release(w) /\ ~Authorise(w)
    BY DEF Release, Authorise, Terminal, IInv, TypeOK, DriverIntent, DriverKnows
  <2>6. QED
    BY <2>1, <2>2, <2>3, <2>4, <2>5 DEF Process, ClaimSkip, Claim, LoadDocument,
         WithoutGuid, CallProvider, ReadBack, attemptVars
<1>2. QED
  BY <1>1, Invariance, PTL DEF Spec, RecordedIsFinal

----
(* The document and the payment tell the attempt's story.                  *)

\* What an outbound document's columns say at each status of its send.
Sent(a) ==
  LET d == DocumentOf[a] IN
  /\ status[a] = "ABSENT" <=> axis[d] = "ABSENT"
  /\ status[a] \in {"PENDING", "CLAIMED"} => axis[d] = "QUEUED"
  /\ status[a] = "UNKNOWN" => axis[d] \in {"QUEUED", "UNKNOWN"}
  /\ status[a] = "REQUIRES_REVIEW" => axis[d] = "UNKNOWN"
  /\ status[a] = "COMPLETED" => axis[d] = "SUBMITTED"
  /\ status[a] = "FAILED" => axis[d] = "FAILED"
  /\ guid[d] <=> status[a] = "COMPLETED"

\* And what a payment says at each status of its attempt.
Paid(a) ==
  /\ status[a] = "ABSENT" => fiscalization[a] = "ABSENT"
  /\ status[a] \in {"PENDING", "CLAIMED"} => fiscalization[a] = "PENDING"
  /\ status[a] = "UNKNOWN" => fiscalization[a] \in {"PENDING", "UNKNOWN"}
  /\ status[a] = "REQUIRES_REVIEW" => fiscalization[a] = "UNKNOWN"
  /\ status[a] = "COMPLETED" => fiscalization[a] = "PENDING" /\ guid[DocumentOf[a]]
  /\ status[a] = "FAILED" => fiscalization[a] = "FAILED"

\* Until the thread that drives an attempt records its result, nobody writes what it
\* will: what it read back is what the rows hold, or UNKNOWN by now.
StoryKnown(w) ==
  LET a == job[w]
      d == DocumentOf[a]
  IN
  /\ Driving(w) /\ a \in SendAttempts => axis[d] = "QUEUED"
  /\ Driving(w) /\ a \in PaymentAttempts => fiscalization[a] = "PENDING"
  /\ pc[w] = "recording" =>
       /\ seen[w].status \in {"CLAIMED", "UNKNOWN"}
       /\ seen[w].status = "UNKNOWN" => status[a] = "UNKNOWN"
       /\ a \in SendAttempts => seen[w].axis = "QUEUED"
  /\ pc[w] \in {"read", "calling"} /\ seen[w].guid => guid[d]
  /\ pc[w] \in {"returned", "recording"} /\ outcome[w] = "ok" /\ a \in PaymentAttempts =>
       guid[d]

Stories ==
  /\ \A a \in SendAttempts : Sent(a)
  /\ \A a \in PaymentAttempts : Paid(a)
  /\ \A w \in Workers : StoryKnown(w)

\* Attempts of different kinds, or two sends, have documents of their own.
LEMMA OwnDocuments ==
  /\ \A a, b \in SendAttempts : DocumentOf[a] = DocumentOf[b] => a = b
  /\ \A a \in SendAttempts \cup PaymentAttempts, r \in RejectAttempts :
       DocumentOf[a] # DocumentOf[r] /\ a # r
  /\ \A a \in SendAttempts, p \in PaymentAttempts : a # p
  /\ \A a \in Attempts : DocumentOf[a] \in Documents
BY DEF Attempts

\* No thread drives an attempt that does not exist.
LEMMA NoDriverYet ==
  ASSUME IInv, NEW a \in Attempts, status[a] = "ABSENT", NEW w \in Workers, Driving(w)
  PROVE  job[w] # a
BY DEF IInv, DriverIntent, DriverKnows, Driving

\* A thread that leaves, or one that takes up an attempt, knows nothing yet.
LEMMA StoriesQuiet ==
  ASSUME IInv, Stories, NEW w \in Workers,
         UNCHANGED <<status, axis, guid, fiscalization>>,
         ~ Driving(w)',
         \A v \in Workers \ {w} : /\ pc'[v] = pc[v] /\ job'[v] = job[v]
                                  /\ seen'[v] = seen[v] /\ outcome'[v] = outcome[v]
  PROVE  Stories'
<1>1. ASSUME NEW a \in SendAttempts PROVE Sent(a)'
  BY DEF Stories, Sent
<1>2. ASSUME NEW a \in PaymentAttempts PROVE Paid(a)'
  BY DEF Stories, Paid
<1>3. ASSUME NEW v \in Workers PROVE StoryKnown(v)'
  <2>1. CASE v = w
    BY <2>1 DEF StoryKnown, Driving
  <2>2. CASE v # w
    BY <2>2 DEF Stories, StoryKnown, Driving
  <2> QED
    BY <2>1, <2>2
<1> QED
  BY <1>1, <1>2, <1>3 DEF Stories

\* The empty database tells nothing.
LEMMA StoriesInit == Init => Stories
<1> SUFFICES ASSUME Init PROVE Stories
  OBVIOUS
<1>1. ASSUME NEW a \in SendAttempts PROVE Sent(a)
  BY OwnDocuments DEF Init, Sent, Outbound, Attempts
<1>2. ASSUME NEW a \in PaymentAttempts PROVE Paid(a)
  BY DEF Init, Paid, Attempts
<1>3. ASSUME NEW w \in Workers PROVE StoryKnown(w)
  BY DEF Init, StoryKnown, Driving
<1> QED
  BY <1>1, <1>2, <1>3 DEF Stories

\* A request creates a document or a payment with its attempt, or takes one up.
LEMMA StoriesRequest ==
  ASSUME IInv, Stories, NEW w \in Workers, Request(w)
  PROVE  Stories'
<1> USE DEF IInv
<1>1. ASSUME NEW a \in SendAttempts, CreateOutbound(w, a) PROVE Stories'
  <2> DEFINE d == DocumentOf[a]
  <2>0. a \in Attempts /\ d \in Documents
    BY OwnDocuments DEF Attempts
  <2>1. /\ status[a] = "ABSENT" /\ pc[w] = "idle"
        /\ status' = [status EXCEPT ![a] = "PENDING"]
        /\ axis' = [axis EXCEPT ![d] = "QUEUED"]
        /\ pc' = [pc EXCEPT ![w] = "dispatch"] /\ job' = [job EXCEPT ![w] = a]
        /\ UNCHANGED <<guid, fiscalization, seen, outcome>>
    BY <1>1 DEF CreateOutbound, CreateAttempt, Take
  <2>2. ASSUME NEW b \in SendAttempts PROVE Sent(b)'
    <3>1. Sent(b) /\ Sent(a)
      BY DEF Stories
    <3>2. CASE b = a
      BY <2>0, <2>1, <3>1, <3>2 DEF Sent, TypeOK
    <3>3. CASE b # a
      <4>1. DocumentOf[b] # d
        BY <3>3, OwnDocuments
      <4> QED
        BY <2>0, <2>1, <3>1, <3>3, <4>1 DEF Sent, TypeOK
    <3> QED
      BY <3>2, <3>3
  <2>3. ASSUME NEW b \in PaymentAttempts PROVE Paid(b)'
    <3>1. a # b
      BY OwnDocuments
    <3> QED
      BY <2>0, <2>1, <3>1 DEF Stories, Paid, TypeOK
  <2>4. ASSUME NEW v \in Workers PROVE StoryKnown(v)'
    <3>1. CASE v = w
      BY <2>1, <3>1 DEF StoryKnown, Driving, TypeOK
    <3>2. CASE v # w
      <4>1. pc'[v] = pc[v] /\ job'[v] = job[v] /\ StoryKnown(v)
        BY <2>1, <3>2 DEF Stories, TypeOK
      <4>2. Driving(v) => job[v] # a
        BY <2>0, <2>1, NoDriverYet
      <4>3. Driving(v) /\ job[v] \in SendAttempts => axis'[DocumentOf[job[v]]] = "QUEUED"
        <5>1. Driving(v) /\ job[v] \in SendAttempts => DocumentOf[job[v]] \in Documents
          BY OwnDocuments DEF Attempts
        <5> QED
          BY <2>1, <4>1, <5>1 DEF StoryKnown, TypeOK
      <4>4. Driving(v) => status'[job[v]] = status[job[v]]
        BY <2>1, <4>2 DEF TypeOK
      <4> QED
        BY <2>1, <4>1, <4>3, <4>4 DEF StoryKnown, Driving
    <3> QED
      BY <3>1, <3>2
  <2> QED
    BY <2>2, <2>3, <2>4 DEF Stories
<1>2. ASSUME NEW a \in PaymentAttempts, AddPayment(w, a) PROVE Stories'
  <2>0. a \in Attempts
    BY DEF Attempts
  <2>1. /\ status[a] = "ABSENT" /\ pc[w] = "idle"
        /\ status' = [status EXCEPT ![a] = "PENDING"]
        /\ fiscalization' = [fiscalization EXCEPT ![a] = "PENDING"]
        /\ pc' = [pc EXCEPT ![w] = "dispatch"] /\ job' = [job EXCEPT ![w] = a]
        /\ UNCHANGED <<guid, axis, seen, outcome>>
    BY <1>2 DEF AddPayment, CreateAttempt, Take, documentVars
  <2>2. ASSUME NEW b \in SendAttempts PROVE Sent(b)'
    <3>1. b # a
      BY OwnDocuments
    <3> QED
      BY <2>0, <2>1, <3>1 DEF Stories, Sent, TypeOK
  <2>3. ASSUME NEW b \in PaymentAttempts PROVE Paid(b)'
    BY <2>0, <2>1 DEF Stories, Paid, TypeOK
  <2>4. ASSUME NEW v \in Workers PROVE StoryKnown(v)'
    <3>1. CASE v = w
      BY <2>1, <3>1 DEF StoryKnown, Driving, TypeOK
    <3>2. CASE v # w
      <4>1. pc'[v] = pc[v] /\ job'[v] = job[v] /\ StoryKnown(v)
        BY <2>1, <3>2 DEF Stories, TypeOK
      <4>2. Driving(v) => job[v] # a
        BY <2>0, <2>1, NoDriverYet
      <4>3. Driving(v) => status'[job[v]] = status[job[v]]
        BY <2>1, <4>2 DEF TypeOK
      <4>4. Driving(v) => fiscalization'[job[v]] = fiscalization[job[v]]
        BY <2>1, <4>2 DEF TypeOK
      <4> QED
        BY <2>1, <4>1, <4>3, <4>4 DEF StoryKnown, Driving
    <3> QED
      BY <3>1, <3>2
  <2> QED
    BY <2>2, <2>3, <2>4 DEF Stories
<1>3. ASSUME NEW a \in SendAttempts \cup PaymentAttempts, Redrive(w, a) PROVE Stories'
  BY <1>3, StoriesQuiet DEF Redrive, Take, attemptVars, documentVars, Driving, TypeOK
<1>4. ASSUME NEW a \in RejectAttempts, LoadForReject(w, a) PROVE Stories'
  BY <1>4, StoriesQuiet DEF LoadForReject, Take, attemptVars, documentVars, Driving, TypeOK
<1> QED
  BY <1>1, <1>2, <1>3, <1>4 DEF Request

\* A rejection is another document's affair.
LEMMA StoriesReject ==
  ASSUME IInv, Stories, NEW w \in Workers, Reject(w)
  PROVE  Stories'
<1> USE DEF IInv
<1> DEFINE a == job[w]
           d == DocumentOf[a]
<1>0. /\ pc[w] = "rejecting" /\ a \in RejectAttempts /\ a \in Attempts /\ d \in Documents
  BY OwnDocuments DEF Reject, TypeOK, Attempts
<1>1. /\ \A b \in Attempts \ {a} : status'[b] = status[b]
      /\ \A e \in Documents \ {d} : axis'[e] = axis[e]
      /\ status[a] = "ABSENT"
      /\ pc' = [pc EXCEPT ![w] = "dispatch"]
      /\ seen' = [seen EXCEPT ![w] = NoSnapshot]
      /\ UNCHANGED <<guid, fiscalization, job, outcome>>
  BY <1>0 DEF Reject, CreateAttempt, TypeOK
<1>2. ASSUME NEW b \in SendAttempts \cup PaymentAttempts
      PROVE  /\ status'[b] = status[b] /\ axis'[DocumentOf[b]] = axis[DocumentOf[b]]
             /\ b \in Attempts
  <2>1. b \in Attempts \ {a} /\ DocumentOf[b] \in Documents \ {d}
    BY <1>0, OwnDocuments DEF Attempts
  <2> QED
    BY <1>1, <2>1
<1>3. ASSUME NEW b \in SendAttempts PROVE Sent(b)'
  BY <1>1, <1>2 DEF Stories, Sent
<1>4. ASSUME NEW b \in PaymentAttempts PROVE Paid(b)'
  BY <1>1, <1>2 DEF Stories, Paid
<1>5. ASSUME NEW v \in Workers PROVE StoryKnown(v)'
  <2>1. CASE v = w
    BY <1>1, <2>1 DEF StoryKnown, Driving, TypeOK
  <2>2. CASE v # w
    <3>1. pc'[v] = pc[v] /\ seen'[v] = seen[v] /\ StoryKnown(v)
      BY <1>1, <2>2 DEF Stories, TypeOK
    <3>2. Driving(v) => job[v] # a /\ job[v] \in Attempts
      BY <1>0, <1>1, NoDriverYet DEF Driving, TypeOK
    <3>3. Driving(v) => status'[job[v]] = status[job[v]]
      BY <1>1, <3>2
    <3>4. Driving(v) /\ job[v] \in SendAttempts =>
            axis'[DocumentOf[job[v]]] = axis[DocumentOf[job[v]]]
      BY <1>2
    <3> QED
      BY <1>1, <3>1, <3>3, <3>4 DEF StoryKnown, Driving
  <2> QED
    BY <2>1, <2>2
<1> QED
  BY <1>3, <1>4, <1>5 DEF Stories

\* An attempt that is given up was sent for or not: its document still says QUEUED, its
\* payment PENDING.
LEMMA StoriesGivenUp ==
  ASSUME IInv, Stories, NEW w \in Workers, ClaimAmbiguous(w)
  PROVE  Stories'
<1> USE DEF IInv
<1> DEFINE a == job[w]
<1>0. a \in Attempts
  BY DEF ClaimAmbiguous, TypeOK
<1>1. status[a] = "CLAIMED"
  BY <1>0 DEF ClaimAmbiguous, Intended, TypeOK, Statuses
<1>2. /\ status' = [status EXCEPT ![a] = "UNKNOWN"]
      /\ UNCHANGED <<axis, guid, fiscalization>>
      /\ pc' = [pc EXCEPT ![w] = "idle"]
      /\ \A v \in Workers \ {w} : /\ pc'[v] = pc[v] /\ job'[v] = job[v]
                                  /\ seen'[v] = seen[v] /\ outcome'[v] = outcome[v]
  BY DEF ClaimAmbiguous, Leave, documentVars, TypeOK
<1>3. ASSUME NEW b \in SendAttempts PROVE Sent(b)'
  BY <1>0, <1>1, <1>2 DEF Stories, Sent, TypeOK
<1>4. ASSUME NEW b \in PaymentAttempts PROVE Paid(b)'
  BY <1>0, <1>1, <1>2 DEF Stories, Paid, TypeOK
<1>5. ASSUME NEW v \in Workers PROVE StoryKnown(v)'
  <2>1. CASE v = w
    BY <1>2, <2>1 DEF StoryKnown, Driving, TypeOK
  <2>2. CASE v # w
    <3>1. StoryKnown(v)
      BY DEF Stories
    <3>2. \A b \in Attempts : status[b] = "UNKNOWN" => status'[b] = "UNKNOWN"
      BY <1>0, <1>2 DEF TypeOK
    <3>3. Driving(v) => job[v] \in Attempts
      BY DEF Driving, TypeOK
    <3> QED
      BY <1>2, <2>2, <3>1, <3>2, <3>3 DEF StoryKnown, Driving
  <2> QED
    BY <2>1, <2>2
<1> QED
  BY <1>3, <1>4, <1>5 DEF Stories

\* A step of a thread on its way from the claim to the result, which changes nothing
\* that is told, leaves the stories as they are.
LEMMA StoriesOnward ==
  ASSUME IInv, Stories, NEW w \in Workers,
         \A b \in Attempts : status'[b] = status[b] \/ (b = job[w] /\ status[b] = "PENDING"
                                                        /\ status'[b] = "CLAIMED"),
         UNCHANGED <<axis, guid, fiscalization, job>>,
         \A v \in Workers \ {w} : /\ pc'[v] = pc[v] /\ seen'[v] = seen[v]
                                  /\ outcome'[v] = outcome[v],
         StoryKnown(w)'
  PROVE  Stories'
<1> USE DEF IInv
<1>1. ASSUME NEW b \in SendAttempts PROVE Sent(b)'
  <2>1. b \in Attempts /\ Sent(b)
    BY DEF Attempts, Stories
  <2> QED
    BY <2>1 DEF Sent
<1>2. ASSUME NEW b \in PaymentAttempts PROVE Paid(b)'
  <2>1. b \in Attempts /\ Paid(b)
    BY DEF Attempts, Stories
  <2> QED
    BY <2>1 DEF Paid
<1>3. ASSUME NEW v \in Workers, v # w PROVE StoryKnown(v)'
  <2>1. StoryKnown(v) /\ (Driving(v) => job[v] \in Attempts)
    BY DEF Stories, Driving, TypeOK
  <2>2. Driving(v) /\ status[job[v]] = "UNKNOWN" => status'[job[v]] = "UNKNOWN"
    BY <2>1
  <2> QED
    BY <1>3, <2>1, <2>2 DEF StoryKnown, Driving
<1> QED
  BY <1>1, <1>2, <1>3 DEF Stories

\* The result is recorded on the attempt, its document and its payment together.
LEMMA StoriesRecord ==
  ASSUME IInv, Stories, NEW w \in Workers, Record(w)
  PROVE  Stories'
<1> USE DEF IInv
<1> DEFINE a == job[w]
           d == DocumentOf[a]
           o == outcome[w]
<1>0. /\ pc[w] = "recording" /\ a \in Attempts /\ d \in Documents /\ Driving(w)
      /\ o \in Outcomes
  BY OwnDocuments DEF Record, TypeOK, Driving, DriverIntent, DriverKnows
<1>1. StoryKnown(w)
  BY DEF Stories
<1>2. /\ status'[a] = FinalStatus(o)
      /\ \A b \in Attempts \ {a} : status'[b] = status[b]
  <2>1. status' = [status EXCEPT ![a] = Flushed(seen[w].status, @, FinalStatus(o))]
    BY DEF Record
  <2>2. FinalStatus(o) = seen[w].status => status[a] = FinalStatus(o)
    BY <1>0, <1>1 DEF StoryKnown, FinalStatus, Outcomes
  <2> QED
    BY <1>0, <2>1, <2>2 DEF Flushed, TypeOK
<1>3. /\ \A e \in Documents \ {d} : axis'[e] = axis[e] /\ guid'[e] = guid[e]
      /\ a \in SendAttempts => axis'[d] = FinalAxis(o) /\ guid'[d] = (guid[d] \/ o = "ok")
      /\ a \in PaymentAttempts => axis'[d] = axis[d] /\ guid'[d] = guid[d]
  <2>1. /\ axis' = [axis EXCEPT ![d] = IF a \in PaymentAttempts THEN @
                                       ELSE Flushed(seen[w].axis, @, FinalAxis(o))]
        /\ guid' = [guid EXCEPT ![d] = @ \/ (a \in SendAttempts /\ o = "ok")]
    BY DEF Record
  <2>2. /\ guid'[d] = (guid[d] \/ (a \in SendAttempts /\ o = "ok"))
        /\ \A e \in Documents \ {d} : guid'[e] = guid[e]
    BY <1>0, <2>1 DEF TypeOK
  <2>3. a \in SendAttempts => axis'[d] = FinalAxis(o)
    <3>1. a \in SendAttempts => a \notin PaymentAttempts /\ seen[w].axis = "QUEUED"
      BY <1>0, <1>1, OwnDocuments DEF StoryKnown
    <3>2. FinalAxis(o) # "QUEUED"
      BY DEF FinalAxis
    <3> QED
      BY <1>0, <2>1, <3>1, <3>2 DEF Flushed, TypeOK
  <2>4. a \in PaymentAttempts => axis'[d] = axis[d] /\ a \notin SendAttempts
    BY <1>0, <2>1, OwnDocuments DEF TypeOK
  <2>5. \A e \in Documents \ {d} : axis'[e] = axis[e]
    BY <1>0, <2>1 DEF TypeOK
  <2>6. guid[d] \in BOOLEAN
    BY <1>0 DEF TypeOK
  <2> QED
    BY <2>2, <2>3, <2>4, <2>5, <2>6
<1>4. \A p \in PaymentAttempts :
        fiscalization'[p] = IF p = a THEN FinalFiscalization(o) ELSE fiscalization[p]
  BY DEF Record
<1>5. \A e \in Documents : guid[e] => guid'[e]
  BY <1>0 DEF Record, TypeOK
<1>6. ASSUME NEW b \in SendAttempts PROVE Sent(b)'
  <2>1. CASE b = a
    <3>1. axis[d] = "QUEUED" /\ Sent(a)
      BY <1>0, <1>1, <2>1 DEF StoryKnown, Stories
    <3>2. ~ guid[d]
      BY <3>1 DEF Sent
    <3>3. guid'[d] <=> o = "ok"
      BY <1>3, <2>1, <3>2
    <3> QED
      BY <1>0, <1>2, <1>3, <2>1, <3>3 DEF Sent, FinalStatus, FinalAxis, Outcomes
  <2>2. CASE b # a
    <3>1. b \in Attempts /\ DocumentOf[b] \in Documents /\ Sent(b)
      BY OwnDocuments DEF Attempts, Stories
    <3>2. axis'[DocumentOf[b]] = axis[DocumentOf[b]] /\ guid'[DocumentOf[b]] = guid[DocumentOf[b]]
      <4>1. CASE a \in SendAttempts \cup RejectAttempts
        <5>1. DocumentOf[b] # d
          BY <2>2, <4>1, OwnDocuments
        <5> QED
          BY <1>3, <3>1, <5>1
      <4>2. CASE a \in PaymentAttempts
        BY <1>3, <3>1, <4>2
      <4> QED
        BY <1>0, <4>1, <4>2 DEF Attempts
    <3> QED
      BY <1>2, <2>2, <3>1, <3>2 DEF Sent
  <2> QED
    BY <2>1, <2>2
<1>7. ASSUME NEW b \in PaymentAttempts PROVE Paid(b)'
  <2>0. b \in Attempts /\ DocumentOf[b] \in Documents /\ Paid(b)
    BY OwnDocuments DEF Attempts, Stories
  <2>1. CASE b = a
    <3>1. o = "ok" => guid'[d]
      BY <1>0, <1>1, <1>5, <2>1 DEF StoryKnown
    <3> QED
      BY <1>0, <1>2, <1>4, <2>1, <3>1
         DEF Paid, FinalStatus, FinalFiscalization, FinalAxis, Outcomes
  <2>2. CASE b # a
    BY <1>2, <1>4, <1>5, <2>0, <2>2 DEF Paid
  <2> QED
    BY <2>1, <2>2
<1>8. ASSUME NEW v \in Workers PROVE StoryKnown(v)'
  <2>0. /\ pc' = [pc EXCEPT ![w] = "idle"]
        /\ \A u \in Workers \ {w} : /\ pc'[u] = pc[u] /\ job'[u] = job[u]
                                    /\ seen'[u] = seen[u] /\ outcome'[u] = outcome[u]
    BY DEF Record, Leave, TypeOK
  <2>1. CASE v = w
    BY <2>0, <2>1 DEF StoryKnown, Driving, TypeOK
  <2>2. CASE v # w /\ ~ Driving(v)
    BY <2>0, <2>2 DEF StoryKnown, Driving
  <2>3. CASE v # w /\ Driving(v)
    <3>1. /\ job[v] # a /\ job[v] \in Attempts /\ StoryKnown(v)
          /\ DocumentOf[job[v]] \in Documents
      BY <1>0, <2>3, OwnDocuments DEF OneDriver, Driving, TypeOK, Stories
    <3>2. status'[job[v]] = status[job[v]]
      BY <1>2, <3>1
    <3>3. job[v] \in SendAttempts => axis'[DocumentOf[job[v]]] = axis[DocumentOf[job[v]]]
      <4> SUFFICES ASSUME job[v] \in SendAttempts
                   PROVE  axis'[DocumentOf[job[v]]] = axis[DocumentOf[job[v]]]
        OBVIOUS
      <4>1. CASE a \in SendAttempts \cup RejectAttempts
        <5>1. DocumentOf[job[v]] # d
          BY <3>1, <4>1, OwnDocuments
        <5> QED
          BY <1>3, <3>1, <5>1
      <4>2. CASE a \in PaymentAttempts
        BY <1>3, <3>1, <4>2
      <4> QED
        BY <1>0, <4>1, <4>2 DEF Attempts
    <3>4. job[v] \in PaymentAttempts => fiscalization'[job[v]] = fiscalization[job[v]]
      BY <1>4, <3>1
    <3> QED
      BY <1>5, <2>0, <2>3, <3>1, <3>2, <3>3, <3>4 DEF StoryKnown, Driving
  <2> QED
    BY <2>1, <2>2, <2>3
<1> QED
  BY <1>6, <1>7, <1>8 DEF Stories

\* process_attempt, one step per action.
LEMMA StoriesProcess ==
  ASSUME IInv, Stories, NEW w \in Workers, Process(w)
  PROVE  Stories'
<1> USE DEF IInv
<1> DEFINE a == job[w]
<1>0. a \in Attempts /\ pc[w] # "idle" /\ StoryKnown(w)
  BY DEF TypeOK, Process, Reject, ClaimSkip, ClaimAmbiguous, Claim, LoadDocument, Release,
       Authorise, WithoutGuid, CallProvider, ReadBack, Record, Stories
<1>1. CASE Reject(w)
  BY <1>1, StoriesReject
<1>2. CASE ClaimSkip(w)
  BY <1>2, StoriesQuiet DEF ClaimSkip, Leave, attemptVars, documentVars, Driving, TypeOK
<1>3. CASE ClaimAmbiguous(w)
  BY <1>3, StoriesGivenUp
<1>4. CASE Claim(w)
  <2>1. status[a] = "PENDING"
    BY <1>0, <1>4 DEF Claim, Unsent, DriverIntent, DriverKnows
  <2>2. /\ a \in SendAttempts => axis[DocumentOf[a]] = "QUEUED"
        /\ a \in PaymentAttempts => fiscalization[a] = "PENDING"
    BY <2>1 DEF Stories, Sent, Paid
  <2>3. /\ pc' = [pc EXCEPT ![w] = "claimed"]
        /\ UNCHANGED <<status, axis, guid, fiscalization, job, seen, outcome>>
    BY <1>4 DEF Claim, attemptVars, documentVars
  <2>4. StoryKnown(w)'
    BY <2>2, <2>3 DEF StoryKnown, TypeOK
  <2> QED
    BY <2>3, <2>4, StoriesOnward DEF TypeOK
<1>5. CASE LoadDocument(w)
  <2>1. /\ pc[w] = "claimed" /\ pc' = [pc EXCEPT ![w] = "read"]
        /\ seen' = [seen EXCEPT ![w] = Snapshot(a)]
        /\ UNCHANGED <<status, axis, guid, fiscalization, job, outcome>>
    BY <1>5 DEF LoadDocument, attemptVars, documentVars
  <2>2. Snapshot(a).guid = guid[DocumentOf[a]]
    BY DEF Snapshot
  <2>3. StoryKnown(w)'
    BY <1>0, <2>1, <2>2 DEF StoryKnown, Driving, TypeOK
  <2> QED
    BY <2>1, <2>3, StoriesOnward DEF TypeOK
<1>6. CASE Release(w)
  <2>1. status' = status
    BY <1>0, <1>6 DEF Release, DriverIntent, DriverKnows, TypeOK
  <2> QED
    BY <1>6, <2>1, StoriesQuiet DEF Release, Leave, Driving, TypeOK
<1>7. CASE Authorise(w)
  <2>1. /\ pc[w] = "read" /\ pc' = [pc EXCEPT ![w] = "calling"]
        /\ status' = [status EXCEPT ![a] = "CLAIMED"] /\ status[a] = "PENDING"
        /\ UNCHANGED <<axis, guid, fiscalization, job, seen, outcome>>
    BY <1>7 DEF Authorise, documentVars, DriverIntent, DriverKnows
  <2>2. StoryKnown(w)'
    BY <1>0, <2>1 DEF StoryKnown, Driving, TypeOK
  <2>3. \A b \in Attempts : status'[b] = status[b] \/ (b = job[w] /\ status[b] = "PENDING"
                                                       /\ status'[b] = "CLAIMED")
    BY <1>0, <2>1 DEF TypeOK
  <2> QED
    BY <2>1, <2>2, <2>3, StoriesOnward DEF TypeOK
<1>8. CASE WithoutGuid(w)
  <2>1. /\ pc[w] = "calling" /\ pc' = [pc EXCEPT ![w] = "returned"]
        /\ outcome' = [outcome EXCEPT ![w] = "review"]
        /\ UNCHANGED <<status, axis, guid, fiscalization, job, seen>>
    BY <1>8 DEF WithoutGuid, attemptVars, documentVars
  <2>2. StoryKnown(w)'
    BY <1>0, <2>1 DEF StoryKnown, Driving, TypeOK
  <2> QED
    BY <2>1, <2>2, StoriesOnward DEF TypeOK
<1>9. CASE CallProvider(w)
  <2>1. /\ pc[w] = "calling" /\ pc' = [pc EXCEPT ![w] = "returned"]
        /\ a \in SendAttempts \/ seen[w].guid
        /\ \A v \in Workers \ {w} : outcome'[v] = outcome[v]
        /\ UNCHANGED <<status, axis, guid, fiscalization, job, seen>>
    BY <1>9 DEF CallProvider, attemptVars, documentVars, TypeOK
  <2>2. a \in PaymentAttempts => a \notin SendAttempts
    BY OwnDocuments
  <2>3. StoryKnown(w)'
    BY <1>0, <2>1, <2>2 DEF StoryKnown, Driving, TypeOK
  <2> QED
    BY <2>1, <2>3, StoriesOnward DEF TypeOK
<1>10. CASE ReadBack(w)
  <2>1. /\ pc[w] = "returned" /\ pc' = [pc EXCEPT ![w] = "recording"]
        /\ seen' = [seen EXCEPT ![w] = Snapshot(a)]
        /\ UNCHANGED <<status, axis, guid, fiscalization, job, outcome>>
    BY <1>10 DEF ReadBack, attemptVars, documentVars
  <2>2. status[a] \in {"CLAIMED", "UNKNOWN"}
    BY <2>1 DEF DriverIntent, DriverKnows
  <2>3. Snapshot(a).status = status[a] /\ Snapshot(a).axis = axis[DocumentOf[a]]
    BY DEF Snapshot
  <2>4. StoryKnown(w)'
    BY <1>0, <2>1, <2>2, <2>3 DEF StoryKnown, Driving, TypeOK
  <2> QED
    BY <2>1, <2>4, StoriesOnward DEF TypeOK
<1>11. CASE Record(w)
  BY <1>11, StoriesRecord
<1> QED
  BY <1>1, <1>2, <1>3, <1>4, <1>5, <1>6, <1>7, <1>8, <1>9, <1>10, <1>11 DEF Process

\* Every step of the dispatcher, and of its surroundings, keeps the stories.
LEMMA StoriesStep == IInv /\ Stories /\ [Next]_vars => Stories'
<1> SUFFICES ASSUME IInv, Stories, [Next]_vars PROVE Stories'
  OBVIOUS
<1>1. ASSUME NEW w \in Workers, Crash(w) \/ Abandon(w) PROVE Stories'
  BY <1>1, StoriesQuiet
     DEF Crash, Abandon, Leave, attemptVars, documentVars, Driving, IInv, TypeOK
<1>2. CASE UNCHANGED <<status, axis, guid, fiscalization, pc, job, seen, outcome>>
  <2>1. ASSUME NEW a \in SendAttempts PROVE Sent(a)'
    BY <1>2 DEF Stories, Sent
  <2>2. ASSUME NEW a \in PaymentAttempts PROVE Paid(a)'
    BY <1>2 DEF Stories, Paid
  <2>3. ASSUME NEW w \in Workers PROVE StoryKnown(w)'
    BY <1>2 DEF Stories, StoryKnown, Driving
  <2> QED
    BY <2>1, <2>2, <2>3 DEF Stories
<1>3. CASE \/ \E a \in Attempts : LeaseExpires(a)
           \/ PutProvider
           \/ \E d \in Documents : ChangeCredential(d)
           \/ UNCHANGED vars
  BY <1>2, <1>3 DEF LeaseExpires, PutProvider, ChangeCredential, vars, attemptVars,
       documentVars
<1> QED
  BY <1>1, <1>3, StoriesRequest, StoriesProcess DEF Next

\* _commit_result and claim_attempt: a document's exchange status and guid, and a
\* payment's fiscalization status, agree with the attempt that stands for them.
THEOREM DocumentsAgree == Spec => []AxisAgrees
<1>1. IInv /\ Stories => AxisAgrees
  <2> SUFFICES ASSUME IInv, Stories PROVE AxisAgrees
    OBVIOUS
  <2>1. \A a \in Attempts : status[a] \in Statuses
    BY DEF IInv, TypeOK
  <2>2. ASSUME NEW a \in SendAttempts
        PROVE  LET d == DocumentOf[a] IN
               /\ axis[d] = "ABSENT" <=> status[a] = "ABSENT"
               /\ axis[d] = "SUBMITTED" <=> status[a] = "COMPLETED"
               /\ guid[d] <=> status[a] = "COMPLETED"
               /\ axis[d] = "FAILED" <=> status[a] = "FAILED"
               /\ axis[d] = "UNKNOWN" => status[a] \in {"UNKNOWN", "REQUIRES_REVIEW"}
    <3>1. status[a] \in Statuses /\ Sent(a)
      BY <2>1 DEF Attempts, Stories
    <3> QED
      BY <3>1 DEF Sent, Statuses, Terminal
  <2>3. ASSUME NEW a \in PaymentAttempts
        PROVE  /\ status[a] = "COMPLETED" => guid[DocumentOf[a]] /\ fiscalization[a] = "PENDING"
               /\ fiscalization[a] = "FAILED" <=> status[a] = "FAILED"
               /\ fiscalization[a] = "UNKNOWN" => status[a] \in {"UNKNOWN", "REQUIRES_REVIEW"}
    <3>1. status[a] \in Statuses /\ Paid(a)
      BY <2>1 DEF Attempts, Stories
    <3> QED
      BY <3>1 DEF Paid, Statuses, Terminal
  <2> QED
    BY <2>2, <2>3 DEF AxisAgrees
<1>2. QED
  BY <1>1, Invariance, StoriesInit, StoriesStep, PTL DEF Spec

----
(* What a step of the dispatcher never takes back.                         *)

\* Once there an attempt stays, a refusal stays, and so does what the provider took.
Onward(a) ==
  /\ status[a] # "ABSENT" => status'[a] # "ABSENT"
  /\ status[a] = "FAILED" => status'[a] = "FAILED"
  /\ accepted[a] => accepted'[a]

\* Every step of the dispatcher, and of its surroundings, goes onward.
LEMMA OnwardStep == IInv /\ [Next]_vars => \A a \in Attempts : Onward(a)
<1> SUFFICES ASSUME IInv, [Next]_vars, NEW a \in Attempts PROVE Onward(a)
  OBVIOUS
<1>1. CASE UNCHANGED <<status, accepted>>
  BY <1>1 DEF Onward
<1>2. ASSUME NEW w \in Workers, Request(w) PROVE Onward(a)
  BY <1>2 DEF Request, CreateOutbound, AddPayment, LoadForReject, Redrive, CreateAttempt,
       attemptVars, historyVars, Onward, IInv, TypeOK
<1>3. ASSUME NEW w \in Workers, Reject(w) \/ ClaimAmbiguous(w) PROVE Onward(a)
  BY <1>3 DEF Reject, CreateAttempt, ClaimAmbiguous, Terminal, historyVars, Onward, IInv,
       TypeOK
<1>4. ASSUME NEW w \in Workers, Release(w) \/ Authorise(w) PROVE Onward(a)
  BY <1>4 DEF Release, Authorise, historyVars, Onward, IInv, TypeOK, DriverIntent,
       DriverKnows
<1>5. ASSUME NEW w \in Workers, CallProvider(w) PROVE Onward(a)
  BY <1>5 DEF CallProvider, attemptVars, Onward, IInv, TypeOK
<1>6. ASSUME NEW w \in Workers, Record(w) PROVE Onward(a)
  <2>1. status[job[w]] \in {"CLAIMED", "UNKNOWN"}
    BY <1>6 DEF Record, IInv, DriverIntent, DriverKnows
  <2>2. FinalStatus(outcome[w]) # "ABSENT"
    BY DEF FinalStatus
  <2> QED
    BY <1>6, <2>1, <2>2 DEF Record, Flushed, historyVars, Onward, IInv, TypeOK
<1> QED
  BY <1>1, <1>2, <1>3, <1>4, <1>5, <1>6
     DEF Next, Process, Abandon, Crash, ClaimSkip, Claim, LoadDocument, WithoutGuid, ReadBack,
         LeaseExpires, PutProvider, ChangeCredential, attemptVars, historyVars, vars

\* A guid that is known stays known.
LEMMA GuidStays ==
  ASSUME IInv, [Next]_vars, NEW d \in Documents, guid[d]
  PROVE  guid'[d]
BY DEF IInv, TypeOK, Next, Request, CreateOutbound, AddPayment, LoadForReject, Redrive, Process,
       Reject, Abandon, ClaimSkip, ClaimAmbiguous, Claim, LoadDocument, Release, Authorise,
       WithoutGuid, CallProvider, ReadBack, Record, Crash, LeaseExpires, PutProvider,
       ChangeCredential, documentVars, vars

\* An inbound document is SUBMITTED only if the provider took a rejection of it.
RejectionTaken ==
  \A a \in RejectAttempts : axis[DocumentOf[a]] = "SUBMITTED" =>
    \E b \in RejectAttempts : DocumentOf[b] = DocumentOf[a] /\ accepted[b]

\* Every step of the dispatcher, and of its surroundings, preserves RejectionTaken.
LEMMA RejectionStep == IInv /\ RejectionTaken /\ [Next]_vars => RejectionTaken'
<1> SUFFICES ASSUME IInv, RejectionTaken, [Next]_vars,
                    NEW a \in RejectAttempts, axis'[DocumentOf[a]] = "SUBMITTED"
             PROVE  \E b \in RejectAttempts : DocumentOf[b] = DocumentOf[a] /\ accepted'[b]
  BY DEF RejectionTaken
<1> DEFINE d == DocumentOf[a]
<1>1. d \in Documents
  BY DEF Attempts
<1>2. CASE axis[d] = "SUBMITTED"
  <2>1. PICK b \in RejectAttempts : DocumentOf[b] = d /\ accepted[b]
    BY <1>2 DEF RejectionTaken
  <2> QED
    BY <2>1, OnwardStep DEF Onward, Attempts
<1>3. CASE axis[d] # "SUBMITTED"
  <2>1. PICK w \in Workers : Request(w) \/ Process(w)
    BY <1>3 DEF Next, Abandon, Crash, LeaseExpires, PutProvider, ChangeCredential,
         documentVars, vars
  <2>2. Record(w)
    BY <1>1, <1>3, <2>1
       DEF Request, CreateOutbound, AddPayment, LoadForReject, Redrive, Process, Reject,
           Flushed, ClaimSkip, ClaimAmbiguous, Claim, LoadDocument, Release, Authorise,
           WithoutGuid, CallProvider, ReadBack, documentVars, IInv, TypeOK
  <2> DEFINE b == job[w]
  <2>3. b \in Attempts
    BY <2>2 DEF Record, IInv, TypeOK
  <2>4. DocumentOf[b] = d /\ b \notin PaymentAttempts /\ FinalAxis(outcome[w]) = "SUBMITTED"
    BY <1>1, <1>3, <2>2, <2>3 DEF Record, Flushed, IInv, TypeOK
  <2>5. b \in RejectAttempts
    BY <2>3, <2>4 DEF Attempts
  <2>6. accepted[b] /\ accepted' = accepted
    BY <2>2, <2>4 DEF FinalAxis, Record, historyVars, IInv, DriverIntent, DriverKnows
  <2> QED
    BY <2>4, <2>5, <2>6
<1> QED
  BY <1>2, <1>3

\* The e-reporting status SUBMITTED of an inbound document is never made up.
THEOREM RejectionsAreTrue == Spec => []RejectionTaken
<1>1. Init => RejectionTaken
  BY DEF Init, RejectionTaken, Attempts
<1> QED
  BY <1>1, RejectionStep, Invariance, PTL DEF Spec

----
(* Refinement: the dispatcher implements the promise of Delivery.          *)

\* Without an attempt nothing is promised.
LEMMA DeliveryInit == Init => D!Init
BY DEF Init, D!Init, handStage, reported, Terminal

\* The promise of an attempt whose columns do not change does not change.
LEMMA DeliveryKept ==
  ASSUME UNCHANGED <<status, calls, accepted>>
  PROVE  UNCHANGED D!vars
BY DEF D!vars, handStage, reported

\* The mapped functions change at one attempt when they do so pointwise.
LEMMA StageSet ==
  ASSUME NEW a \in Attempts, NEW s,
         \A b \in Attempts : handStage'[b] = IF b = a THEN s ELSE handStage[b]
  PROVE  handStage' = [handStage EXCEPT ![a] = s]
<1>1. handStage = [b \in Attempts |-> handStage[b]]
  BY DEF handStage
<1>2. handStage' = [b \in Attempts |-> handStage'[b]]
  BY DEF handStage
<1>3. QED
  BY <1>1, <1>2, Zenon

\* The same for what was reported.
LEMMA ReportSet ==
  ASSUME NEW a \in Attempts, NEW r,
         \A b \in Attempts : reported'[b] = IF b = a THEN r ELSE reported[b]
  PROVE  reported' = [reported EXCEPT ![a] = r]
<1>1. reported = [b \in Attempts |-> reported[b]]
  BY DEF reported
<1>2. reported' = [b \in Attempts |-> reported'[b]]
  BY DEF reported
<1>3. QED
  BY <1>1, <1>2, Zenon

\* A new attempt is a message to be handed over.
LEMMA DeliveryCreate ==
  ASSUME IInv, NEW a \in Attempts, CreateAttempt(a), UNCHANGED historyVars
  PROVE  D!Next
<1>1. calls[a] = 0 /\ status[a] = "ABSENT" /\ status' = [status EXCEPT ![a] = "PENDING"]
  BY DEF CreateAttempt, IInv, Unsent, Intended
<1>2. handStage[a] = "none" /\ handStage' = [handStage EXCEPT ![a] = "queued"]
  <2>1. \A b \in Attempts : handStage'[b] = IF b = a THEN "queued" ELSE handStage[b]
    BY <1>1 DEF handStage, historyVars, IInv, TypeOK
  <2>2. QED
    BY <1>1, <2>1, StageSet DEF handStage
<1>3. UNCHANGED <<accepted, reported>>
  BY <1>1 DEF historyVars, reported, Terminal, IInv, TypeOK
<1>4. QED
  BY <1>2, <1>3 DEF D!Next, D!Create

\* Every step of the dispatcher is a step of the promise, or leaves it alone.
LEMMA DeliveryStep == IInv /\ [Next]_vars => [D!Next]_(D!vars)
<1> SUFFICES ASSUME IInv, Next PROVE D!Next \/ UNCHANGED D!vars
  BY DeliveryKept DEF vars, attemptVars, historyVars
<1>1. ASSUME NEW w \in Workers, Request(w) PROVE D!Next \/ UNCHANGED D!vars
  <2>1. CASE \E a \in SendAttempts : CreateOutbound(w, a)
    BY <2>1, DeliveryCreate DEF CreateOutbound, Attempts
  <2>2. CASE \E a \in PaymentAttempts : AddPayment(w, a)
    BY <2>2, DeliveryCreate DEF AddPayment, Attempts
  <2>3. CASE \E a \in RejectAttempts : LoadForReject(w, a)
    BY <2>3, DeliveryKept DEF LoadForReject, attemptVars, historyVars
  <2>4. CASE \E a \in SendAttempts \cup PaymentAttempts : Redrive(w, a)
    BY <2>4, DeliveryKept DEF Redrive, attemptVars, historyVars
  <2>5. QED
    BY <1>1, <2>1, <2>2, <2>3, <2>4 DEF Request
<1>2. ASSUME NEW w \in Workers, Process(w) PROVE D!Next \/ UNCHANGED D!vars
  <2> DEFINE a == job[w]
  <2>1. a \in Attempts
    BY <1>2 DEF IInv, TypeOK, Process, Reject, ClaimSkip, ClaimAmbiguous, Claim,
         LoadDocument, Release, Authorise, WithoutGuid, CallProvider, ReadBack, Record
  <2>2. CASE Reject(w)
    BY <2>1, <2>2, DeliveryCreate DEF Reject
  <2>3. CASE ClaimAmbiguous(w)
    <3>1. status[a] \notin Terminal /\ status[a] # "ABSENT"
      BY <2>3 DEF ClaimAmbiguous, IInv, DriverIntent, DriverKnows
    <3>2. reported' = [reported EXCEPT ![a] = "UNKNOWN"] /\ reported[a] = "open"
      <4>1. status' = [status EXCEPT ![a] = "UNKNOWN"]
        BY <2>3 DEF ClaimAmbiguous
      <4>2. "UNKNOWN" \in Terminal
        BY DEF Terminal
      <4>3. status \in [Attempts -> Statuses]
        BY DEF IInv, TypeOK
      <4>4. QED
        BY <2>1, <3>1, <4>1, <4>2, <4>3 DEF reported
    <3>3. UNCHANGED <<handStage, accepted>> /\ handStage[a] # "none"
      BY <2>1, <2>3, <3>1 DEF ClaimAmbiguous, historyVars, handStage, IInv, TypeOK
    <3>4. D!Report(a, "UNKNOWN")
      BY <3>2, <3>3 DEF D!Report, D!Undecided
    <3>5. QED
      BY <2>1, <3>4 DEF D!Next, D!Reports
  <2>4. CASE Release(w)
    <3>1. UNCHANGED status
      BY <2>1, <2>4 DEF Release, IInv, TypeOK, DriverIntent, DriverKnows
    <3>2. QED
      BY <2>4, <3>1, DeliveryKept DEF Release, historyVars
  <2>5. CASE Authorise(w)
    <3>1. status[a] = "PENDING"
      BY <2>5 DEF Authorise, IInv, DriverIntent, DriverKnows
    <3>2. UNCHANGED <<handStage, accepted, reported>>
      BY <2>1, <2>5, <3>1 DEF Authorise, historyVars, handStage, reported, Terminal, IInv,
           TypeOK
    <3>3. QED
      BY <3>2 DEF D!vars
  <2>6. CASE CallProvider(w)
    <3>1. calls[a] = 0 /\ ~accepted[a] /\ status[a] \in {"CLAIMED", "UNKNOWN"}
      BY <2>6 DEF CallProvider, IInv, DriverIntent, DriverKnows
    <3>2. handStage[a] = "queued" /\ handStage' = [handStage EXCEPT ![a] = "handed"]
      <4>1. calls' = [calls EXCEPT ![a] = 1] /\ UNCHANGED status
        BY <2>6, <3>1 DEF CallProvider, attemptVars
      <4>2. \A b \in Attempts : handStage'[b] = IF b = a THEN "handed" ELSE handStage[b]
        BY <2>1, <3>1, <4>1 DEF handStage, IInv, TypeOK
      <4>3. handStage[a] = "queued"
        BY <2>1, <3>1 DEF handStage
      <4>4. QED
        BY <2>1, <4>2, <4>3, StageSet
    <3>3. UNCHANGED reported /\ D!Undecided(a)
      BY <2>1, <2>6, <3>1 DEF CallProvider, attemptVars, reported, Terminal, D!Undecided
    <3>4. \E took \in BOOLEAN : accepted' = [accepted EXCEPT ![a] = took]
      BY <2>1, <2>6, <3>1 DEF CallProvider, IInv, TypeOK
    <3>5. QED
      BY <2>1, <3>2, <3>3, <3>4 DEF D!Next, D!Hand
  <2>7. CASE Record(w)
    <3> DEFINE r == FinalStatus(outcome[w])
    <3>1. writeIntended[a] /\ status[a] \in {"CLAIMED", "UNKNOWN"}
      BY <2>7 DEF Record, IInv, DriverIntent, DriverKnows
    <3>2. CASE UNCHANGED status
      BY <2>7, <3>2, DeliveryKept DEF Record, historyVars
    <3>3. CASE status' = [status EXCEPT ![a] = r]
      <4>1. /\ r \in D!Reports \ {"open"} /\ r \in Terminal
            /\ r = "COMPLETED" => accepted[a]
            /\ r = "FAILED" => ~accepted[a] /\ calls[a] = 1
        BY <2>7 DEF Record, FinalStatus, D!Reports, Terminal, IInv, DriverIntent, DriverKnows
      <4>2. /\ reported' = [reported EXCEPT ![a] = r] /\ reported[a] \in {"open", "UNKNOWN"}
        <5>1. \A b \in Attempts : reported'[b] = IF b = a THEN r ELSE reported[b]
          BY <2>1, <3>3, <4>1 DEF reported, IInv, TypeOK
        <5>2. reported[a] \in {"open", "UNKNOWN"}
          BY <2>1, <3>1 DEF reported, Terminal
        <5>3. QED
          BY <2>1, <5>1, <5>2, ReportSet
      <4>3. /\ UNCHANGED <<handStage, accepted>> /\ handStage[a] # "none"
            /\ r = "FAILED" => handStage[a] = "handed"
        BY <2>1, <2>7, <3>1, <3>3, <4>1 DEF Record, historyVars, handStage, Terminal, IInv,
             TypeOK
      <4>4. D!Report(a, r)
        BY <4>1, <4>2, <4>3 DEF D!Report, D!Undecided
      <4>5. QED
        BY <2>1, <4>1, <4>4 DEF D!Next
    <3>4. status' = [status EXCEPT ![a] = Flushed(seen[w].status, @, r)]
      BY <2>7 DEF Record
    <3>5. CASE r = seen[w].status
      BY <2>1, <3>2, <3>4, <3>5 DEF Flushed, IInv, TypeOK
    <3>6. CASE r # seen[w].status
      BY <3>3, <3>4, <3>6 DEF Flushed
    <3>7. QED
      BY <3>5, <3>6
  <2>8. QED
    BY <1>2, <2>2, <2>3, <2>4, <2>5, <2>6, <2>7, DeliveryKept
       DEF Process, ClaimSkip, Claim, LoadDocument, WithoutGuid, ReadBack, attemptVars,
           historyVars
<1>3. CASE \/ \E w \in Workers : Crash(w) \/ Abandon(w)
           \/ \E a \in Attempts : LeaseExpires(a)
           \/ PutProvider
           \/ \E d \in Documents : ChangeCredential(d)
  BY <1>3, DeliveryKept DEF Crash, Abandon, LeaseExpires, PutProvider, ChangeCredential,
       attemptVars, historyVars
<1>4. QED
  BY <1>1, <1>2, <1>3 DEF Next

\* Every behaviour of the dispatcher is a behaviour of the promise.
THEOREM DispatchImplementsDelivery == Spec => ImplementsDelivery
<1>1. QED
  BY DeliveryInit, DeliveryStep, Invariance, PTL DEF Spec, ImplementsDelivery, D!Spec
=============================================================================
