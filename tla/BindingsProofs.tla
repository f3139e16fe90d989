--------------------------- MODULE BindingsProofs ---------------------------
(***************************************************************************)
(* Proofs about Bindings, for any number of threads, bindings and crashes. *)
(*                                                                         *)
(* The argument: what a confirmation has locked stays as it was            *)
(* (LocksActive, LocksTarget), so of those past the check of the unique    *)
(* index one at most activates a binding, and it supersedes every other    *)
(* ACTIVE row (Checked).                                                   *)
(***************************************************************************)
EXTENDS Bindings, FiniteSetTheorems, TLAPS

\* Bindings are numbered as they are put.
Numbered == \E n \in 0..MaxBindings : Put = 1..n

\* The ACTIVE rows that a confirmation has locked.
LocksActive ==
  \A w \in Workers : pc[w] \in {"locked", "superseding", "checking", "written"} =>
    \A b \in active[w] : locker[b] = w /\ status[b] = "ACTIVE"

LocksTarget ==
  \A w \in Workers : pc[w] \in {"checking", "written"} => locker[target[w]] = w

\* The binding of a confirmation exists, and one that was ACTIVE can only have been
\* superseded since.
Loaded ==
  \A w \in Workers : pc[w] # "idle" =>
    /\ target[w] \in Put
    /\ read[w] = "ACTIVE" => status[target[w]] \in {"ACTIVE", "SUPERSEDED"}

\* Past the check of the index, of a confirmation that activates its binding.
Activates(w) == pc[w] = "written" /\ read[w] # "ACTIVE"

Checked ==
  \A w \in Workers : Activates(w) =>
    /\ \A b \in Active : b = target[w] \/ b \in active[w]
    /\ \A v \in Workers : Activates(v) => v = w

IInv == /\ TypeOK /\ Numbered /\ LocksActive /\ LocksTarget /\ Loaded /\ Checked
        /\ AtMostOneActive

USE BindingAssumption DEF BindingAssumption

----
(* The rows that an action writes.                                         *)

\* The next binding has a number that none has.
LEMMA NextNumber ==
  ASSUME Numbered
  PROVE  \E n \in 0..MaxBindings : Put = 1..n /\ Cardinality(Put) + 1 = n + 1
<1>1. PICK n \in 0..MaxBindings : Put = 1..n
  BY DEF Numbered
<1>2. Cardinality(1..n) = n
  BY <1>1, FS_Interval
<1> QED
  BY <1>1, <1>2

\* A commit changes only rows that the transaction has locked.
LEMMA CommitWrites ==
  ASSUME IInv, NEW w \in Workers, Commit(w)
  PROVE  /\ target[w] \in Put /\ locker[target[w]] = w
         /\ \A b \in Ids : status'[b] # status[b] => locker[b] = w
         /\ \A b \in Ids : status'[b] =
              IF Activates(w) /\ b = target[w] THEN "ACTIVE"
              ELSE IF b \in active[w] /\ b # target[w] THEN "SUPERSEDED"
              ELSE status[b]
BY DEF IInv, TypeOK, Commit, Activating, Superseding, Activates, LocksActive, LocksTarget,
       Loaded, Put, Ids

\* A commit leaves ACTIVE what was, but for the rows it supersedes, and adds its own.
LEMMA CommitActive ==
  ASSUME IInv, NEW w \in Workers, Commit(w)
  PROVE  /\ Active' \subseteq Active \cup {target[w]}
         /\ ~Activates(w) => Active' \subseteq Active
         /\ Activates(w) => Active' \subseteq {target[w]}
<1>1. \A b \in Ids : status'[b] =
        IF Activates(w) /\ b = target[w] THEN "ACTIVE"
        ELSE IF b \in active[w] /\ b # target[w] THEN "SUPERSEDED" ELSE status[b]
  BY CommitWrites
<1>2. Activates(w) => \A b \in Active : b = target[w] \/ b \in active[w]
  BY DEF IInv, Checked
<1> QED
  BY <1>1, <1>2 DEF Active

----
(* Type correctness and the inductive invariant.                           *)

\* The initial state satisfies the inductive invariant.
LEMMA InvInit == Init => IInv
<1>1. SUFFICES ASSUME Init PROVE IInv
  OBVIOUS
<1>2. TypeOK
  BY <1>1 DEF Init, TypeOK, Statuses, Steps, Ids
<1>3. Put = 1..0
  BY <1>1 DEF Init, Put
<1>4. LocksActive /\ LocksTarget /\ Loaded /\ Checked
  BY <1>1 DEF Init, LocksActive, LocksTarget, Loaded, Checked, Activates
<1>5. AtMostOneActive
  BY <1>1 DEF Init, AtMostOneActive, Active
<1> QED
  BY <1>2, <1>3, <1>4, <1>5 DEF IInv, Numbered

\* A new binding is no row that anybody has read or locked.
LEMMA InvPut ==
  ASSUME IInv, PutBinding
  PROVE  IInv'
<1>1. PICK n \in 0..MaxBindings : /\ Put = 1..n
                       /\ n + 1 \in Ids
                       /\ status' = [status EXCEPT ![n + 1] = "PENDING_CONFIRMATION"]
  BY NextNumber DEF IInv, PutBinding
<1>2. status[n + 1] = "ABSENT"
  BY <1>1 DEF Put
<1>3. Active' = Active
  BY <1>1, <1>2 DEF Active, IInv, TypeOK
<1>4. Put' = 1..(n + 1)
  BY <1>1 DEF Put, IInv, TypeOK
<1>5. TypeOK'
  BY <1>1 DEF PutBinding, IInv, TypeOK, Statuses
<1>6. LocksActive' /\ LocksTarget' /\ Loaded'
  BY <1>1, <1>2, <1>4
     DEF PutBinding, IInv, TypeOK, LocksActive, LocksTarget, Loaded, Put
<1>7. Checked' /\ AtMostOneActive'
  BY <1>3 DEF PutBinding, IInv, Checked, Activates, AtMostOneActive
<1> QED
  BY <1>1, <1>4, <1>5, <1>6, <1>7 DEF IInv, Numbered, Ids

\* Steps that read.
LEMMA InvRead ==
  ASSUME IInv, NEW w \in Workers,
         \/ \E b \in Ids : LoadBinding(w, b)
         \/ SelectActive(w) \/ Supersede(w)
  PROVE  IInv'
<1> USE DEF IInv, LoadBinding, SelectActive, Supersede, Goto
<1>1. TypeOK'
  <2>1. CASE \E b \in Ids : LoadBinding(w, b)
    <3>1. PICK b \in Ids : LoadBinding(w, b)
      BY <2>1
    <3>2. target' \in [Workers -> 0..MaxBindings]
      BY <3>1 DEF TypeOK, Ids
    <3>3. read' \in [Workers -> Statuses]
      BY <3>1 DEF TypeOK
    <3>4. pc' \in [Workers -> Steps] /\ \A v \in Workers : pc'[v] = "idle" <=> target'[v] = 0
      BY <3>1 DEF TypeOK, Steps, Ids
    <3> QED
      BY <3>1, <3>2, <3>3, <3>4 DEF TypeOK
  <2>2. active' \in [Workers -> SUBSET Ids]
    BY DEF TypeOK, Active
  <2>3. CASE SelectActive(w) \/ Supersede(w)
    BY <2>2, <2>3 DEF TypeOK, Steps
  <2> QED
    BY <2>1, <2>3
<1>2. Numbered' /\ AtMostOneActive'
  BY DEF Numbered, Put, AtMostOneActive, Active
<1>3. LocksActive' /\ LocksTarget' /\ Loaded'
  BY DEF TypeOK, LocksActive, LocksTarget, Loaded, Put
<1>4. Checked'
  BY DEF TypeOK, Checked, Activates, Active
<1> QED
  BY <1>1, <1>2, <1>3, <1>4

\* Steps that take row locks: they take them from nobody.
LEMMA InvLock ==
  ASSUME IInv, NEW w \in Workers, LockActive(w) \/ WriteBinding(w)
  PROVE  IInv'
<1> USE DEF IInv, LockActive, WriteBinding, Goto
<1>1. TypeOK'
  <2>1. locker' \in [Ids -> Workers \cup {NoWorker}] /\ active' \in [Workers -> SUBSET Ids]
    BY DEF TypeOK
  <2>2. pc' \in [Workers -> Steps]
    BY DEF TypeOK, Steps
  <2>3. \A v \in Workers : pc'[v] = "idle" <=> target'[v] = 0
    BY DEF TypeOK
  <2>4. \A b \in Ids : locker'[b] # NoWorker => pc'[locker'[b]] # "idle"
    BY DEF TypeOK
  <2> QED
    BY <2>1, <2>2, <2>3, <2>4 DEF TypeOK
<1>2. Numbered' /\ AtMostOneActive'
  BY DEF Numbered, Put, AtMostOneActive, Active
<1>3. \A b \in Ids : locker[b] \notin {w, NoWorker} => locker'[b] = locker[b]
  BY DEF TypeOK
<1>4. \A b \in Ids : locker[b] = w => locker'[b] = w
  BY DEF TypeOK
<1>5. LocksActive'
  BY <1>3, <1>4 DEF TypeOK, LocksActive
<1>6. LocksTarget' /\ Loaded'
  BY <1>3, <1>4 DEF TypeOK, LocksTarget, Loaded, Put
<1>7. Checked'
  BY DEF TypeOK, Checked, Activates, Active
<1> QED
  BY <1>1, <1>2, <1>5, <1>6, <1>7

\* The check of the unique index: nobody else may be about to activate another row,
\* and every ACTIVE row is superseded by w itself.
LEMMA InvCheck ==
  ASSUME IInv, NEW w \in Workers, CheckIndex(w)
  PROVE  IInv'
<1> USE DEF IInv
<1>1. TypeOK' /\ Numbered' /\ AtMostOneActive'
  BY DEF CheckIndex, Goto, TypeOK, Steps, Numbered, Put, AtMostOneActive, Active
<1>2. LocksActive' /\ LocksTarget' /\ Loaded'
  BY DEF CheckIndex, Goto, TypeOK, LocksActive, LocksTarget, Loaded, Put
<1>3. Checked'
  <2>1. \A v \in Workers \ {w} : Activates(v)' <=> Activates(v)
    BY DEF CheckIndex, Goto, TypeOK, Activates
  <2>2. CASE read[w] = "ACTIVE"
    BY <2>1, <2>2 DEF CheckIndex, Goto, TypeOK, Checked, Activates, Active
  <2>3. CASE read[w] # "ACTIVE"
    <3>1. Activating(w) # {} /\ Conflicting(w) = {} /\ Contested(w) = {}
      BY <2>3 DEF CheckIndex, Activating
    <3>2. ASSUME NEW b \in Active, b # target[w]
          PROVE  b \in active[w]
      <4>1. PICK v \in Workers : b \in Superseding(v)
        BY <3>1, <3>2 DEF Conflicting
      <4>2. v = w
        BY <3>1, <3>2, <4>1 DEF Contested
      <4> QED
        BY <4>1, <4>2 DEF Superseding
    <3>3. ASSUME NEW v \in Workers, v # w
          PROVE  ~Activates(v)
      <4>1. Activates(v) => target[v] = target[w]
        BY <3>1, <3>3 DEF Contested, Activating, Activates
      <4> QED
        BY <3>3, <4>1 DEF CheckIndex, LocksTarget, Activates
    <3>4. /\ active' = active /\ target' = target /\ Active' = Active
      BY DEF CheckIndex, Active
    <3> QED
      BY <2>1, <3>2, <3>3, <3>4 DEF Checked
  <2> QED
    BY <2>2, <2>3
<1> QED
  BY <1>1, <1>2, <1>3

\* A transaction that ends without a commit takes nothing but its own locks along.
LEMMA InvLeave ==
  ASSUME IInv, NEW w \in Workers, Refuse(w) \/ Crash(w) \/ DeadlockVictim(w)
  PROVE  IInv'
<1> USE DEF IInv
<1>1. Leave(w) /\ UNCHANGED <<status, confirmed>> /\ crashes' \in 0..MaxCrashes
  BY DEF Refuse, Crash, DeadlockVictim, TypeOK
<1>2. TypeOK'
  BY <1>1 DEF TypeOK, Leave, Goto, Steps, Statuses
<1>3. Numbered' /\ AtMostOneActive'
  BY <1>1 DEF Numbered, Put, AtMostOneActive, Active
<1>4. LocksActive' /\ LocksTarget' /\ Loaded'
  BY <1>1 DEF TypeOK, Leave, Goto, LocksActive, LocksTarget, Loaded, Put
<1>5. Checked'
  BY <1>1 DEF TypeOK, Leave, Goto, Checked, Activates, Active
<1> QED
  BY <1>2, <1>3, <1>4, <1>5

\* The commit.
LEMMA InvCommit ==
  ASSUME IInv, NEW w \in Workers, Commit(w)
  PROVE  IInv'
<1> USE DEF IInv
<1>1. /\ target[w] \in Put /\ locker[target[w]] = w
      /\ \A b \in Ids : status'[b] # status[b] => locker[b] = w
      /\ \A b \in Ids : status'[b] =
           IF Activates(w) /\ b = target[w] THEN "ACTIVE"
           ELSE IF b \in active[w] /\ b # target[w] THEN "SUPERSEDED"
           ELSE status[b]
  BY CommitWrites
<1>2. TypeOK'
  <2>1. status' \in [Ids -> Statuses]
    BY DEF Commit, TypeOK, Statuses
  <2>2. confirmed' \in [Ids -> BOOLEAN]
    BY DEF Commit, TypeOK
  <2> QED
    BY <2>1, <2>2 DEF Commit, Leave, Goto, TypeOK, Steps, Statuses
<1>3. Numbered'
  <2>1. Put' = Put
    BY <1>1 DEF Put, Loaded, LocksActive, Commit
  <2> QED
    BY <2>1 DEF Numbered
<1>4. LocksActive' /\ LocksTarget'
  BY <1>1 DEF Commit, Leave, Goto, TypeOK, LocksActive, LocksTarget, Loaded, Put
<1>5. Loaded'
  BY <1>1, <1>3 DEF Commit, Leave, Goto, TypeOK, Loaded, Put
<1>6. Checked'
  BY CommitActive DEF Commit, Leave, Goto, TypeOK, Checked, Activates
<1>7. AtMostOneActive'
  BY CommitActive DEF AtMostOneActive
<1> QED
  BY <1>2, <1>3, <1>4, <1>5, <1>6, <1>7

\* Every step preserves the inductive invariant.
LEMMA InvNext == IInv /\ [Next]_vars => IInv'
<1>1. SUFFICES ASSUME IInv, [Next]_vars PROVE IInv'
  OBVIOUS
<1>2. CASE PutBinding
  BY <1>1, <1>2, InvPut
<1>3. ASSUME NEW w \in Workers, Confirm(w) \/ Crash(w) \/ \E b \in Ids : LoadBinding(w, b)
      PROVE  IInv'
  BY <1>1, <1>3, InvRead, InvLock, InvCheck, InvLeave, InvCommit DEF Confirm
<1>4. CASE UNCHANGED vars
  BY <1>1, <1>4 DEF IInv, vars, TypeOK, Numbered, Put, LocksActive, LocksTarget, Loaded,
                    Checked, Activates, AtMostOneActive, Active
<1> QED
  BY <1>1, <1>2, <1>3, <1>4 DEF Next

\* The inductive invariant holds in every reachable state.
THEOREM Invariance == Spec => []IInv
BY InvInit, InvNext, PTL DEF Spec

----
\* The variables keep their types, and a thread holds locks and a target only inside
\* its transaction.
THEOREM TypeCorrect == Spec => []TypeOK
<1>1. IInv => TypeOK
  BY DEF IInv
<1> QED
  BY <1>1, Invariance, PTL

\* A taxpayer never has two ACTIVE bindings, whichever confirmations race, are
\* refused, are killed or are chosen as the victim of a deadlock.
THEOREM OneActive == Spec => []AtMostOneActive
<1>1. IInv => AtMostOneActive
  BY DEF IInv
<1> QED
  BY <1>1, Invariance, PTL

\* A commit that takes ACTIVE from a binding gives it to another one, unless the
\* confirmation was of a binding superseded behind its back (confirm_binding).
LEMMA StepSupersedes ==
  ASSUME IInv, [Next]_vars, NEW b \in Ids, status[b] = "ACTIVE", status'[b] # "ACTIVE"
  PROVE  \E w \in Workers :
           /\ pc[w] = "written" /\ target[w] # b
           /\ \/ status'[target[w]] = "ACTIVE"
              \/ read[w] = "ACTIVE" /\ status[target[w]] = "SUPERSEDED"
<1>1. ~PutBinding
  <2>1. SUFFICES ASSUME PutBinding PROVE FALSE
    OBVIOUS
  <2>2. PICK n \in 0..MaxBindings :
          Put = 1..n /\ status' = [status EXCEPT ![n + 1] = "PENDING_CONFIRMATION"]
    BY <2>1, NextNumber DEF IInv, PutBinding
  <2> QED
    BY <2>2 DEF IInv, TypeOK, Put
<1>2. PICK w \in Workers : Commit(w)
  BY <1>1 DEF Next, vars, Confirm, Crash, LoadBinding, SelectActive, LockActive, Supersede,
              WriteBinding, CheckIndex, Refuse, DeadlockVictim
<1>3. /\ b \in active[w] /\ b # target[w] /\ target[w] \in Ids
      /\ Activates(w) => status'[target[w]] = "ACTIVE"
  BY <1>2, CommitWrites DEF Put
<1>4. CASE Activates(w)
  BY <1>2, <1>3, <1>4 DEF Activates
<1>5. CASE ~Activates(w)
  <2>1. read[w] = "ACTIVE" /\ pc[w] = "written"
    BY <1>2, <1>5 DEF Commit, Activates
  <2>2. status[target[w]] \in {"ACTIVE", "SUPERSEDED"}
    BY <2>1 DEF IInv, Loaded
  <2>3. status[target[w]] # "ACTIVE"
    BY <1>3 DEF IInv, AtMostOneActive, Active
  <2> QED
    BY <1>3, <2>1, <2>2, <2>3
<1> QED
  BY <1>4, <1>5

\* No confirmation takes ACTIVE away without giving it, but for the one of finding 1.
THEOREM SupersededOnlyByAnother == Spec => SupersededByAnother
<1>1. IInv /\ [Next]_vars =>
        [\A b \in Ids :
           status[b] = "ACTIVE" /\ status'[b] # "ACTIVE" =>
             \E w \in Workers :
               /\ pc[w] = "written" /\ target[w] # b
               /\ \/ status'[target[w]] = "ACTIVE"
                  \/ read[w] = "ACTIVE" /\ status[target[w]] = "SUPERSEDED"]_vars
  BY StepSupersedes
<1> QED
  BY <1>1, Invariance, PTL DEF Spec, SupersededByAnother
=============================================================================
