--------------------------- MODULE ReconcileProofs ---------------------------
(***************************************************************************)
(* Proofs about Reconcile, for any jobs, invoices, bindings, accounts and  *)
(* any number of crashes.                                                  *)
(*                                                                         *)
(* The argument: what a run is about to store was listed from the account  *)
(* it set out with (Picked).  A run that has stored a direction holds the  *)
(* checkpoint row of that account until it commits, so no other run puts   *)
(* its documents between (Unstored, Saw).  The binding a run began with    *)
(* has the account it lists, so that only a document pinned to another one *)
(* can move (FiledWhereListed, Pinned).  A second invariant (Windowed)     *)
(* follows a window from the checkpoint it starts at to the watermark it   *)
(* leaves.                                                                 *)
(***************************************************************************)
EXTENDS Reconcile, TLAPS

\* How far a run is that has stored a direction.
Order(j) ==
  /\ seen[j]["in"].mark # Absent => pc[j] \in {"read_out", "store_out", "commit"}
  /\ seen[j]["out"].mark # Absent => pc[j] = "commit"

\* What a direction that is over has listed was stored, unless there was an error or no
\* binding any more.
Settled(j, s) ==
  seen[j][s].account # None /\ ~seen[j][s].error =>
    seen[j][s].mark # Absent \/ (s = "in" /\ seen[j][s].gone)

Dealt(j) ==
  /\ pc[j] \in {"read_out", "store_out", "commit"} => Settled(j, "in")
  /\ pc[j] = "commit" => Settled(j, "out")

\* What a run lists, fetches and creates is the provider's, and its own to store.
Picked(j, s) ==
  LET v == seen[j][s] IN
  /\ \A i \in v.offered : SideOf[i] = s /\ ItemAccount[i] = v.account
  /\ v.listed \subseteq v.offered /\ v.fetched \subseteq v.listed
  /\ v.created \subseteq v.fetched \ v.existing
  /\ v.existing \subseteq Stored(s)
  /\ v.account # None => v.began \in Sources(s) /\ AccountOf[v.began] = v.account
  /\ pc[j] = At.store[s] => v.account # None
  /\ s = "in" /\ (pc[j] = At.store[s] \/ v.mark # Absent) => v.source \in Bindings
  /\ v.created # {} => v.mark # Absent
  /\ v.mark # Absent => /\ v.account # None /\ lock[s][v.account] = j
                        /\ v.fetched \subseteq v.created \cup Stored(s)

\* No inbound document that a run has inserted is committed yet, under its account.
Unstored(j) == seen[j]["in"].created \cap Known("in", seen[j]["in"].account) = {}

\* A run that looks for sent documents behind its inbound lock sees all of its account
\* that were stored behind that lock.
Saw(j) ==
  seen[j]["in"].mark # Absent /\ (pc[j] = "store_out" \/ seen[j]["out"].mark # Absent) =>
    \A d \in docs :
      SideOf[d.item] = "out" /\ d.behind = seen[j]["in"].account
        /\ d.account = seen[j]["out"].account => d.item \in seen[j]["out"].existing

Sound(j) ==
  Order(j) /\ Dealt(j) /\ (\A s \in Sides : Picked(j, s)) /\ Unstored(j) /\ Saw(j)

\* An inbound document has a binding, whose account it can move to.
Pinned == \A d \in docs : SideOf[d.item] = "in" => d.source \in Bindings

Filed == StoredOnce /\ FiledWhereListed /\ CopiesNotBehindOneLock /\ Pinned

IInv == TypeOK /\ Filed /\ \A j \in Jobs : Sound(j)

USE ReconcileAssumption DEF ReconcileAssumption

----
(* Steps and rows.                                                         *)

\* The names of the steps about each direction.
LEMMA StepNames ==
  /\ At.list["in"] = "list_in" /\ At.list["out"] = "list_out"
  /\ At.read["in"] = "read_in" /\ At.read["out"] = "read_out"
  /\ At.store["in"] = "store_in" /\ At.store["out"] = "store_out"
  /\ After("list", "in") = "list_out" /\ After("list", "out") = "read_in"
  /\ After("store", "in") = "read_out" /\ After("store", "out") = "commit"
  /\ Steps = {"none", "queued", "running", "setup", "commit", "ended", "list_in", "list_out",
              "read_in", "read_out", "store_in", "store_out"}
BY DEF At, After, Steps, Sides

\* A direction that a run has nothing to do with.
LEMMA NothingType == Nothing \in SeenRows
BY DEF Nothing, SeenRows, Days, Absent

\* A window begins in the range of the types.
LEMMA WindowType ==
  ASSUME TypeOK, NEW m \in Marks
  PROVE  WindowStart(m) \in (-Initial - Overlap)..LastDay
BY DEF TypeOK, WindowStart, Marks, Days, Absent, Fresh

\* A step gives one direction of one run a new row.
Sees(j, s, v) == seen' = [seen EXCEPT ![j][s] = v]

\* What such a step leaves of the other rows.
LEMMA SeenAt ==
  ASSUME TypeOK, NEW j \in Jobs, NEW s \in Sides, NEW v \in SeenRows, Sees(j, s, v)
  PROVE  /\ seen' \in [Jobs -> [Sides -> SeenRows]]
         /\ seen'[j][s] = v
         /\ \A t \in Sides \ {s} : seen'[j][t] = seen[j][t]
         /\ \A k \in Jobs \ {j} : seen'[k] = seen[k]
BY DEF TypeOK, Sees

\* The run goes on to a step.
LEMMA PcAt ==
  ASSUME TypeOK, NEW j \in Jobs, NEW step \in Steps, Goto(j, step)
  PROVE  /\ pc' \in [Jobs -> Steps]
         /\ pc'[j] = step
         /\ \A k \in Jobs \ {j} : pc'[k] = pc[k]
BY DEF TypeOK, Goto

\* A run holds no lock before it has stored a direction.
LEMMA NoLock ==
  ASSUME TypeOK, NEW j \in Jobs, Order(j), NEW s \in Sides,
         pc[j] \notin {"read_out", "store_out", "commit"}
  PROVE  seen[j][s].mark = Absent /\ \A a \in Accounts : lock[s][a] # j
BY DEF TypeOK, Order, Sides

\* The items of a set of stored documents.
LEMMA StoredType ==
  ASSUME TypeOK, NEW s \in Sides
  PROVE  Stored(s) \subseteq Items
BY DEF TypeOK, Stored, DocRows

\* Documents known by their account are stored.
LEMMA KnownStored ==
  ASSUME NEW s \in Sides, NEW a
  PROVE  Known(s, a) \subseteq Stored(s)
BY DEF Known, Stored

\* What a step leaves alone keeps the soundness of a run: the documents, what the run
\* has read, how far it is, and the locks it holds.
LEMMA SoundKept ==
  ASSUME NEW j \in Jobs, Sound(j), docs' = docs, pc'[j] = pc[j], seen'[j] = seen[j],
         \A s \in Sides : lock[s][seen[j][s].account] = j => lock'[s][seen[j][s].account] = j
  PROVE  Sound(j)'
<1>1. \A s \in Sides : Stored(s)' = Stored(s)
  BY DEF Stored
<1> QED
  BY <1>1 DEF Sound, Order, Dealt, Settled, Picked, Unstored, Known, Saw, Sides

\* A run that has read nothing.
LEMMA SoundNothing ==
  ASSUME NEW j \in Jobs, seen'[j] = [s \in Sides |-> Nothing], pc'[j] \in {"ended", "running"}
  PROVE  Sound(j)'
BY StepNames DEF Sound, Order, Dealt, Settled, Picked, Unstored, Saw, Nothing, Sides

\* The documents do not change.
LEMMA DocsKept ==
  ASSUME docs' = docs
  PROVE  Filed => Filed'
BY DEF Filed, StoredOnce, FiledWhereListed, CopiesNotBehindOneLock, Pinned

----
\* The initial state satisfies the inductive invariant.
LEMMA InvInit == Init => IInv
<1>1. SUFFICES ASSUME Init PROVE IInv
  OBVIOUS
<1>2. TypeOK
  <2>1. seen \in [Jobs -> [Sides -> SeenRows]]
    BY <1>1, NothingType DEF Init
  <2>2. pc \in [Jobs -> Steps]
    BY <1>1, StepNames DEF Init
  <2>3. today \in Days /\ received \in [Items -> Days \cup {NotYet}]
    BY <1>1 DEF Init, Days, NotYet
  <2>4. checkpoint \in [Sides -> [Accounts -> Marks]]
    BY <1>1 DEF Init, Marks
  <2>5. status \in [Jobs -> Statuses]
    BY <1>1 DEF Init, Statuses
  <2>6. lock \in [Sides -> [Accounts -> Jobs \cup {None}]]
        /\ \A s \in Sides, a \in Accounts : lock[s][a] = None
    BY <1>1 DEF Init
  <2>7. /\ source \in [Sides -> Bindings \cup Configs \cup {None}] /\ docs = {} /\ passed = {}
        /\ \A s \in Sides : source[s] \in Sources(s) \cup {None}
        /\ crashes \in 0..MaxCrashes
    BY <1>1 DEF Init
  <2> QED
    BY <2>1, <2>2, <2>3, <2>4, <2>5, <2>6, <2>7 DEF TypeOK
<1>3. Filed
  BY <1>1 DEF Init, Filed, StoredOnce, FiledWhereListed, CopiesNotBehindOneLock, Pinned
<1>4. \A j \in Jobs : Sound(j)
  BY <1>1, StepNames DEF Init, Sound, Order, Dealt, Settled, Picked, Unstored, Saw, Nothing, Sides
<1> QED
  BY <1>2, <1>3, <1>4 DEF IInv

\* The provider, the operator and the calendar.
LEMMA InvEnvironment ==
  ASSUME IInv, \/ Tick \/ \E i \in Items : Receive(i)
               \/ \E s \in Sides, c \in Bindings \cup Configs \cup {None} : Rebind(s, c)
  PROVE  IInv'
<1> USE DEF Tick, Receive, Rebind
<1>1. TypeOK'
  <2>1. today' \in Days
    BY DEF IInv, TypeOK, Days
  <2>3. received' \in [Items -> Days \cup {NotYet}]
    BY DEF IInv, TypeOK
  <2>2. /\ source' \in [Sides -> Bindings \cup Configs \cup {None}]
        /\ \A s \in Sides : source'[s] \in Sources(s) \cup {None}
    <3>1. /\ source \in [Sides -> Bindings \cup Configs \cup {None}]
          /\ \A s \in Sides : source[s] \in Sources(s) \cup {None}
      BY DEF IInv, TypeOK
    <3>2. CASE source' = source
      BY <3>1, <3>2
    <3>3. CASE \E s \in Sides, c \in Bindings \cup Configs \cup {None} : Rebind(s, c)
      <4> PICK s \in Sides, c \in Bindings \cup Configs \cup {None} : Rebind(s, c)
        BY <3>3
      <4>1. source' = [source EXCEPT ![s] = c] /\ c \in Sources(s) \cup {None}
        OBVIOUS
      <4> QED
        BY <3>1, <4>1
    <3> QED
      BY <3>2, <3>3
  <2> QED
    BY <2>1, <2>2, <2>3 DEF IInv, TypeOK
<1>2. docs' = docs /\ pc' = pc /\ seen' = seen /\ lock' = lock
  OBVIOUS
<1>3. \A j \in Jobs : Sound(j)'
  BY <1>2, SoundKept DEF IInv
<1> QED
  BY <1>1, <1>2, <1>3, DocsKept DEF IInv

\* Steps before the run has read anything.
LEMMA InvStart ==
  ASSUME IInv, NEW j \in Jobs, Start(j) \/ Run(j)
  PROVE  IInv'
<1> USE DEF Start, Run
<1>1. TypeOK'
  <2>1. \E step \in Steps : Goto(j, step)
    BY StepNames
  <2>2. pc' \in [Jobs -> Steps]
    BY <2>1, PcAt DEF IInv
  <2>3. status' \in [Jobs -> Statuses]
    BY DEF IInv, TypeOK, Statuses
  <2> QED
    BY <2>2, <2>3 DEF IInv, TypeOK
<1>2. docs' = docs /\ seen' = seen /\ lock' = lock /\ \A k \in Jobs \ {j} : pc'[k] = pc[k]
  BY DEF IInv, TypeOK, Goto
<1>3. \A k \in Jobs \ {j} : Sound(k)'
  BY <1>2, SoundKept DEF IInv
<1>4. Sound(j)'
  <2>1. pc[j] \in {"none", "queued"} /\ pc'[j] \in {"queued", "running"}
    BY DEF IInv, TypeOK, Goto
  <2>2. \A s \in Sides : Stored(s)' = Stored(s)
    BY <1>2 DEF Stored
  <2> QED
    BY <1>2, <2>1, <2>2, StepNames DEF IInv, Sound, Order, Dealt, Settled, Picked, Unstored,
       Known, Saw, Sides
<1> QED
  BY <1>1, <1>2, <1>3, <1>4, DocsKept DEF IInv

\* The end of a run leaves the others their rows and their locks.
LEMMA LeaveKept ==
  ASSUME TypeOK, NEW j \in Jobs, Leave(j)
  PROVE  /\ pc' \in [Jobs -> Steps] /\ pc'[j] = "ended"
         /\ seen' \in [Jobs -> [Sides -> SeenRows]] /\ seen'[j] = [s \in Sides |-> Nothing]
         /\ lock' \in [Sides -> [Accounts -> Jobs \cup {None}]]
         /\ \A k \in Jobs \ {j} : pc'[k] = pc[k] /\ seen'[k] = seen[k]
         /\ \A s \in Sides, a \in Accounts :
              lock'[s][a] = IF lock[s][a] = j THEN None ELSE lock[s][a]
         /\ \A s \in Sides, a \in Accounts :
              lock'[s][a] # None => seen'[lock'[s][a]][s].mark # Absent
<1> USE DEF Leave, Goto
<1>1. seen' \in [Jobs -> [Sides -> SeenRows]] /\ seen'[j] = [s \in Sides |-> Nothing]
  BY NothingType DEF TypeOK
<1>2. lock' \in [Sides -> [Accounts -> Jobs \cup {None}]]
  BY DEF TypeOK
<1>3. pc' \in [Jobs -> Steps] /\ pc'[j] = "ended"
  BY StepNames DEF TypeOK
<1>4. \A k \in Jobs \ {j} : pc'[k] = pc[k] /\ seen'[k] = seen[k]
  BY DEF TypeOK
<1>5. \A s \in Sides, a \in Accounts : lock'[s][a] = IF lock[s][a] = j THEN None ELSE lock[s][a]
  OBVIOUS
<1>6. ASSUME NEW s \in Sides, NEW a \in Accounts, lock'[s][a] # None
      PROVE  seen'[lock'[s][a]][s].mark # Absent
  <2>1. lock'[s][a] = lock[s][a] /\ lock[s][a] \in Jobs \ {j}
    BY <1>5, <1>6 DEF TypeOK
  <2>2. seen[lock[s][a]][s].mark # Absent
    BY <1>6, <2>1 DEF TypeOK
  <2> QED
    BY <1>4, <2>1, <2>2
<1> QED
  BY <1>1, <1>2, <1>3, <1>4, <1>5, <1>6

\* A run that ends without a commit.
LEMMA InvLeave ==
  ASSUME IInv, NEW j \in Jobs, Leave(j),
         UNCHANGED <<today, received, source, checkpoint, docs, passed>>,
         status' \in [Jobs -> Statuses], crashes' \in 0..MaxCrashes
  PROVE  IInv'
<1>0. TypeOK
  BY DEF IInv
<1>1. \A k \in Jobs \ {j} : pc'[k] = pc[k] /\ seen'[k] = seen[k]
  BY <1>0, LeaveKept
<1>2. \A s \in Sides, a \in Accounts : lock'[s][a] = IF lock[s][a] = j THEN None ELSE lock[s][a]
  BY <1>0, LeaveKept
<1>3. TypeOK'
  <2>1. /\ pc' \in [Jobs -> Steps] /\ seen' \in [Jobs -> [Sides -> SeenRows]]
        /\ lock' \in [Sides -> [Accounts -> Jobs \cup {None}]]
        /\ \A s \in Sides, a \in Accounts :
             lock'[s][a] # None => seen'[lock'[s][a]][s].mark # Absent
    BY <1>0, LeaveKept
  <2> QED
    BY <1>0, <2>1 DEF TypeOK
<1>4. ASSUME NEW k \in Jobs \ {j} PROVE Sound(k)'
  <2>1. \A s \in Sides :
          lock[s][seen[k][s].account] = k => seen[k][s].account \in Accounts \cup {None}
    BY DEF IInv, TypeOK, SeenRows
  <2>2. \A s \in Sides : seen[k][s].mark # Absent => lock'[s][seen[k][s].account] = k
    BY <1>2 DEF IInv, TypeOK, SeenRows, Sound, Picked
  <2>3. \A s \in Sides : Stored(s)' = Stored(s)
    BY DEF Stored
  <2>4. pc'[k] = pc[k] /\ seen'[k] = seen[k] /\ docs' = docs
    BY <1>1
  <2>5. Order(k)' /\ Dealt(k)' /\ Unstored(k)' /\ Saw(k)'
    BY <2>3, <2>4 DEF IInv, Sound, Order, Dealt, Settled, Unstored, Known, Saw, Sides
  <2>6. \A s \in Sides : Picked(k, s)'
    BY <2>2, <2>3, <2>4 DEF IInv, Sound, Picked
  <2> QED
    BY <2>5, <2>6 DEF Sound
<1>5. Sound(j)'
  BY <1>0, LeaveKept, SoundNothing
<1> QED
  BY <1>3, <1>4, <1>5, DocsKept DEF IInv

----
(* The setup and the listings.                                             *)

\* The first transaction reads what the run will be about.
LEMMA InvSetup ==
  ASSUME IInv, NEW j \in Jobs, Setup(j)
  PROVE  IInv'
<1>1. PICK f \in Directions :
        seen' = [seen EXCEPT ![j] = [s \in Sides |->
                   IF f[s] = None THEN Nothing
                   ELSE [Nothing EXCEPT !.account = f[s], !.began = source[s],
                                        !.insert = checkpoint[s][f[s]] = Absent,
                                        !.from = WindowStart(checkpoint[s][f[s]]),
                                        !.to = today]]]
  BY DEF Setup
<1>2. /\ f \in [Sides -> Accounts \cup {None}]
      /\ \A s \in Sides :
           f[s] # None => source[s] \in Sources(s) /\ AccountOf[source[s]] = f[s]
  BY DEF Directions, IInv, TypeOK, Sides
<1>3. ASSUME NEW s \in Sides, f[s] # None
      PROVE  [Nothing EXCEPT !.account = f[s], !.began = source[s],
                             !.insert = checkpoint[s][f[s]] = Absent,
                             !.from = WindowStart(checkpoint[s][f[s]]), !.to = today] \in SeenRows
  <2>1. f[s] \in Accounts /\ checkpoint[s][f[s]] \in Marks /\ today \in Days
    BY <1>2, <1>3 DEF IInv, TypeOK
  <2>2. WindowStart(checkpoint[s][f[s]]) \in (-Initial - Overlap)..LastDay
    BY <2>1, WindowType DEF IInv
  <2>3. (checkpoint[s][f[s]] = Absent) \in BOOLEAN
    OBVIOUS
  <2> QED
    BY <1>2, <1>3, <2>1, <2>2, <2>3, NothingType DEF SeenRows, IInv, TypeOK
<1>4. TypeOK'
  <2>1. seen' \in [Jobs -> [Sides -> SeenRows]]
    BY <1>1, <1>3, NothingType DEF IInv, TypeOK
  <2>2. \A s \in Sides, a \in Accounts : lock[s][a] # j
    BY NoLock DEF IInv, Sound, Setup
  <2>3. ASSUME NEW s \in Sides, NEW a \in Accounts, lock[s][a] # None
        PROVE  seen'[lock[s][a]][s].mark # Absent
    <3>1. lock[s][a] \in Jobs \ {j} /\ seen[lock[s][a]][s].mark # Absent
      BY <2>2, <2>3 DEF IInv, TypeOK
    <3>2. \A k \in Jobs \ {j} : seen'[k] = seen[k]
      BY <1>1 DEF IInv, TypeOK
    <3> QED
      BY <3>1, <3>2
  <2>4. pc' \in [Jobs -> Steps]
    BY PcAt, StepNames DEF IInv, Setup
  <2> QED
    BY <2>1, <2>3, <2>4 DEF IInv, TypeOK, Setup
<1>5. docs' = docs /\ lock' = lock /\ \A k \in Jobs \ {j} : pc'[k] = pc[k] /\ seen'[k] = seen[k]
  BY <1>1 DEF IInv, TypeOK, Setup, Goto
<1>6. \A k \in Jobs \ {j} : Sound(k)'
  BY <1>5, SoundKept DEF IInv
<1>7. Sound(j)'
  <2>1. \A s \in Sides : /\ seen'[j][s].mark = Absent
                         /\ seen'[j][s].offered = {} /\ seen'[j][s].listed = {}
                         /\ seen'[j][s].fetched = {} /\ seen'[j][s].created = {}
                         /\ seen'[j][s].existing = {}
    BY <1>1 DEF IInv, TypeOK, Nothing
  <2>2. pc'[j] = "setup"
    BY DEF IInv, TypeOK, Setup, Goto
  <2>3. \A s \in Sides :
          \/ seen'[j][s].account = None
          \/ f[s] # None /\ seen'[j][s].account = f[s] /\ seen'[j][s].began = source[s]
    BY <1>1 DEF IInv, TypeOK, Nothing
  <2>4. \A s \in Sides : Picked(j, s)'
    BY <1>2, <2>1, <2>2, <2>3, StepNames DEF Picked, Sides, Sources
  <2> QED
    BY <2>1, <2>2, <2>4, StepNames DEF Sound, Order, Dealt, Unstored, Saw, Sides
<1> QED
  BY <1>4, <1>5, <1>6, <1>7, DocsKept DEF IInv

\* Steps that only go on: the setup's commit, and directions with nothing to list.
LEMMA InvGoOn ==
  ASSUME IInv, NEW j \in Jobs, SetupCommit(j) \/ \E s \in Sides : NothingToList(j, s)
  PROVE  IInv'
<1>1. docs' = docs /\ lock' = lock /\ seen' = seen /\ \A k \in Jobs \ {j} : pc'[k] = pc[k]
  BY DEF IInv, TypeOK, SetupCommit, NothingToList, Goto
<1>2. /\ pc[j] \in {"setup", "list_in", "list_out"}
      /\ pc'[j] \in {"list_in", "list_out", "read_in"}
  BY StepNames DEF IInv, TypeOK, SetupCommit, NothingToList, Goto, Sides
<1>3. TypeOK'
  <2>1. checkpoint' \in [Sides -> [Accounts -> Marks]]
    BY DEF IInv, TypeOK, SetupCommit, NothingToList, Marks
  <2>2. pc' \in [Jobs -> Steps]
    <3>1. \E step \in Steps : Goto(j, step)
      BY StepNames DEF SetupCommit, NothingToList, Sides
    <3> QED
      BY <3>1, PcAt DEF IInv
  <2> QED
    BY <1>1, <2>1, <2>2 DEF IInv, TypeOK, SetupCommit, NothingToList
<1>4. \A k \in Jobs \ {j} : Sound(k)'
  BY <1>1, SoundKept DEF IInv
<1>5. Sound(j)'
  <2>1. \A s \in Sides : Stored(s)' = Stored(s)
    BY <1>1 DEF Stored
  <2> QED
    BY <1>1, <1>2, <2>1, StepNames DEF IInv, Sound, Order, Dealt, Picked, Unstored, Known,
       Saw, Sides
<1> QED
  BY <1>1, <1>3, <1>4, <1>5, DocsKept DEF IInv

\* A direction that stores nothing: none was listed, or it failed, or its binding is gone.
LEMMA InvNothingToStore ==
  ASSUME IInv, NEW j \in Jobs, NEW s \in Sides, NothingToStore(j, s)
  PROVE  IInv'
<1> DEFINE u == seen[j][s]
           lost == u.account # None /\ ~u.error
           v == [u EXCEPT !.gone = lost]
<1>1. TypeOK /\ u \in SeenRows
  BY DEF IInv, TypeOK
<1>2. v \in SeenRows
  <2>1. lost \in BOOLEAN
    BY <1>1 DEF SeenRows
  <2> QED
    BY <1>1, <2>1 DEF SeenRows
<1>3. /\ v.gone = lost /\ v.account = u.account /\ v.offered = u.offered
      /\ v.listed = u.listed /\ v.fetched = u.fetched /\ v.created = u.created
      /\ v.mark = u.mark /\ v.existing = u.existing /\ v.error = u.error
      /\ v.began = u.began /\ v.source = u.source
  BY <1>1 DEF SeenRows
<1>4. Sees(j, s, v)
  BY <1>1 DEF NothingToStore, Sees, TypeOK
<1> HIDE DEF v
<1>5. /\ seen' \in [Jobs -> [Sides -> SeenRows]] /\ seen'[j][s] = v
      /\ \A t \in Sides \ {s} : seen'[j][t] = seen[j][t]
      /\ \A k \in Jobs \ {j} : seen'[k] = seen[k]
  BY <1>1, <1>2, <1>4, SeenAt
<1>6. Goto(j, After("store", s)) /\ After("store", s) \in Steps
  BY StepNames DEF NothingToStore, Sides
<1>7. /\ pc' \in [Jobs -> Steps] /\ pc'[j] = After("store", s)
      /\ \A k \in Jobs \ {j} : pc'[k] = pc[k]
  BY <1>1, <1>6, PcAt
<1>8. docs' = docs /\ lock' = lock /\ pc[j] = At.read[s] /\ ~Persists(j, s)
  BY DEF NothingToStore
<1>9. TypeOK'
  <2>1. \A k \in Jobs, t \in Sides : seen'[k][t].mark = seen[k][t].mark
    BY <1>3, <1>5
  <2>2. \A t \in Sides, a \in Accounts : lock[t][a] # None => lock[t][a] \in Jobs
    BY <1>1 DEF TypeOK
  <2>3. ASSUME NEW t \in Sides, NEW a \in Accounts, lock'[t][a] # None
        PROVE  seen'[lock'[t][a]][t].mark # Absent
    <3>1. lock'[t][a] = lock[t][a] /\ lock[t][a] \in Jobs
      BY <1>8, <2>2, <2>3
    <3>2. seen[lock[t][a]][t].mark # Absent
      BY <1>1, <1>8, <2>3 DEF TypeOK
    <3> QED
      BY <2>1, <3>1, <3>2
  <2> QED
    BY <1>1, <1>5, <1>7, <1>8, <2>3 DEF TypeOK, NothingToStore
<1>10. \A k \in Jobs \ {j} : Sound(k)'
  BY <1>5, <1>7, <1>8, SoundKept DEF IInv
<1>11. Sound(j)'
  <2>1. \A t \in Sides : Stored(t)' = Stored(t)
    BY <1>8 DEF Stored
  <2>2. /\ Order(j) /\ Dealt(j) /\ Unstored(j) /\ Saw(j)
        /\ \A t \in Sides : Picked(j, t)
    BY DEF IInv, Sound
  <2>3. Picked(j, s)'
    BY <1>3, <1>5, <1>7, <1>8, <2>1, <2>2, StepNames DEF Picked, Sides
  <2>4. \A t \in Sides \ {s} : Picked(j, t)'
    BY <1>5, <1>7, <1>8, <2>1, <2>2, StepNames DEF Picked, Sides
  <2>5. Order(j)' /\ Unstored(j)' /\ Saw(j)'
    BY <1>3, <1>5, <1>7, <1>8, <2>2, StepNames DEF Order, Unstored, Known, Saw, Sides
  <2>6. Settled(j, s)'
    <3>1. CASE s = "in"
      BY <1>3, <1>5, <3>1 DEF Settled
    <3>2. CASE s = "out"
      BY <1>3, <1>5, <1>8, <3>2 DEF Settled, Persists
    <3> QED
      BY <3>1, <3>2 DEF Sides
  <2>7. Dealt(j)'
    <3>1. CASE s = "in"
      BY <1>7, <2>6, <3>1, StepNames DEF Dealt
    <3>2. CASE s = "out"
      <4>1. Settled(j, "in")'
        BY <1>5, <1>8, <2>2, <3>2, StepNames DEF Dealt, Settled, Sides
      <4> QED
        BY <2>6, <3>2, <4>1 DEF Dealt
    <3> QED
      BY <3>1, <3>2 DEF Sides
  <2> QED
    BY <2>3, <2>4, <2>5, <2>7 DEF Sound
<1> QED
  BY <1>8, <1>9, <1>10, <1>11, DocsKept DEF IInv

\* What a listing or its error makes of a direction.
Listed(j, s, v) ==
  /\ Sees(j, s, v)
  /\ v.account = seen[j][s].account /\ v.existing = seen[j][s].existing
  /\ v.created = seen[j][s].created /\ v.mark = seen[j][s].mark
  /\ v.began = seen[j][s].began
  /\ v.fetched \subseteq v.listed /\ v.listed \subseteq v.offered
  /\ \A i \in v.offered : SideOf[i] = s /\ ItemAccount[i] = v.account

\* The provider's answer is of the account that the run asked for.
LEMMA ListedRow ==
  ASSUME IInv, NEW j \in Jobs, NEW s \in Sides, List(j, s) \/ ListError(j, s)
  PROVE  \E v \in SeenRows : Listed(j, s, v)
<1> DEFINE u == seen[j][s]
<1>1. u \in SeenRows
  BY DEF IInv, TypeOK
<1>2. CASE List(j, s)
  <2>1. PICK listed \in SUBSET Offered(j, s) : \E fetched \in SUBSET listed :
          seen' = [seen EXCEPT ![j][s].offered = Offered(j, s),
                               ![j][s].listed = listed, ![j][s].fetched = fetched]
    BY <1>2 DEF List
  <2>2. PICK fetched \in SUBSET listed :
          seen' = [seen EXCEPT ![j][s].offered = Offered(j, s),
                               ![j][s].listed = listed, ![j][s].fetched = fetched]
    BY <2>1
  <2> DEFINE v == [u EXCEPT !.offered = Offered(j, s), !.listed = listed, !.fetched = fetched]
  <2>3. Sees(j, s, v)
    BY <2>2 DEF IInv, TypeOK, Sees
  <2>4. /\ Offered(j, s) \in SUBSET Items
        /\ \A i \in Offered(j, s) : SideOf[i] = s /\ ItemAccount[i] = u.account
    BY DEF Offered
  <2>5. v \in SeenRows
    BY <1>1, <2>4 DEF SeenRows
  <2>6. /\ v.offered = Offered(j, s) /\ v.listed = listed /\ v.fetched = fetched
        /\ v.account = u.account /\ v.existing = u.existing
        /\ v.created = u.created /\ v.mark = u.mark /\ v.began = u.began
    BY <1>1 DEF SeenRows
  <2> QED
    BY <2>3, <2>4, <2>5, <2>6 DEF Listed
<1>3. CASE ListError(j, s)
  <2> DEFINE v == [u EXCEPT !.error = TRUE]
  <2>1. Sees(j, s, v)
    BY <1>3 DEF ListError, IInv, TypeOK, Sees
  <2>2. v \in SeenRows
    BY <1>1 DEF SeenRows
  <2>3. /\ v.offered = u.offered /\ v.listed = u.listed /\ v.fetched = u.fetched
        /\ v.account = u.account /\ v.existing = u.existing
        /\ v.created = u.created /\ v.mark = u.mark /\ v.began = u.began
    BY <1>1 DEF SeenRows
  <2>4. /\ u.fetched \subseteq u.listed /\ u.listed \subseteq u.offered
        /\ \A i \in u.offered : SideOf[i] = s /\ ItemAccount[i] = u.account
    BY DEF IInv, Sound, Picked
  <2> QED
    BY <2>1, <2>2, <2>3, <2>4 DEF Listed
<1> QED
  BY <1>2, <1>3

\* A listing, or its error.
LEMMA InvList ==
  ASSUME IInv, NEW j \in Jobs, NEW s \in Sides, List(j, s) \/ ListError(j, s)
  PROVE  IInv'
<1>0. TypeOK
  BY DEF IInv
<1>p. PICK v \in SeenRows : Listed(j, s, v)
  BY ListedRow
<1>1. /\ Sees(j, s, v)
      /\ v.account = seen[j][s].account /\ v.existing = seen[j][s].existing
      /\ v.created = seen[j][s].created /\ v.mark = seen[j][s].mark
      /\ v.began = seen[j][s].began
      /\ v.fetched \subseteq v.listed /\ v.listed \subseteq v.offered
      /\ \A i \in v.offered : SideOf[i] = s /\ ItemAccount[i] = v.account
  BY <1>p DEF Listed
<1>2. /\ seen' \in [Jobs -> [Sides -> SeenRows]] /\ seen'[j][s] = v
      /\ \A t \in Sides \ {s} : seen'[j][t] = seen[j][t]
      /\ \A k \in Jobs \ {j} : seen'[k] = seen[k]
  BY <1>0, <1>1, SeenAt
<1>3. PICK step \in Steps : Goto(j, step) /\ step \in {"list_out", "read_in"}
  BY StepNames DEF List, ListError, Sides
<1>4. /\ pc' \in [Jobs -> Steps] /\ pc'[j] = step
      /\ \A k \in Jobs \ {j} : pc'[k] = pc[k]
  BY <1>3, PcAt DEF IInv
<1>5. pc[j] \in {"list_in", "list_out"} /\ docs' = docs /\ lock' = lock
  BY StepNames DEF List, ListError, Sides
<1>6. \A t \in Sides : seen[j][t].mark = Absent /\ \A a \in Accounts : lock[t][a] # j
  BY <1>5, NoLock DEF IInv, Sound
<1>7. TypeOK'
  <2>1. \A t \in Sides, a \in Accounts : lock'[t][a] # None => seen'[lock'[t][a]][t].mark # Absent
    BY <1>2, <1>5, <1>6 DEF IInv, TypeOK
  <2> QED
    BY <1>2, <1>4, <1>5, <2>1 DEF IInv, TypeOK, List, ListError
<1>8. \A k \in Jobs \ {j} : Sound(k)'
  BY <1>2, <1>4, <1>5, SoundKept DEF IInv
<1>9. Sound(j)'
  <2>1. \A t \in Sides : Stored(t)' = Stored(t)
    BY <1>5 DEF Stored
  <2>2. v.mark = Absent /\ v.created = {}
    BY <1>1, <1>6 DEF IInv, Sound, Picked
  <2>3. Picked(j, s)'
    BY <1>1, <1>2, <1>3, <1>4, <2>1, <2>2, StepNames DEF IInv, Sound, Picked, Sides
  <2>4. \A t \in Sides \ {s} : Picked(j, t)'
    BY <1>2, <1>3, <1>4, <1>6, <2>1, StepNames DEF IInv, Sound, Picked, Sides
  <2>5. \A t \in Sides : seen'[j][t].mark = Absent /\ seen'[j][t].created = {}
    BY <1>2, <1>6, <2>2 DEF IInv, Sound, Picked
  <2>6. Order(j)' /\ Dealt(j)' /\ Unstored(j)' /\ Saw(j)'
    BY <1>3, <1>4, <2>5 DEF Order, Dealt, Unstored, Saw, Sides
  <2> QED
    BY <2>3, <2>4, <2>6 DEF Sound
<1> QED
  BY <1>5, <1>7, <1>8, <1>9, DocsKept DEF IInv

----
(* Persisting.                                                             *)

\* The last transaction looks at the documents there are.
LEMMA InvRead ==
  ASSUME IInv, NEW j \in Jobs, NEW s \in Sides, Read(j, s)
  PROVE  IInv'
<1> DEFINE u == seen[j][s]
           known == Known(s, u.account)
           v == [u EXCEPT !.source = source[s], !.existing = known]
<1>1. TypeOK /\ u \in SeenRows /\ source[s] \in Bindings \cup Configs \cup {None}
  BY DEF IInv, TypeOK
<1>k. known \subseteq Stored(s) /\ known \subseteq Items
  BY <1>1, KnownStored, StoredType
<1> HIDE DEF known
<1>2. v \in SeenRows
  BY <1>1, <1>k DEF SeenRows
<1>3. /\ v.existing = known /\ v.account = u.account /\ v.offered = u.offered
      /\ v.listed = u.listed /\ v.fetched = u.fetched /\ v.created = u.created
      /\ v.mark = u.mark /\ v.began = u.began /\ v.source = source[s]
  BY <1>1 DEF SeenRows
<1>4. Sees(j, s, v)
  BY <1>1 DEF Read, Sees, TypeOK, known
<1> HIDE DEF v
<1>5. /\ seen' \in [Jobs -> [Sides -> SeenRows]] /\ seen'[j][s] = v
      /\ \A t \in Sides \ {s} : seen'[j][t] = seen[j][t]
      /\ \A k \in Jobs \ {j} : seen'[k] = seen[k]
  BY <1>1, <1>2, <1>4, SeenAt
<1>6. Goto(j, At.store[s]) /\ At.store[s] \in Steps
  BY StepNames DEF Read, Sides
<1>7. /\ pc' \in [Jobs -> Steps] /\ pc'[j] = At.store[s]
      /\ \A k \in Jobs \ {j} : pc'[k] = pc[k]
  BY <1>1, <1>6, PcAt
<1>8. docs' = docs /\ lock' = lock /\ pc[j] = At.read[s] /\ u.account # None
  BY DEF Read, Persists
<1>9. TypeOK'
  <2>1. \A k \in Jobs, t \in Sides : seen'[k][t].mark = seen[k][t].mark
    BY <1>3, <1>5
  <2>2. \A t \in Sides, a \in Accounts : lock[t][a] # None => lock[t][a] \in Jobs
    BY <1>1 DEF TypeOK
  <2>3. ASSUME NEW t \in Sides, NEW a \in Accounts, lock'[t][a] # None
        PROVE  seen'[lock'[t][a]][t].mark # Absent
    <3>1. lock'[t][a] = lock[t][a] /\ lock[t][a] \in Jobs
      BY <1>8, <2>2, <2>3
    <3>2. seen[lock[t][a]][t].mark # Absent
      BY <1>1, <1>8, <2>3 DEF TypeOK
    <3> QED
      BY <2>1, <3>1, <3>2
  <2> QED
    BY <1>1, <1>5, <1>7, <1>8, <2>3 DEF TypeOK, Read
<1>10. \A k \in Jobs \ {j} : Sound(k)'
  BY <1>5, <1>7, <1>8, SoundKept DEF IInv
<1>11. Sound(j)'
  <2>1. \A t \in Sides : Stored(t)' = Stored(t)
    BY <1>8 DEF Stored
  <2>p. Order(j) /\ Dealt(j) /\ Picked(j, s)
    BY DEF IInv, Sound
  <2>2. Order(j) /\ u.mark = Absent /\ u.created = {}
    <3>1. CASE s = "in"
      BY <2>p, <3>1, <1>8, StepNames DEF Order, Picked
    <3>2. CASE s = "out"
      BY <2>p, <3>2, <1>8, StepNames DEF Order, Picked
    <3> QED
      BY <3>1, <3>2 DEF Sides
  <2>b. s = "in" => source[s] \in Bindings
    BY <1>1 DEF TypeOK, Sources, Read, Persists
  <2>3. Picked(j, s)'
    BY <1>3, <1>5, <1>8, <1>k, <2>1, <2>2, <2>b DEF IInv, Sound, Picked
  <2>4. \A t \in Sides \ {s} : Picked(j, t)'
    BY <1>5, <1>7, <1>8, <2>1, StepNames DEF IInv, Sound, Picked, Sides
  <2>5. Order(j)'
    BY <1>3, <1>5, <1>7, <1>8, <2>2, StepNames DEF Order, Sides
  <2>6. Unstored(j)'
    BY <1>3, <1>5, <1>8 DEF IInv, Sound, Unstored, Known, Sides
  <2>7. Saw(j)'
    <3>1. CASE s = "in"
      BY <1>3, <1>5, <2>2, <3>1 DEF Saw, Sides
    <3>2. CASE s = "out"
      <4>1. \A d \in docs :
              SideOf[d.item] = "out" /\ d.account = u.account => d.item \in known
        BY <3>2 DEF Known, known
      <4>2. seen'[j]["out"].existing = known /\ seen'[j]["out"].account = u.account
        BY <1>3, <1>5, <3>2
      <4> QED
        BY <4>1, <4>2, <1>8 DEF Saw
    <3> QED
      BY <3>1, <3>2 DEF Sides
  <2>8. Dealt(j)'
    <3>1. CASE s = "in"
      BY <1>7, <3>1, StepNames DEF Dealt
    <3>2. CASE s = "out"
      BY <1>5, <1>7, <1>8, <2>p, <3>2, StepNames DEF Dealt, Settled, Sides
    <3> QED
      BY <3>1, <3>2 DEF Sides
  <2> QED
    BY <2>3, <2>4, <2>5, <2>6, <2>7, <2>8 DEF Sound
<1> QED
  BY <1>8, <1>9, <1>10, <1>11, DocsKept DEF IInv

\* The documents to insert are fetched, not known before, and what is not inserted
\* is stored.
LEMMA NewRows ==
  ASSUME IInv, NEW j \in Jobs, NEW s \in Sides
  PROVE  /\ New(j, s) \subseteq seen[j][s].fetched \ seen[j][s].existing
         /\ New(j, s) \subseteq Items
         /\ seen[j][s].fetched \subseteq New(j, s) \cup Stored(s)
         /\ s = "in" => New(j, s) \cap Known("in", seen[j][s].account) = {}
<1>1. seen[j][s] \in SeenRows /\ Picked(j, s)
  BY DEF IInv, TypeOK, Sound
<1>2. Known(s, seen[j][s].account) \subseteq Stored(s)
  BY KnownStored
<1> QED
  BY <1>1, <1>2 DEF New, Picked, SeenRows

\* The inserts, and the checkpoint's row lock.
LEMMA InvStore ==
  ASSUME IInv, NEW j \in Jobs, NEW s \in Sides, Store(j, s)
  PROVE  IInv'
<1> DEFINE u == seen[j][s]
           v == [u EXCEPT !.created = New(j, s), !.mark = today]
<1>1. TypeOK /\ u \in SeenRows /\ today \in Days
  BY DEF IInv, TypeOK
<1>2. v \in SeenRows
  BY <1>1, NewRows DEF SeenRows
<1>3. /\ v.created = New(j, s) /\ v.mark = today /\ v.account = u.account
      /\ v.offered = u.offered /\ v.listed = u.listed /\ v.fetched = u.fetched
      /\ v.existing = u.existing /\ v.began = u.began /\ v.source = u.source
  BY <1>1 DEF SeenRows
<1>4. Sees(j, s, v)
  BY <1>1 DEF Store, Sees, TypeOK
<1>5. today # Absent
  BY <1>1 DEF Days, Absent
<1> HIDE DEF v
<1>6. /\ seen' \in [Jobs -> [Sides -> SeenRows]] /\ seen'[j][s] = v
      /\ \A t \in Sides \ {s} : seen'[j][t] = seen[j][t]
      /\ \A k \in Jobs \ {j} : seen'[k] = seen[k]
  BY <1>1, <1>2, <1>4, SeenAt
<1>7. Goto(j, After("store", s)) /\ After("store", s) \in Steps
  BY StepNames DEF Store, Sides
<1>8. /\ pc' \in [Jobs -> Steps] /\ pc'[j] = After("store", s)
      /\ \A k \in Jobs \ {j} : pc'[k] = pc[k]
  BY <1>1, <1>7, PcAt
<1>9. docs' = docs /\ pc[j] = At.store[s] /\ lock[s][u.account] = None
      /\ lock' = [lock EXCEPT ![s][u.account] = j]
  BY DEF Store
<1>10. u.account \in Accounts
  BY <1>1, <1>9 DEF IInv, Sound, Picked, SeenRows
<1>11. /\ lock' \in [Sides -> [Accounts -> Jobs \cup {None}]] /\ lock'[s][u.account] = j
       /\ \A t \in Sides, a \in Accounts :
            t # s \/ a # u.account => lock'[t][a] = lock[t][a]
  BY <1>1, <1>9, <1>10 DEF TypeOK
<1>12. TypeOK'
  <2>1. ASSUME NEW t \in Sides, NEW a \in Accounts, lock'[t][a] # None
        PROVE  seen'[lock'[t][a]][t].mark # Absent
    <3>1. CASE t = s /\ lock'[t][a] = j
      BY <3>1, <1>3, <1>5, <1>6
    <3>2. CASE t # s \/ lock'[t][a] # j
      <4>1. lock'[t][a] = lock[t][a] /\ lock[t][a] \in Jobs
        BY <3>2, <2>1, <1>1, <1>11 DEF TypeOK
      <4>2. seen'[lock[t][a]][t] = seen[lock[t][a]][t]
        BY <3>2, <4>1, <1>6
      <4> QED
        BY <4>1, <4>2, <2>1, <1>1 DEF TypeOK
    <3> QED
      BY <3>1, <3>2
  <2> QED
    BY <1>1, <1>6, <1>8, <1>11, <2>1 DEF TypeOK, Store
<1>13. ASSUME NEW k \in Jobs \ {j} PROVE Sound(k)'
  <2>1. ASSUME NEW t \in Sides, lock[t][seen[k][t].account] = k
        PROVE  lock'[t][seen[k][t].account] = k
    <3>1. CASE seen[k][t].account \in Accounts
      BY <2>1, <3>1, <1>9, <1>11
    <3>2. CASE seen[k][t].account \notin Accounts
      BY <2>1, <3>2, <1>1, <1>9, <1>10 DEF TypeOK
    <3> QED
      BY <3>1, <3>2
  <2> QED
    BY <2>1, <1>6, <1>8, <1>9, SoundKept DEF IInv
<1>14. Sound(j)'
  <2>1. \A t \in Sides : Stored(t)' = Stored(t)
    BY <1>9 DEF Stored
  <2>2. /\ Order(j) /\ Dealt(j) /\ Saw(j) /\ Unstored(j)
        /\ \A t \in Sides : Picked(j, t)
    BY DEF IInv, Sound
  <2>3. Picked(j, s)'
    BY <1>3, <1>5, <1>6, <1>9, <1>10, <1>11, <2>1, <2>2, NewRows DEF Picked
  <2>4. \A t \in Sides \ {s} : Picked(j, t)'
    <3>1. ASSUME NEW t \in Sides \ {s} PROVE Picked(j, t)'
      <4>1. seen'[j][t] = seen[j][t] /\ pc'[j] # At.store[t]
        BY <1>6, <1>8, StepNames DEF Sides
      <4>2. seen[j][t].mark # Absent => lock'[t][seen[j][t].account] = j
        BY <1>1, <1>11, <2>2 DEF Picked, TypeOK, SeenRows
      <4> QED
        BY <4>1, <4>2, <2>1, <2>2 DEF Picked
    <3> QED
      BY <3>1
  <2>5. Order(j)'
    BY <1>6, <1>8, <1>9, <2>2, StepNames DEF Order, Sides
  <2>6. Unstored(j)'
    BY <1>3, <1>6, <1>9, <2>2, NewRows DEF Unstored, Known, Sides
  <2>7. Saw(j)'
    <3>1. CASE s = "in"
      BY <3>1, <1>6, <1>8, <1>9, <2>2, StepNames DEF Saw, Order, Sides
    <3>2. CASE s = "out"
      BY <3>2, <1>3, <1>6, <1>9, <2>2, StepNames DEF Saw, Sides
    <3> QED
      BY <3>1, <3>2 DEF Sides
  <2>8. Dealt(j)'
    <3>1. Settled(j, s)'
      BY <1>3, <1>5, <1>6 DEF Settled
    <3>2. CASE s = "in"
      BY <1>8, <3>1, <3>2, StepNames DEF Dealt
    <3>3. CASE s = "out"
      BY <1>6, <1>8, <1>9, <2>2, <3>1, <3>3, StepNames DEF Dealt, Settled, Sides
    <3> QED
      BY <3>2, <3>3 DEF Sides
  <2> QED
    BY <2>3, <2>4, <2>5, <2>6, <2>7, <2>8 DEF Sound
<1> QED
  BY <1>9, <1>12, <1>13, <1>14, DocsKept DEF IInv

----
(* The commit.                                                             *)

\* A document of a run: of an item it has created in the direction of the item, under
\* the account it has listed, which is the one the item is in.
LEMMA DocumentOf ==
  ASSUME IInv, NEW j \in Jobs, NEW d \in Documents(j)
  PROVE  /\ d \in DocRows
         /\ d.item \in seen[j][SideOf[d.item]].created
         /\ seen[j][SideOf[d.item]].mark # Absent
         /\ d.account = ItemAccount[d.item]
         /\ d.account = seen[j][SideOf[d.item]].account
         /\ ~d.moved /\ AccountOf[d.began] = d.account
         /\ SideOf[d.item] = "in" => d.source \in Bindings
         /\ d.behind = IF seen[j]["in"].mark = Absent THEN None ELSE seen[j]["in"].account
         /\ \A e \in Documents(j) : e.item = d.item => e = d
<1> DEFINE behind == IF seen[j]["in"].mark = Absent THEN None ELSE seen[j]["in"].account
           Doc(i, s) == [item |-> i, job |-> j, began |-> seen[j][s].began,
                         source |-> seen[j][s].source, account |-> seen[j][s].account,
                         behind |-> behind, moved |-> FALSE]
<1>1. \A e \in Documents(j) : \E s \in Sides : \E i \in seen[j][s].created : e = Doc(i, s)
  BY DEF Documents
<1>2. ASSUME NEW s \in Sides, NEW i \in seen[j][s].created
      PROVE  /\ SideOf[i] = s /\ i \in Items /\ ItemAccount[i] = seen[j][s].account
             /\ seen[j][s].mark # Absent
             /\ seen[j][s].began \in Bindings \cup Configs
             /\ AccountOf[seen[j][s].began] = seen[j][s].account
             /\ s = "in" => seen[j][s].source \in Bindings
  <2>1. Picked(j, s) /\ seen[j][s] \in SeenRows
    BY DEF IInv, Sound, TypeOK
  <2> QED
    BY <2>1 DEF Picked, SeenRows, Sources
<1>3. PICK s \in Sides : \E i \in seen[j][s].created : d = Doc(i, s)
  BY <1>1
<1>4. PICK i \in seen[j][s].created : d = Doc(i, s)
  BY <1>3
<1>5. d.item = i /\ SideOf[i] = s
  BY <1>2, <1>4
<1>6. ASSUME NEW e \in Documents(j), e.item = d.item PROVE e = d
  <2>1. PICK t \in Sides : \E k \in seen[j][t].created : e = Doc(k, t)
    BY <1>1
  <2>2. PICK k \in seen[j][t].created : e = Doc(k, t)
    BY <2>1
  <2>3. e.item = k /\ SideOf[k] = t
    BY <1>2, <2>2
  <2> QED
    BY <1>4, <1>5, <1>6, <2>2, <2>3
<1>7. d \in DocRows
  <2>1. behind \in Accounts \cup {None}
    BY DEF IInv, TypeOK, SeenRows, Sides
  <2>2. /\ seen[j][s].source \in Bindings \cup Configs \cup {None}
        /\ seen[j][s].account \in Accounts
    BY <1>2 DEF IInv, TypeOK, SeenRows
  <2> QED
    BY <1>2, <1>4, <2>1, <2>2 DEF DocRows
<1> QED
  BY <1>2, <1>4, <1>5, <1>6, <1>7

\* Two runs that have stored a direction have different accounts in it.
LEMMA OneLock ==
  ASSUME IInv, NEW j \in Jobs, NEW k \in Jobs, NEW s \in Sides,
         seen[j][s].mark # Absent, seen[k][s].mark # Absent,
         seen[j][s].account = seen[k][s].account
  PROVE  j = k
BY DEF IInv, Sound, Picked

\* The documents of a run that commits are new, and not behind the lock of a copy.
LEMMA CommitDocs ==
  ASSUME IInv, NEW j \in Jobs, Commit(j)
  PROVE  Filed'
<1>1. docs' = docs \cup Documents(j)
  BY DEF Commit
<1>2. Unstored(j) /\ Saw(j) /\ \A s \in Sides : Picked(j, s)
  BY DEF IInv, Sound
<1>d. StoredOnce /\ FiledWhereListed /\ CopiesNotBehindOneLock /\ Pinned
  BY DEF IInv, Filed
<1>3. ASSUME NEW d \in docs, NEW e \in Documents(j), d.item = e.item
      PROVE  /\ SideOf[d.item] = "in" => d.account # e.account /\ d.moved
             /\ SideOf[d.item] = "out" => d.behind = None \/ d.behind # e.behind
  <2>1. /\ e.item \in Items /\ e.item \in seen[j][SideOf[e.item]].created
        /\ e.account = seen[j][SideOf[e.item]].account /\ e.account = ItemAccount[e.item]
        /\ seen[j][SideOf[e.item]].mark # Absent
        /\ e.behind = IF seen[j]["in"].mark = Absent THEN None ELSE seen[j]["in"].account
    BY DocumentOf DEF DocRows
  <2>2. ASSUME SideOf[d.item] = "in" PROVE d.account # e.account
    <3>1. e.item \notin Known("in", seen[j]["in"].account)
      BY <1>2, <1>3, <2>1, <2>2 DEF Unstored
    <3>2. d.account = seen[j]["in"].account => d.item \in Known("in", seen[j]["in"].account)
      BY <2>2 DEF Known
    <3> QED
      BY <1>3, <2>1, <2>2, <3>1, <3>2
  <2>3. ASSUME SideOf[d.item] = "in" PROVE d.moved
    BY <1>d, <1>3, <2>1, <2>2, <2>3 DEF FiledWhereListed
  <2>4. ASSUME SideOf[d.item] = "out", d.behind # None, d.behind = e.behind PROVE FALSE
    <3>1. seen[j]["in"].mark # Absent /\ d.behind = seen[j]["in"].account
      BY <2>1, <2>4
    <3>2. d.account = seen[j]["out"].account
      BY <1>d, <1>3, <2>1, <2>4 DEF FiledWhereListed
    <3>3. d.item \in seen[j]["out"].existing
      BY <1>2, <1>3, <2>1, <2>4, <3>1, <3>2 DEF Saw
    <3> QED
      BY <1>2, <1>3, <2>1, <2>4, <3>3 DEF Picked, Sides
  <2> QED
    BY <2>2, <2>3, <2>4
<1>4. \A d, e \in Documents(j) : d.item = e.item => d = e
  BY DocumentOf
<1>5. StoredOnce'
  <2>1. ASSUME NEW d \in docs', NEW e \in docs', SideOf[d.item] = "in", d # e, d.item = e.item
        PROVE  d.account # e.account /\ (d.moved \/ e.moved)
    <3>1. CASE d \in docs /\ e \in docs
      BY <1>d, <2>1, <3>1 DEF StoredOnce
    <3>2. CASE d \in docs /\ e \in Documents(j)
      BY <2>1, <3>2, <1>3
    <3>3. CASE d \in Documents(j) /\ e \in docs
      BY <2>1, <3>3, <1>3
    <3> QED
      BY <1>1, <1>4, <2>1, <3>1, <3>2, <3>3
  <2> QED
    BY <2>1 DEF StoredOnce
<1>6. FiledWhereListed' /\ Pinned'
  <2>1. \A d \in Documents(j) :
          /\ ~d.moved /\ d.account = ItemAccount[d.item] /\ AccountOf[d.began] = d.account
          /\ SideOf[d.item] = "in" => d.source \in Bindings
    BY DocumentOf
  <2> QED
    BY <1>1, <1>d, <2>1 DEF FiledWhereListed, Pinned
<1>7. CopiesNotBehindOneLock'
  <2>1. ASSUME NEW d \in docs', NEW e \in docs', SideOf[d.item] = "out", d # e, d.item = e.item
        PROVE  d.behind = None \/ d.behind # e.behind
    <3>1. CASE d \in docs /\ e \in docs
      BY <1>d, <2>1, <3>1 DEF CopiesNotBehindOneLock
    <3>2. CASE d \in docs /\ e \in Documents(j)
      BY <2>1, <3>2, <1>3
    <3>3. CASE d \in Documents(j) /\ e \in docs
      <4>1. e.behind = None \/ e.behind # d.behind
        BY <2>1, <3>3, <1>3
      <4>2. d.behind # e.behind \/ d.behind = None
        BY <4>1
      <4> QED
        BY <4>2
    <3> QED
      BY <1>1, <1>4, <2>1, <3>1, <3>2, <3>3
  <2> QED
    BY <2>1 DEF CopiesNotBehindOneLock
<1> QED
  BY <1>5, <1>6, <1>7 DEF Filed

\* The documents, the checkpoints and the result, in one transaction.
LEMMA InvCommit ==
  ASSUME IInv, NEW j \in Jobs, Commit(j)
  PROVE  IInv'
<1>0. TypeOK /\ Leave(j) /\ docs' = docs \cup Documents(j)
  BY DEF IInv, Commit
<1>1. TypeOK'
  <2>1. /\ pc' \in [Jobs -> Steps] /\ seen' \in [Jobs -> [Sides -> SeenRows]]
        /\ lock' \in [Sides -> [Accounts -> Jobs \cup {None}]]
        /\ \A s \in Sides, a \in Accounts :
             lock'[s][a] # None => seen'[lock'[s][a]][s].mark # Absent
    BY <1>0, LeaveKept
  <2>2. docs' \subseteq DocRows
    BY <1>0, DocumentOf DEF TypeOK
  <2>3. checkpoint' \in [Sides -> [Accounts -> Marks]]
    <3>1. \A s \in Sides : seen[j][s].mark \in Marks
      BY <1>0 DEF TypeOK, SeenRows, Marks
    <3>2. Fresh \in Marks
      BY DEF Marks
    <3> QED
      BY <1>0, <3>1, <3>2 DEF Commit, TypeOK
  <2>4. passed' \subseteq Items
    BY <1>0 DEF Commit, TypeOK, SeenRows
  <2>5. status' \in [Jobs -> Statuses]
    BY <1>0 DEF Commit, TypeOK, Outcome, Statuses
  <2>6. UNCHANGED <<today, received, source, crashes>>
    BY DEF Commit
  <2> QED
    BY <1>0, <2>1, <2>2, <2>3, <2>4, <2>5, <2>6 DEF TypeOK
<1>2. ASSUME NEW k \in Jobs \ {j} PROVE Sound(k)'
  <2>1. pc'[k] = pc[k] /\ seen'[k] = seen[k]
    BY <1>0, LeaveKept
  <2>2. Sound(k) /\ \A s \in Sides : Picked(j, s) /\ Picked(k, s)
    BY DEF IInv, Sound
  <2>3. \A s \in Sides : Stored(s) \subseteq Stored(s)'
    BY <1>0 DEF Stored
  <2>4. \A s \in Sides : seen[k][s].mark # Absent => lock'[s][seen[k][s].account] = k
    BY <1>0, <2>2, LeaveKept DEF Picked, TypeOK, SeenRows
  <2>5. \A s \in Sides : Picked(k, s)'
    BY <2>1, <2>2, <2>3, <2>4 DEF Picked
  <2>6. Order(k)' /\ Dealt(k)'
    BY <2>1, <2>2 DEF Sound, Order, Dealt, Settled, Sides
  <2>7. Unstored(k)'
    <3>1. ASSUME NEW d \in Documents(j), SideOf[d.item] = "in",
                 d.item \in seen[k]["in"].created
          PROVE  FALSE
      <4>1. seen[j]["in"].mark # Absent /\ d.item \in seen[j]["in"].created
        BY <3>1, DocumentOf
      <4>2. seen[k]["in"].mark # Absent
        BY <3>1, <2>2 DEF Picked, Sides
      <4>3. seen[j]["in"].account = seen[k]["in"].account
        BY <3>1, <4>1, <2>2 DEF Picked, Sides
      <4> QED
        BY <4>1, <4>2, <4>3, OneLock DEF Sides
    <3> DEFINE a == seen[k]["in"].account
    <3>2. \A i \in Known("in", a)' : i \in Known("in", a)
             \/ \E d \in Documents(j) : d.item = i /\ SideOf[d.item] = "in"
      BY <1>0, <2>1 DEF Known
    <3> QED
      BY <2>1, <2>2, <3>1, <3>2 DEF Sound, Unstored
  <2>8. Saw(k)'
    <3>1. ASSUME NEW d \in Documents(j), seen[k]["in"].mark # Absent,
                 d.behind = seen[k]["in"].account
          PROVE  FALSE
      <4>1. seen[k]["in"].account # None
        BY <3>1, <2>2 DEF Picked, Sides
      <4>2. seen[j]["in"].mark # Absent /\ seen[j]["in"].account = seen[k]["in"].account
        BY <3>1, <4>1, DocumentOf
      <4> QED
        BY <3>1, <4>2, OneLock DEF Sides
    <3> QED
      BY <1>0, <2>1, <2>2, <3>1 DEF Sound, Saw
  <2> QED
    BY <2>5, <2>6, <2>7, <2>8 DEF Sound
<1>3. Sound(j)'
  BY <1>0, LeaveKept, SoundNothing
<1> QED
  BY <1>1, <1>2, <1>3, CommitDocs DEF IInv

\* A document that takes on the account of its binding: it is the only one of its invoice
\* there, and no run is about to store another one.
LEMMA InvReaddress ==
  ASSUME IInv, NEW d \in docs, Readdress(d)
  PROVE  IInv'
<1> DEFINE a == AccountOf[d.source]
           moved == [d EXCEPT !.account = a, !.moved = TRUE]
<1>1. /\ TypeOK /\ d \in DocRows /\ SideOf[d.item] = "in" /\ d.account # a
      /\ d.item \notin Known("in", a)
      /\ \A j \in Jobs : seen[j]["in"].account = a => d.item \notin seen[j]["in"].created
      /\ docs' = (docs \ {d}) \cup {moved}
      /\ UNCHANGED <<today, received, source, checkpoint, status, pc, seen, lock, passed,
                     crashes>>
  BY DEF IInv, TypeOK, Readdress
<1>2. StoredOnce /\ FiledWhereListed /\ CopiesNotBehindOneLock /\ Pinned
  BY DEF IInv, Filed
<1>3. d.source \in Bindings /\ a \in Accounts
  BY <1>1, <1>2 DEF Pinned
<1>4. /\ moved \in DocRows /\ moved.item = d.item /\ moved.source = d.source
      /\ moved.began = d.began /\ moved.account = a /\ moved.moved
  BY <1>1, <1>3 DEF DocRows
<1> HIDE DEF moved, a
<1>5. TypeOK'
  BY <1>1, <1>4 DEF TypeOK
<1>6. d.source # d.began
  BY <1>1, <1>2 DEF FiledWhereListed, a
<1>7. StoredOnce'
  <2>1. ASSUME NEW e \in docs \ {d}, e.item = d.item PROVE e.account # a
    BY <1>1, <2>1 DEF Known
  <2>2. ASSUME NEW e \in docs', NEW f \in docs', SideOf[e.item] = "in", e # f, e.item = f.item
        PROVE  e.account # f.account /\ (e.moved \/ f.moved)
    <3>1. CASE e = moved
      BY <1>1, <1>4, <2>1, <2>2, <3>1
    <3>2. CASE f = moved
      BY <1>1, <1>4, <2>1, <2>2, <3>2
    <3>3. CASE e # moved /\ f # moved
      BY <1>1, <1>2, <2>2, <3>3 DEF StoredOnce
    <3> QED
      BY <3>1, <3>2, <3>3
  <2> QED
    BY <2>2 DEF StoredOnce
<1>8. FiledWhereListed' /\ Pinned'
  BY <1>1, <1>2, <1>3, <1>4, <1>6 DEF FiledWhereListed, Pinned, a
<1>9. CopiesNotBehindOneLock'
  <2>1. \A e \in docs' : SideOf[e.item] = "out" => e \in docs
    BY <1>1, <1>4
  <2> QED
    BY <1>2, <2>1 DEF CopiesNotBehindOneLock
<1>10. ASSUME NEW j \in Jobs PROVE Sound(j)'
  <2>1. Sound(j)
    BY DEF IInv
  <2>2. \A s \in Sides : Stored(s)' = Stored(s)
    BY <1>1, <1>4 DEF Stored
  <2>3. Unstored(j)'
    <3>1. ASSUME NEW i \in seen[j]["in"].created, i \in Known("in", seen[j]["in"].account)'
          PROVE  FALSE
      <4>1. PICK e \in docs' : /\ e.item = i /\ SideOf[e.item] = "in"
                               /\ e.account = seen[j]["in"].account
        BY <1>1, <3>1 DEF Known
      <4>2. CASE e = moved
        BY <1>1, <1>4, <3>1, <4>1, <4>2
      <4>3. CASE e \in docs
        BY <2>1, <3>1, <4>1, <4>3 DEF Sound, Unstored, Known
      <4> QED
        BY <1>1, <4>2, <4>3
    <3> QED
      BY <1>1, <3>1 DEF Unstored
  <2>4. Saw(j)'
    <3>1. \A e \in docs' : SideOf[e.item] = "out" => e \in docs
      BY <1>1, <1>4
    <3> QED
      BY <1>1, <2>1, <3>1 DEF Sound, Saw
  <2> QED
    BY <1>1, <2>1, <2>2, <2>3, <2>4 DEF Sound, Order, Dealt, Settled, Picked
<1> QED
  BY <1>5, <1>7, <1>8, <1>9, <1>10 DEF IInv, Filed

----
(* The theorems.                                                           *)

\* Every step keeps the inductive invariant.
LEMMA InvNext == IInv /\ [Next]_vars => IInv'
<1> SUFFICES ASSUME IInv, [Next]_vars PROVE IInv'
  OBVIOUS
<1>1. ASSUME NEW j \in Jobs, SetupFail(j) \/ SetupCollide(j) \/ Bug(j) \/ Crash(j)
      PROVE  IInv'
  <2>1. status' \in [Jobs -> Statuses]
    BY <1>1 DEF SetupFail, SetupCollide, Bug, Crash, IInv, TypeOK, Statuses
  <2>2. crashes' \in 0..MaxCrashes
    BY <1>1 DEF SetupFail, SetupCollide, Bug, Crash, IInv, TypeOK
  <2>3. Leave(j) /\ UNCHANGED <<today, received, source, checkpoint, docs, passed>>
    BY <1>1 DEF SetupFail, SetupCollide, Bug, Crash
  <2> QED
    BY <2>1, <2>2, <2>3, InvLeave
<1>2. ASSUME NEW j \in Jobs, Step(j) PROVE IInv'
  BY <1>1, <1>2, InvStart, InvSetup, InvGoOn, InvNothingToStore, InvList, InvRead, InvStore,
     InvCommit DEF Step
<1>3. CASE UNCHANGED vars
  <2>1. TypeOK' /\ docs' = docs
    BY <1>3 DEF IInv, TypeOK, vars
  <2>2. \A j \in Jobs : Sound(j)'
    BY <1>3, SoundKept DEF IInv, vars
  <2> QED
    BY <2>1, <2>2, DocsKept DEF IInv
<1> QED
  BY <1>1, <1>2, <1>3, InvEnvironment, InvReaddress, InvStart DEF Next

\* The inductive invariant holds in every reachable state.
THEOREM Invariance == Spec => []IInv
BY InvInit, InvNext, PTL DEF Spec

\* Types; the holder of a checkpoint row's lock has stored the direction.
THEOREM TypeCorrect == Spec => []TypeOK
BY Invariance, PTL DEF IInv

\* An inbound invoice becomes one document under an account, however many runs list it at
\* once and whichever of them commits first, and a second one only after the first has
\* moved to another account.
THEOREM InboundStoredOnce == Spec => []StoredOnce
BY Invariance, PTL DEF IInv, Filed

\* Every document is filed under the account it was listed from, and belongs to a binding
\* or configuration of that account unless that changed during the run that stored it;
\* only an inbound document of such a run ever takes on another account, its binding's.
THEOREM FiledUnderItsAccount == Spec => []FiledWhereListed
BY Invariance, PTL DEF IInv, Filed

\* Two copies of a sent invoice never come from runs that both held the inbound
\* checkpoint of one account.
THEOREM CopiesExcludedByTheLock == Spec => []CopiesNotBehindOneLock
BY Invariance, PTL DEF IInv, Filed

\* The holder of a row's lock has stored the direction and is on its way to the commit.
LEMMA HolderUnderWay ==
  ASSUME IInv, NEW j \in Jobs, NEW k \in Jobs, NEW s \in Sides,
         pc[j] = At.store[s], lock[s][seen[j][s].account] = k
  PROVE  /\ seen[k][s].mark # Absent
         /\ pc[k] \in {"read_out", "store_out", "commit"}
         /\ s = "out" => pc[k] = "commit"
<1>1. seen[j][s].account \in Accounts
  BY DEF IInv, Sound, Picked, TypeOK, SeenRows
<1>2. seen[k][s].mark # Absent
  BY <1>1 DEF IInv, TypeOK
<1> QED
  BY <1>2 DEF IInv, Sound, Order, Sides

\* No run waits for one that waits for it, nor for one that is over.
LEMMA InvNoWait == IInv => NoCircularWait
<1> SUFFICES ASSUME IInv, NEW j \in Jobs, NEW k \in Jobs, Waits(j, k)
             PROVE  pc[k] \notin {"none", "ended"} /\ ~Waits(k, j)
  BY DEF NoCircularWait
<1>1. PICK s \in Sides : pc[j] = At.store[s] /\ lock[s][seen[j][s].account] = k
  BY DEF Waits
<1>2. /\ pc[k] \in {"read_out", "store_out", "commit"}
      /\ s = "out" => pc[k] = "commit"
  BY <1>1, HolderUnderWay
<1>3. ASSUME NEW t \in Sides, pc[k] = At.store[t], lock[t][seen[k][t].account] = j
      PROVE  FALSE
  <2>1. pc[j] \in {"read_out", "store_out", "commit"} /\ (t = "out" => pc[j] = "commit")
    BY <1>3, HolderUnderWay
  <2> QED
    BY <1>1, <1>2, <1>3, <2>1, StepNames DEF Sides
<1> QED
  BY <1>2, <1>3 DEF Waits

\* Two runs never wait for each other's checkpoint rows, and a row that a run waits for
\* is held by a run that goes on: no deadlock among the locks of reconciliations.
THEOREM LocksAreOrdered == Spec => []NoCircularWait
BY Invariance, InvNoWait, PTL

\* What a run without an error in its result has listed, it has stored.
LEMMA CommitStoresAll ==
  ASSUME IInv, NEW j \in Jobs, Commit(j), Outcome(j) = "COMPLETED", NEW s \in Sides,
         seen[j][s].mark # Absent
  PROVE  seen[j][s].listed \subseteq {d.item : d \in docs'}
<1>1. Failed(j, s) = {} /\ Picked(j, s)
  BY DEF Outcome, IInv, Sound
<1>2. ASSUME NEW i \in seen[j][s].listed PROVE i \in {d.item : d \in docs'}
  <2>1. i \in seen[j][s].fetched \/ i \in seen[j][s].existing
    BY <1>1 DEF Failed
  <2>2. i \in seen[j][s].created \/ i \in Stored(s)
    BY <1>1, <2>1 DEF Picked
  <2>3. docs' = docs \cup Documents(j)
    BY DEF Commit
  <2>4. CASE i \in seen[j][s].created
    <3> DEFINE behind == IF seen[j]["in"].mark = Absent THEN None ELSE seen[j]["in"].account
               Doc(k, t) == [item |-> k, job |-> j, began |-> seen[j][t].began,
                             source |-> seen[j][t].source, account |-> seen[j][t].account,
                             behind |-> behind, moved |-> FALSE]
    <3>1. Doc(i, s) \in {Doc(k, s) : k \in seen[j][s].created}
      BY <2>4
    <3>2. Documents(j) = UNION {{Doc(k, t) : k \in seen[j][t].created} : t \in Sides}
      BY DEF Documents
    <3>4. Doc(i, s).item = i
      OBVIOUS
    <3> HIDE DEF Doc
    <3>5. {Doc(k, s) : k \in seen[j][s].created}
            \in {{Doc(k, t) : k \in seen[j][t].created} : t \in Sides}
      OBVIOUS
    <3>3. Doc(i, s) \in Documents(j)
      BY <3>1, <3>2, <3>5
    <3> QED
      BY <2>3, <3>3, <3>4
  <2>5. CASE i \in Stored(s)
    BY <2>3, <2>5 DEF Stored
  <2> QED
    BY <2>2, <2>4, <2>5
<1> QED
  BY <1>2

\* Only a commit completes a run.
LEMMA CompletedByCommit ==
  ASSUME IInv, [Next]_vars, NEW j \in Jobs, status[j] # "COMPLETED", status'[j] = "COMPLETED"
  PROVE  Commit(j) /\ Outcome(j) = "COMPLETED"
<1>1. status \in [Jobs -> Statuses]
  BY DEF IInv, TypeOK
<1>2. ASSUME NEW k \in Jobs, status' = [status EXCEPT ![k] = "QUEUED"]
                             \/ status' = [status EXCEPT ![k] = "RUNNING"]
                             \/ status' = [status EXCEPT ![k] = "FAILED"]
      PROVE  FALSE
  BY <1>1, <1>2
<1>3. status' # status
  OBVIOUS
<1>4. \E k \in Jobs : Start(k) \/ Step(k) \/ Bug(k) \/ Crash(k)
  BY <1>3 DEF Next, vars, Tick, Receive, Rebind, Readdress
<1>5. PICK k \in Jobs : Start(k) \/ Step(k) \/ Bug(k) \/ Crash(k)
  BY <1>4
<1>6. Commit(k)
  BY <1>2, <1>3, <1>5 DEF Start, Step, Bug, Crash, Run, SetupFail, Setup, SetupCommit,
     SetupCollide, List, ListError, NothingToList, Read, NothingToStore, Store
<1>7. status' = [status EXCEPT ![k] = Outcome(k)]
  BY <1>6 DEF Commit
<1>8. k = j /\ Outcome(k) = "COMPLETED"
  BY <1>1, <1>7
<1> QED
  BY <1>6, <1>8

\* A COMPLETED run has stored everything it listed, in either direction, unless the
\* taxpayer had no binding any more when it came to store what the binding received.
THEOREM CompletedMeansStored == Spec => CompletedStoredAll
<1>1. IInv /\ [Next]_vars =>
        [\A j \in Jobs, s \in Sides :
           status[j] # "COMPLETED" /\ status'[j] = "COMPLETED" /\ seen[j][s].account # None
             => \/ seen[j][s].listed \subseteq {d.item : d \in docs'}
                \/ s = "in" /\ seen[j][s].gone]_vars
  <2> SUFFICES ASSUME IInv, [Next]_vars, NEW j \in Jobs, NEW s \in Sides,
                      status[j] # "COMPLETED", status'[j] = "COMPLETED",
                      seen[j][s].account # None, ~(s = "in" /\ seen[j][s].gone)
               PROVE  seen[j][s].listed \subseteq {d.item : d \in docs'}
    OBVIOUS
  <2>1. Commit(j) /\ Outcome(j) = "COMPLETED"
    BY CompletedByCommit
  <2>2. ~seen[j][s].error /\ pc[j] = "commit"
    BY <2>1 DEF Outcome, Commit
  <2>3. Settled(j, s)
    BY <2>2 DEF IInv, Sound, Dealt, Sides
  <2>4. seen[j][s].mark # Absent
    BY <2>2, <2>3 DEF Settled
  <2> QED
    BY <2>1, <2>4, CommitStoresAll
<1> QED
  BY <1>1, Invariance, PTL DEF Spec, CompletedStoredAll

----
(* Windows: nothing falls between two of them in the first Initial days, in  *)
(* which the first listing of an account reaches back to the first day.     *)

\* The run has listed the direction, or decided not to.
Past(j, s) ==
  \/ pc[j] \in {"read_in", "read_out", "store_in", "store_out", "commit"}
  \/ s = "in" /\ pc[j] = "list_out"

\* The invoices a direction of a run is about.
Mine(j, s) == {i \in Items : SideOf[i] = s /\ ItemAccount[i] = seen[j][s].account}

\* A run's window ends where it set out, a midnight ago at most; what is older than the
\* window is dealt with, and what is in it was offered to a listing that came back.
Windowed(j, s) ==
  LET v == seen[j][s] IN
  /\ v.account # None =>
       /\ today = v.to \/ today = v.to + 1
       /\ v.from <= v.to
       /\ \A i \in Mine(j, s) : received[i] < v.from => i \in Stored(s) \cup passed
       /\ Past(j, s) /\ ~v.error =>
            \A i \in Mine(j, s) : v.from <= received[i] /\ received[i] < v.to => i \in v.offered
  /\ pc[j] = At.store[s] \/ v.mark # Absent => ~v.error
  /\ v.mark # Absent => v.mark <= today

\* Nothing is from the future.
NotAhead ==
  /\ \A i \in Items : received[i] = NotYet \/ received[i] <= today
  /\ \A s \in Sides, a \in Accounts : checkpoint[s][a] <= today

WInv == NoneBetweenWindows /\ NotAhead /\ \A j \in Jobs, s \in Sides : Windowed(j, s)

\* What a step leaves alone, and what only grows, keeps a direction windowed.
LEMMA WindowedKept ==
  ASSUME NEW j \in Jobs, NEW s \in Sides, Windowed(j, s), seen'[j][s] = seen[j][s],
         pc'[j] = At.store[s] => pc[j] = At.store[s], Past(j, s)' => Past(j, s),
         today' = today, received' = received, Stored(s) \subseteq Stored(s)',
         passed \subseteq passed'
  PROVE  Windowed(j, s)'
<1>2. Mine(j, s)' = Mine(j, s)
  BY DEF Mine
<1> QED
  BY <1>2 DEF Windowed

\* What is stored stays so.
LEMMA StoredGrows ==
  ASSUME docs \subseteq docs'
  PROVE  \A s \in Sides : Stored(s) \subseteq Stored(s)'
BY DEF Stored

\* A step of one run that leaves the checkpoints alone.
LEMMA WindowFrame ==
  ASSUME WInv, NEW j \in Jobs, today' = today, received' = received, checkpoint' = checkpoint,
         docs \subseteq docs', passed \subseteq passed',
         \A k \in Jobs \ {j} : pc'[k] = pc[k] /\ seen'[k] = seen[k],
         \A s \in Sides : Windowed(j, s)'
  PROVE  WInv'
<1>1. ASSUME NEW k \in Jobs \ {j}, NEW s \in Sides PROVE Windowed(k, s)'
  <2>1. pc'[k] = pc[k] /\ seen'[k][s] = seen[k][s] /\ Windowed(k, s)
    BY DEF WInv
  <2>2. Past(k, s)' => Past(k, s)
    BY <2>1 DEF Past
  <2> QED
    BY <2>1, <2>2, StoredGrows, WindowedKept
<1>2. \A s \in Sides : Stored(s) \subseteq Stored(s)'
  BY StoredGrows
<1>3. NoneBetweenWindows'
  BY <1>2 DEF WInv, NoneBetweenWindows, WindowStart
<1>4. NotAhead'
  BY DEF WInv, NotAhead
<1> QED
  BY <1>1, <1>3, <1>4 DEF WInv

\* A run that has read nothing.
LEMMA WindowedNothing ==
  ASSUME NEW j \in Jobs, seen'[j] = [s \in Sides |-> Nothing], pc'[j] = "ended"
  PROVE  \A s \in Sides : Windowed(j, s)'
BY StepNames DEF Windowed, Past, Nothing, Sides

\* No listing starts ahead of the day, and the first one starts with the first day.
LEMMA WindowBound ==
  ASSUME LastDay =< Initial, TypeOK, NEW m \in Marks, m <= today
  PROVE  /\ WindowStart(m) \in Int /\ WindowStart(m) <= today
         /\ m \notin Days => WindowStart(m) <= 0
         /\ m \in Days => WindowStart(m) <= m - 1
BY DEF WindowStart, Marks, TypeOK, Days, Absent, Fresh

\* Before the first day nothing was received.
LEMMA WinInit == LastDay =< Initial /\ Init => WInv
<1> SUFFICES ASSUME LastDay =< Initial, Init PROVE WInv
  OBVIOUS
<1>1. NoneBetweenWindows /\ NotAhead
  BY DEF Init, NoneBetweenWindows, NotAhead, WindowStart, NotYet, Absent, Days
<1>2. \A j \in Jobs, s \in Sides : Windowed(j, s)
  BY StepNames DEF Init, Windowed, Past, Nothing, Sides
<1> QED
  BY <1>1, <1>2 DEF WInv

\* Midnight: every run's window ended with the day.
LEMMA WinTick ==
  ASSUME LastDay =< Initial, IInv, WInv, Tick
  PROVE  WInv'
<1>1. /\ TypeOK /\ today \in 0..LastDay /\ today' = today + 1 /\ today + 1 =< LastDay
      /\ received' = received /\ checkpoint' = checkpoint /\ docs' = docs /\ pc' = pc
      /\ seen' = seen /\ passed' = passed
  BY DEF Tick, IInv, TypeOK, Days
<1>2. \A s \in Sides : Stored(s)' = Stored(s)
  BY <1>1 DEF Stored
<1>3. NoneBetweenWindows'
  <2>1. ASSUME NEW i \in Items,
               received[i] < WindowStart(checkpoint[SideOf[i]][ItemAccount[i]])'
        PROVE  i \in Stored(SideOf[i]) \cup passed
    <3> DEFINE m == checkpoint[SideOf[i]][ItemAccount[i]]
    <3>1. m \in Marks /\ received[i] \in 0..LastDay + 1
      BY <1>1 DEF TypeOK, Days, NotYet
    <3>2. CASE m \in Days
      BY <1>1, <2>1, <3>2 DEF WInv, NoneBetweenWindows, WindowStart
    <3>3. CASE m \notin Days
      BY <1>1, <2>1, <3>1, <3>3 DEF WindowStart
    <3> QED
      BY <3>2, <3>3
  <2> QED
    BY <1>1, <1>2, <2>1 DEF NoneBetweenWindows
<1>4. NotAhead'
  <2>1. ASSUME NEW i \in Items PROVE received[i] = NotYet \/ received[i] <= today + 1
    BY <1>1 DEF WInv, NotAhead, TypeOK, Days, NotYet
  <2>2. ASSUME NEW s \in Sides, NEW a \in Accounts PROVE checkpoint[s][a] <= today + 1
    <3>1. checkpoint[s][a] \in Marks /\ checkpoint[s][a] <= today
      BY <1>1 DEF WInv, NotAhead, TypeOK
    <3>2. Marks \subseteq Int
      BY DEF Marks, Days, Absent, Fresh
    <3>3. \A m \in Int : m <= today => m <= today + 1
      BY <1>1
    <3> QED
      BY <3>1, <3>2, <3>3
  <2>3. NotYet' = NotYet
    BY DEF NotYet
  <2> QED
    BY <1>1, <2>1, <2>2, <2>3 DEF NotAhead
<1>5. ASSUME NEW j \in Jobs, NEW s \in Sides PROVE Windowed(j, s)'
  <2>1. /\ seen[j][s] \in SeenRows /\ Windowed(j, s)
        /\ seen[j][s].account # None => seen[j][s].to = today
    BY <1>1 DEF TypeOK, WInv, Tick
  <2>2. Mine(j, s)' = Mine(j, s) /\ Past(j, s)' = Past(j, s)
    BY <1>1 DEF Mine, Past
  <2>3. seen[j][s].mark # Absent => seen[j][s].mark <= today'
    BY <1>1, <2>1 DEF Windowed, SeenRows, Days
  <2> QED
    BY <1>1, <1>2, <2>1, <2>2, <2>3 DEF Windowed
<1> QED
  BY <1>3, <1>4, <1>5 DEF WInv

\* An invoice arrives in no window that is over, and behind no listing to come.
LEMMA WinReceive ==
  ASSUME LastDay =< Initial, IInv, WInv, NEW i \in Items, Receive(i)
  PROVE  WInv'
<1>1. /\ TypeOK /\ received' = [received EXCEPT ![i] = today] /\ today' = today
      /\ checkpoint' = checkpoint /\ docs' = docs /\ pc' = pc /\ seen' = seen /\ passed' = passed
  BY DEF Receive, IInv
<1>2. /\ received'[i] = today /\ today \in 0..LastDay
      /\ \A k \in Items \ {i} : received'[k] = received[k]
  BY <1>1 DEF TypeOK, Days
<1>3. \A s \in Sides : Stored(s)' = Stored(s)
  BY <1>1 DEF Stored
<1>4. NoneBetweenWindows'
  <2>1. ASSUME NEW k \in Items
        PROVE  received'[k] < WindowStart(checkpoint[SideOf[k]][ItemAccount[k]])
                 => k \in Stored(SideOf[k]) \cup passed
    <3> DEFINE m == checkpoint[SideOf[k]][ItemAccount[k]]
    <3>1. m \in Marks /\ m <= today
      BY <1>1 DEF TypeOK, WInv, NotAhead
    <3>2. WindowStart(m) \in Int /\ WindowStart(m) <= today
      BY <1>1, <3>1, WindowBound
    <3>3. CASE k = i
      BY <1>2, <3>2, <3>3
    <3>4. CASE k # i
      BY <1>2, <3>4 DEF WInv, NoneBetweenWindows
    <3> QED
      BY <3>3, <3>4
  <2>2. \A m : WindowStart(m)' = WindowStart(m)
    BY <1>1 DEF WindowStart
  <2> QED
    BY <1>1, <1>3, <2>1, <2>2 DEF NoneBetweenWindows
<1>5. NotAhead'
  BY <1>1, <1>2 DEF WInv, NotAhead
<1>6. ASSUME NEW j \in Jobs, NEW s \in Sides PROVE Windowed(j, s)'
  <2> DEFINE v == seen[j][s]
  <2>1. v \in SeenRows /\ Windowed(j, s) /\ seen'[j][s] = v
    BY <1>1 DEF TypeOK, WInv
  <2>2. Mine(j, s)' = Mine(j, s) /\ Past(j, s)' = Past(j, s)
    BY <1>1 DEF Mine, Past
  <2>3. v.from \in Int /\ v.to \in Int
    BY <2>1 DEF SeenRows, Days
  <2>4. v.account # None => ~(today < v.from) /\ ~(today < v.to)
    BY <1>2, <2>1, <2>3 DEF Windowed
  <2>5. ASSUME v.account # None
        PROVE  /\ \A k \in Mine(j, s) : received'[k] < v.from => k \in Stored(s) \cup passed
               /\ Past(j, s) /\ ~v.error =>
                    \A k \in Mine(j, s) : v.from <= received'[k] /\ received'[k] < v.to => k \in v.offered
    <3>1. ASSUME NEW k \in Mine(j, s)
          PROVE  /\ received'[k] < v.from => received[k] < v.from
                 /\ v.from <= received'[k] /\ received'[k] < v.to =>
                      v.from <= received[k] /\ received[k] < v.to
      BY <1>2, <2>4, <2>5 DEF Mine
    <3> QED
      BY <2>1, <2>5, <3>1 DEF Windowed
  <2> QED
    BY <1>1, <1>3, <2>1, <2>2, <2>5 DEF Windowed
<1> QED
  BY <1>4, <1>5, <1>6 DEF WInv

\* Steps that read nothing.
LEMMA WinStart ==
  ASSUME IInv, WInv, NEW j \in Jobs,
         \/ Start(j) \/ Run(j)
         \/ \E s \in Sides : NothingToList(j, s)
  PROVE  WInv'
<1>1. /\ today' = today /\ received' = received /\ checkpoint' = checkpoint /\ docs' = docs
      /\ passed' = passed /\ seen' = seen /\ \A k \in Jobs \ {j} : pc'[k] = pc[k]
  BY DEF IInv, TypeOK, Start, Run, NothingToList, Goto
<1>2. ASSUME NEW s \in Sides PROVE Windowed(j, s)'
  <2>1. Windowed(j, s) /\ seen'[j][s] = seen[j][s]
    BY <1>1 DEF WInv
  <2>2. pc'[j] # At.store[s]
    BY StepNames DEF IInv, TypeOK, Start, Run, NothingToList, Goto, Sides
  <2>3. CASE Past(j, s)' => Past(j, s)
    BY <1>1, <2>1, <2>2, <2>3, StoredGrows, WindowedKept
  <2>4. CASE seen[j][s].account = None
    BY <1>1, <2>1, <2>2, <2>4 DEF Windowed
  <2>5. \/ Past(j, s)' => Past(j, s)
        \/ seen[j][s].account = None
    <3>1. CASE Start(j) \/ Run(j)
      BY <3>1 DEF Past, Start, Run, Goto, IInv, TypeOK
    <3>2. ASSUME NEW t \in Sides, NothingToList(j, t)
          PROVE  (Past(j, s)' => Past(j, s)) \/ seen[j][s].account = None
      BY <3>2, StepNames DEF NothingToList, Past, Sides, Goto, IInv, TypeOK
    <3> QED
      BY <3>1, <3>2
  <2> QED
    BY <2>3, <2>4, <2>5
<1> QED
  BY <1>1, <1>2, WindowFrame

\* A run that ends.
LEMMA WinLeave ==
  ASSUME IInv, WInv, NEW j \in Jobs, Leave(j),
         UNCHANGED <<today, received, checkpoint, docs, passed>>
  PROVE  WInv'
<1>1. /\ \A k \in Jobs \ {j} : pc'[k] = pc[k] /\ seen'[k] = seen[k]
      /\ seen'[j] = [s \in Sides |-> Nothing] /\ pc'[j] = "ended"
  BY LeaveKept DEF IInv
<1>2. \A s \in Sides : Windowed(j, s)'
  BY <1>1, WindowedNothing
<1> QED
  BY <1>1, <1>2, WindowFrame

\* The window of a run begins where its checkpoint says, and ends today.
LEMMA WinSetup ==
  ASSUME LastDay =< Initial, IInv, WInv, NEW j \in Jobs, Setup(j)
  PROVE  WInv'
<1>1. PICK f \in Directions :
        seen' = [seen EXCEPT ![j] = [s \in Sides |->
                   IF f[s] = None THEN Nothing
                   ELSE [Nothing EXCEPT !.account = f[s], !.began = source[s],
                                        !.insert = checkpoint[s][f[s]] = Absent,
                                        !.from = WindowStart(checkpoint[s][f[s]]),
                                        !.to = today]]]
  BY DEF Setup
<1>2. /\ today' = today /\ received' = received /\ checkpoint' = checkpoint /\ docs' = docs
      /\ passed' = passed /\ pc'[j] = "setup"
      /\ \A k \in Jobs \ {j} : pc'[k] = pc[k] /\ seen'[k] = seen[k]
  BY <1>1 DEF IInv, TypeOK, Setup, Goto
<1>3. ASSUME NEW s \in Sides PROVE Windowed(j, s)'
  <2>1. \/ seen'[j][s].account = None
        \/ /\ f[s] \in Accounts
           /\ seen'[j][s].account = f[s] /\ seen'[j][s].to = today
           /\ seen'[j][s].from = WindowStart(checkpoint[s][f[s]])
    BY <1>1 DEF IInv, TypeOK, Nothing, Directions
  <2>2. seen'[j][s].mark = Absent
    BY <1>1 DEF IInv, TypeOK, Nothing
  <2>3. pc'[j] # At.store[s] /\ ~Past(j, s)'
    BY <1>2, StepNames DEF Past, Sides
  <2>4. ASSUME f[s] \in Accounts, seen'[j][s].account = f[s], seen'[j][s].to = today,
               seen'[j][s].from = WindowStart(checkpoint[s][f[s]])
        PROVE  /\ seen'[j][s].from <= seen'[j][s].to
               /\ \A i \in Mine(j, s)' : received[i] < seen'[j][s].from => i \in Stored(s) \cup passed
    <3>1. checkpoint[s][f[s]] \in Marks /\ checkpoint[s][f[s]] <= today
      BY <2>4 DEF IInv, TypeOK, WInv, NotAhead
    <3>2. WindowStart(checkpoint[s][f[s]]) <= today
      BY <3>1, WindowBound DEF IInv
    <3>3. \A i \in Mine(j, s)' : i \in Items /\ SideOf[i] = s /\ ItemAccount[i] = f[s]
      BY <2>4 DEF Mine
    <3>4. \A i \in Mine(j, s)' : received[i] < seen'[j][s].from => i \in Stored(s) \cup passed
      BY <2>4, <3>3 DEF WInv, NoneBetweenWindows
    <3> QED
      BY <2>4, <3>2, <3>4
  <2>5. Stored(s)' = Stored(s)
    BY <1>2 DEF Stored
  <2> QED
    BY <1>2, <2>1, <2>2, <2>3, <2>4, <2>5 DEF Windowed
<1> QED
  BY <1>2, <1>3, WindowFrame

\* A checkpoint row that a run inserts has no watermark.
LEMMA WinSetupCommit ==
  ASSUME LastDay =< Initial, IInv, WInv, NEW j \in Jobs, SetupCommit(j)
  PROVE  WInv'
<1>1. /\ TypeOK /\ today' = today /\ received' = received /\ docs' = docs /\ passed' = passed
      /\ seen' = seen /\ \A k \in Jobs \ {j} : pc'[k] = pc[k]
  BY DEF IInv, TypeOK, SetupCommit, Goto
<1>2. \A s \in Sides, a \in Accounts :
        checkpoint'[s][a] = checkpoint[s][a] \/ checkpoint'[s][a] = Fresh
  BY DEF SetupCommit
<1>3. \A s \in Sides : Stored(s)' = Stored(s)
  BY <1>1 DEF Stored
<1>4. Fresh \in Marks /\ Fresh <= today /\ Fresh \notin Days
  BY <1>1 DEF Marks, Fresh, TypeOK, Days
<1>5. \A i \in Items : received[i] \in 0..LastDay + 1
  BY <1>1 DEF TypeOK, Days, NotYet
<1>6. NoneBetweenWindows'
  <2>1. \A m : WindowStart(m)' = WindowStart(m)
    BY <1>1 DEF WindowStart
  <2>2. WindowStart(Fresh) \in Int /\ WindowStart(Fresh) <= 0
    BY <1>1, <1>4, WindowBound
  <2>3. ASSUME NEW i \in Items,
               received[i] < WindowStart(checkpoint'[SideOf[i]][ItemAccount[i]])
        PROVE  i \in Stored(SideOf[i]) \cup passed
    <3>1. CASE checkpoint'[SideOf[i]][ItemAccount[i]] = Fresh
      BY <1>5, <2>2, <2>3, <3>1
    <3>2. CASE checkpoint'[SideOf[i]][ItemAccount[i]] = checkpoint[SideOf[i]][ItemAccount[i]]
      BY <2>3, <3>2 DEF WInv, NoneBetweenWindows
    <3>3. SideOf[i] \in Sides /\ ItemAccount[i] \in Accounts
      OBVIOUS
    <3> QED
      BY <1>2, <3>1, <3>2, <3>3
  <2> QED
    BY <1>1, <1>3, <2>1, <2>3 DEF NoneBetweenWindows
<1>7. NotAhead'
  BY <1>1, <1>2, <1>4 DEF WInv, NotAhead
<1>8. ASSUME NEW k \in Jobs, NEW s \in Sides PROVE Windowed(k, s)'
  <2>1. Windowed(k, s) /\ seen'[k][s] = seen[k][s]
    BY <1>1 DEF WInv
  <2>2. (pc'[k] = At.store[s] => pc[k] = At.store[s]) /\ (Past(k, s)' => Past(k, s))
    BY <1>1, StepNames DEF SetupCommit, Goto, TypeOK, Past, Sides
  <2> QED
    BY <1>1, <2>1, <2>2, StoredGrows, WindowedKept
<1> QED
  BY <1>6, <1>7, <1>8 DEF WInv

\* A listing that comes back covers the window up to the day before its end.
LEMMA WinList ==
  ASSUME IInv, WInv, NEW j \in Jobs, NEW s \in Sides, List(j, s) \/ ListError(j, s)
  PROVE  WInv'
<1> DEFINE u == seen[j][s]
<1>1. TypeOK /\ u \in SeenRows /\ Windowed(j, s)
  BY DEF IInv, TypeOK, WInv
<1>2. PICK v \in SeenRows : Sees(j, s, v) /\ v.mark = u.mark
  BY ListedRow DEF Listed
<1>3. /\ seen'[j][s] = v
      /\ \A t \in Sides \ {s} : seen'[j][t] = seen[j][t]
      /\ \A k \in Jobs \ {j} : seen'[k] = seen[k]
  BY <1>1, <1>2, SeenAt
<1>4. /\ today' = today /\ received' = received /\ checkpoint' = checkpoint /\ docs' = docs
      /\ passed' = passed /\ pc[j] = At.list[s] /\ pc'[j] = After("list", s)
      /\ \A k \in Jobs \ {j} : pc'[k] = pc[k]
  BY <1>1 DEF List, ListError, Goto, TypeOK
<1>5. u.mark = Absent
  BY <1>4, StepNames DEF IInv, Sound, Order, Sides
<1>6. pc'[j] # At.store[s]
  BY <1>4, StepNames DEF Sides
<1>7. Stored(s)' = Stored(s)
  BY <1>4 DEF Stored
<1>8. Windowed(j, s)'
  <2>1. CASE ListError(j, s)
    <3>1. /\ seen'[j][s].error /\ seen'[j][s].account = u.account /\ seen'[j][s].from = u.from
          /\ seen'[j][s].to = u.to
      BY <1>1, <2>1 DEF ListError, TypeOK, SeenRows
    <3>2. Mine(j, s)' = Mine(j, s)
      BY <3>1 DEF Mine
    <3> QED
      BY <1>1, <1>2, <1>3, <1>4, <1>5, <1>6, <1>7, <3>1, <3>2 DEF Windowed
  <2>2. CASE List(j, s)
    <3>1. /\ seen'[j][s].offered = Offered(j, s) /\ seen'[j][s].account = u.account
          /\ seen'[j][s].from = u.from /\ seen'[j][s].to = u.to
      <4>1. PICK listed \in SUBSET Offered(j, s) : \E fetched \in SUBSET listed :
              seen' = [seen EXCEPT ![j][s].offered = Offered(j, s),
                                   ![j][s].listed = listed, ![j][s].fetched = fetched]
        BY <2>2 DEF List
      <4>2. PICK fetched \in SUBSET listed :
              seen' = [seen EXCEPT ![j][s].offered = Offered(j, s),
                                   ![j][s].listed = listed, ![j][s].fetched = fetched]
        BY <4>1
      <4>3. seen'[j][s] = [u EXCEPT !.offered = Offered(j, s), !.listed = listed,
                                    !.fetched = fetched]
        BY <1>1, <4>2 DEF TypeOK
      <4> QED
        BY <1>1, <4>3 DEF SeenRows
    <3>2. Mine(j, s)' = Mine(j, s)
      BY <3>1 DEF Mine
    <3>3. ASSUME NEW i \in Mine(j, s), u.from <= received[i], received[i] < u.to
          PROVE  i \in Offered(j, s)
      <4>1. u.to \in 0..LastDay /\ u.from \in Int /\ today \in 0..LastDay
            /\ received[i] \in 0..LastDay + 1
        BY <1>1 DEF TypeOK, SeenRows, Days, NotYet, Mine
      <4>2. today - Lookback < u.from => today - Lookback <= received[i]
        BY <3>3, <4>1
      <4>3. received[i] # NotYet /\ received[i] <= u.to
        BY <3>3, <4>1 DEF NotYet
      <4>4. i \in Items /\ SideOf[i] = s /\ ItemAccount[i] = u.account
        BY DEF Mine
      <4> QED
        BY <3>3, <4>2, <4>3, <4>4 DEF Offered
    <3> QED
      BY <1>1, <1>2, <1>3, <1>4, <1>5, <1>6, <1>7, <3>1, <3>2, <3>3 DEF Windowed
  <2> QED
    BY <2>1, <2>2
<1>9. ASSUME NEW t \in Sides \ {s} PROVE Windowed(j, t)'
  <2>1. Windowed(j, t) /\ seen'[j][t] = seen[j][t]
    BY <1>3 DEF WInv
  <2>2. pc'[j] # At.store[t] /\ (Past(j, t)' => Past(j, t))
    BY <1>4, StepNames DEF Past, Sides
  <2> QED
    BY <1>4, <2>1, <2>2, StoredGrows, WindowedKept
<1> QED
  BY <1>3, <1>4, <1>8, <1>9, WindowFrame

\* Neither looking at the documents nor inserting some, or none, touches the window.
LEMMA WinPersist ==
  ASSUME IInv, WInv, NEW j \in Jobs, NEW s \in Sides,
         Read(j, s) \/ Store(j, s) \/ NothingToStore(j, s)
  PROVE  WInv'
<1> DEFINE u == seen[j][s]
<1>1. TypeOK /\ u \in SeenRows /\ Windowed(j, s)
  BY DEF IInv, TypeOK, WInv
<1>2. /\ seen'[j][s].account = u.account /\ seen'[j][s].from = u.from
      /\ seen'[j][s].to = u.to /\ seen'[j][s].offered = u.offered
      /\ seen'[j][s].error = u.error
      /\ seen'[j][s].mark = u.mark \/ (Store(j, s) /\ seen'[j][s].mark = today)
      /\ \A t \in Sides \ {s} : seen'[j][t] = seen[j][t]
      /\ \A k \in Jobs \ {j} : seen'[k] = seen[k]
  <2>1. CASE Read(j, s)
    BY <1>1, <2>1 DEF Read, TypeOK, SeenRows
  <2>2. CASE Store(j, s)
    BY <1>1, <2>2 DEF Store, TypeOK, SeenRows
  <2>3. CASE NothingToStore(j, s)
    BY <1>1, <2>3 DEF NothingToStore, TypeOK, SeenRows
  <2> QED
    BY <2>1, <2>2, <2>3
<1>3. /\ today' = today /\ received' = received /\ checkpoint' = checkpoint /\ docs' = docs
      /\ passed' = passed /\ \A k \in Jobs \ {j} : pc'[k] = pc[k]
  BY <1>1 DEF Read, Store, NothingToStore, Goto, TypeOK
<1>4. /\ Past(j, s)
      /\ ~u.error \/ (pc'[j] # At.store[s] /\ seen'[j][s].mark = u.mark)
  BY <1>1, <1>2, StepNames DEF Read, Store, NothingToStore, Persists, Past, Windowed, Sides,
     Goto, TypeOK
<1>5. Stored(s)' = Stored(s) /\ Mine(j, s)' = Mine(j, s)
  BY <1>2, <1>3 DEF Stored, Mine
<1>6. Windowed(j, s)'
  <2>1. seen'[j][s].mark # Absent => seen'[j][s].mark <= today
    BY <1>1, <1>2 DEF Windowed, TypeOK, Days
  <2> QED
    BY <1>1, <1>2, <1>3, <1>4, <1>5, <2>1 DEF Windowed
<1>7. ASSUME NEW t \in Sides \ {s} PROVE Windowed(j, t)'
  <2>1. Windowed(j, t) /\ seen'[j][t] = seen[j][t]
    BY <1>2 DEF WInv
  <2>2. (pc'[j] = At.store[t] => pc[j] = At.store[t]) /\ (Past(j, t)' => Past(j, t))
    BY <1>1, StepNames DEF Read, Store, NothingToStore, Goto, TypeOK, Past, Sides
  <2> QED
    BY <1>3, <2>1, <2>2, StoredGrows, WindowedKept
<1> QED
  BY <1>2, <1>3, <1>6, <1>7, WindowFrame

\* A new watermark leaves nothing behind it: what came before the run's window is dealt
\* with, and what came in it, before the last Overlap days, was offered to the run.
LEMMA WatermarkCovers ==
  ASSUME IInv, WInv, NEW j \in Jobs, NEW s \in Sides, seen[j][s].mark # Absent,
         pc[j] = "commit", NEW i \in Mine(j, s), received[i] < WindowStart(seen[j][s].mark)
  PROVE  i \in Stored(s) \cup passed \cup seen[j][s].offered
<1> DEFINE v == seen[j][s]
<1>1. /\ v \in SeenRows /\ Windowed(j, s) /\ v.account # None
  BY DEF IInv, TypeOK, WInv, Sound, Picked
<1>2. v.mark \in Days /\ WindowStart(v.mark) = v.mark - Overlap
  BY <1>1 DEF SeenRows, WindowStart
<1>3. received[i] \in Int /\ today \in Int /\ v.from \in Int /\ v.to \in Int /\ v.mark \in Int
  BY <1>1, <1>2 DEF SeenRows, Days, IInv, TypeOK, NotYet, Mine
<1>4. v.mark <= today /\ today <= v.to + 1
  BY <1>1, <1>3 DEF Windowed
<1>5. received[i] < v.to
  BY <1>2, <1>3, <1>4
<1>6. Past(j, s) /\ ~v.error
  BY <1>1 DEF Past, Windowed
<1>7. CASE received[i] < v.from
  BY <1>1, <1>7 DEF Windowed
<1>8. CASE v.from <= received[i]
  BY <1>1, <1>5, <1>6, <1>8 DEF Windowed
<1> QED
  BY <1>3, <1>7, <1>8

\* The commit, which moves the watermarks.
LEMMA WinCommit ==
  ASSUME IInv, WInv, NEW j \in Jobs, Commit(j)
  PROVE  WInv'
<1> DEFINE moved == {s \in Sides : seen[j][s].mark # Absent}
<1>1. /\ TypeOK /\ Leave(j) /\ pc[j] = "commit" /\ today' = today /\ received' = received
      /\ docs \subseteq docs'
      /\ passed' = passed \cup UNION {seen[j][s].offered : s \in moved}
  BY DEF IInv, Commit
<1>2. /\ \A k \in Jobs \ {j} : pc'[k] = pc[k] /\ seen'[k] = seen[k]
      /\ seen'[j] = [s \in Sides |-> Nothing] /\ pc'[j] = "ended"
  BY <1>1, LeaveKept
<1>3. ASSUME NEW s \in Sides, NEW a \in Accounts
      PROVE  \/ checkpoint'[s][a] = checkpoint[s][a]
             \/ /\ seen[j][s].mark # Absent /\ seen[j][s].account = a
                /\ checkpoint'[s][a] = seen[j][s].mark
  BY DEF Commit
<1>4. \A s \in Sides : Stored(s) \subseteq Stored(s)'
  BY <1>1 DEF Stored
<1>5. NoneBetweenWindows'
  <2>1. \A m : WindowStart(m)' = WindowStart(m)
    BY <1>1 DEF WindowStart
  <2>2. ASSUME NEW i \in Items,
               received[i] < WindowStart(checkpoint'[SideOf[i]][ItemAccount[i]])
        PROVE  i \in Stored(SideOf[i])' \cup passed'
    <3> DEFINE s == SideOf[i]
               a == ItemAccount[i]
    <3>1. s \in Sides /\ a \in Accounts
      OBVIOUS
    <3>2. CASE checkpoint'[s][a] = checkpoint[s][a]
      BY <1>1, <1>4, <2>2, <3>1, <3>2 DEF WInv, NoneBetweenWindows
    <3>3. CASE seen[j][s].mark # Absent /\ seen[j][s].account = a
                 /\ checkpoint'[s][a] = seen[j][s].mark
      <4>1. i \in Mine(j, s)
        BY <3>1, <3>3 DEF Mine
      <4>2. i \in Stored(s) \cup passed \cup seen[j][s].offered
        BY <1>1, <2>2, <3>1, <3>3, <4>1, WatermarkCovers
      <4> QED
        BY <1>1, <1>4, <3>1, <3>3, <4>2
    <3> QED
      BY <1>3, <3>1, <3>2, <3>3
  <2> QED
    BY <1>1, <2>1, <2>2 DEF NoneBetweenWindows
<1>6. NotAhead'
  <2>1. ASSUME NEW s \in Sides, NEW a \in Accounts PROVE checkpoint'[s][a] <= today
    <3>1. checkpoint[s][a] <= today /\ Windowed(j, s)
      BY DEF WInv, NotAhead
    <3> QED
      BY <1>3, <3>1 DEF Windowed
  <2> QED
    BY <1>1, <2>1 DEF WInv, NotAhead
<1>7. ASSUME NEW k \in Jobs \ {j}, NEW s \in Sides PROVE Windowed(k, s)'
  <2>1. Windowed(k, s) /\ seen'[k][s] = seen[k][s] /\ pc'[k] = pc[k]
    BY <1>2 DEF WInv
  <2>2. Past(k, s)' => Past(k, s)
    BY <2>1 DEF Past
  <2> QED
    BY <1>1, <2>1, <2>2, StoredGrows, WindowedKept
<1>8. \A s \in Sides : Windowed(j, s)'
  BY <1>2, WindowedNothing
<1> QED
  BY <1>5, <1>6, <1>7, <1>8 DEF WInv

\* Every step keeps the windows.
LEMMA WinNext == LastDay =< Initial /\ IInv /\ WInv /\ [Next]_vars => WInv'
<1> SUFFICES ASSUME LastDay =< Initial, IInv, WInv, [Next]_vars PROVE WInv'
  OBVIOUS
<1>1. ASSUME NEW j \in Jobs, SetupFail(j) \/ SetupCollide(j) \/ Bug(j) \/ Crash(j)
      PROVE  WInv'
  BY <1>1, WinLeave DEF SetupFail, SetupCollide, Bug, Crash
<1>2. ASSUME NEW j \in Jobs, Step(j) PROVE WInv'
  BY <1>1, <1>2, WinStart, WinSetup, WinSetupCommit, WinList, WinPersist, WinCommit DEF Step
<1>3. ASSUME UNCHANGED <<today, received, checkpoint, docs, pc, seen, passed>> PROVE WInv'
  <2>1. \A j \in Jobs, s \in Sides : Windowed(j, s)'
    <3>1. ASSUME NEW j \in Jobs, NEW s \in Sides PROVE Windowed(j, s)'
      <4>1. Past(j, s)' = Past(j, s) /\ Windowed(j, s)
        BY <1>3 DEF Past, WInv
      <4> QED
        BY <1>3, <4>1, StoredGrows, WindowedKept
    <3> QED
      BY <3>1
  <2>2. \A s \in Sides : Stored(s)' = Stored(s)
    BY <1>3 DEF Stored
  <2>3. NoneBetweenWindows' /\ NotAhead'
    BY <1>3, <2>2 DEF WInv, NoneBetweenWindows, NotAhead, WindowStart
  <2> QED
    BY <2>1, <2>3 DEF WInv
<1>4. ASSUME NEW s \in Sides, NEW c \in Bindings \cup Configs \cup {None}, Rebind(s, c)
      PROVE  WInv'
  BY <1>3, <1>4 DEF Rebind
<1>6. ASSUME NEW d \in docs, Readdress(d) PROVE WInv'
  <2>1. UNCHANGED <<today, received, checkpoint, pc, seen, passed>>
    BY <1>6 DEF Readdress
  <2>2. \A s \in Sides : Stored(s)' = Stored(s)
    <3> DEFINE e == [d EXCEPT !.account = AccountOf[d.source], !.moved = TRUE]
    <3>1. d \in DocRows
      BY DEF IInv, TypeOK
    <3>2. e.item = d.item
      BY <3>1 DEF DocRows
    <3>3. docs' = (docs \ {d}) \cup {e}
      BY <1>6 DEF Readdress
    <3> HIDE DEF e
    <3> QED
      BY <3>2, <3>3 DEF Stored
  <2>3. ASSUME NEW j \in Jobs, NEW s \in Sides PROVE Windowed(j, s)'
    <3>1. Past(j, s)' = Past(j, s) /\ Windowed(j, s)
      BY <2>1 DEF Past, WInv
    <3> QED
      BY <2>1, <2>2, <3>1, WindowedKept
  <2>4. NoneBetweenWindows' /\ NotAhead'
    BY <2>1, <2>2 DEF WInv, NoneBetweenWindows, NotAhead, WindowStart
  <2> QED
    BY <2>3, <2>4 DEF WInv
<1>5. CASE UNCHANGED vars
  BY <1>3, <1>5 DEF vars
<1> QED
  BY <1>1, <1>2, <1>4, <1>5, <1>6, WinTick, WinReceive, WinStart DEF Next

\* In the first Initial days (400 in the code) no invoice falls between two windows,
\* however runs overlap, fail, or see a midnight.
THEOREM NothingBetweenWindows ==
  ASSUME LastDay =< Initial
  PROVE  Spec => []NoneBetweenWindows
<1>1. Init => WInv
  BY WinInit
<1>2. IInv /\ WInv /\ [Next]_vars => WInv'
  BY WinNext
<1>3. WInv => NoneBetweenWindows
  BY DEF WInv
<1> QED
  BY <1>1, <1>2, <1>3, Invariance, PTL DEF Spec
=============================================================================
