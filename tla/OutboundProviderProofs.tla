------------------------ MODULE OutboundProviderProofs ------------------------
(***************************************************************************)
(* Proofs about OutboundProvider, for any threads, rows, documents,        *)
(* references and accounts.                                                *)
(*                                                                         *)
(* The argument: the rows form one chain of generations whose last row is  *)
(* the actual one (Chain).  Under the advisory lock a PUT and an insert    *)
(* know the actual row when they commit (PutKnows, CreateKnows); a thread  *)
(* on its way to a call holds no lock, and knows only that a row that      *)
(* disables the provider now is younger than what it looked at             *)
(* (CallKnows); a reconciliation, which takes no lock, knows only the      *)
(* account it listed (StoreKnows).                                         *)
(*                                                                         *)
(* The refinement of ProviderHistory needs two facts more (HInv): a row is *)
(* never removed, so that a stamped document, or the one a reconciliation  *)
(* is about to store, is on a row that is there (StampedRow, StoreRow),    *)
(* and what a PUT is about to write is settled when it has read            *)
(* (PutWrites).  Then the commit of a PUT appends, the insert stamps, the  *)
(* insert of a copy files, the call calls, and every other step leaves the *)
(* history as it is.                                                       *)
(***************************************************************************)
EXTENDS OutboundProvider, SequenceTheorems, TLAPS

Kept(c) == config[c].status # "ABSENT"

\* The rows are the generations 1..n, one each, and the row n is the actual one.
Chain(n) ==
  /\ n \in 0..MaxGeneration
  /\ \A c \in Configs : IF Kept(c) THEN config[c].generation \in 1..n
                        ELSE config[c].generation = 0
  /\ \A c \in Configs : c \in Actual <=> Kept(c) /\ config[c].generation = n
  /\ \A g \in 1..n : \E c \in Configs : config[c].generation = g
  /\ \A b, c \in Configs : Kept(b) /\ config[b].generation = config[c].generation => b = c

\* A transaction has the document it is about, and a call's is stamped.
HasJob(w) ==
  /\ pc[w] \in {"create", "creating", "check", "resolve", "calling"} => job[w] \in Documents
  /\ pc[w] \in {"check", "resolve", "calling"} => stamp[job[w]] # Unstamped

PutKnows(w) ==
  pc[w] = "putting" =>
    /\ seen[w].current = Current /\ seen[w].generation = LastGeneration
    /\ seen[w].status \in {"CONFIGURED", "DISABLED"}

CreateKnows(w) ==
  pc[w] = "creating" =>
    /\ seen[w].current \in Actual
    /\ config[seen[w].current].status = "CONFIGURED"
    /\ seen[w].account = config[seen[w].current].account

\* Looked is true from the check of the actual provider on.
Looked(w) == pc[w] \in {"resolve", "calling"}

CallKnows(w) ==
  /\ Looked(w) => /\ seen[w].generation <= LastGeneration
                  /\ \A c \in Actual : config[c].status = "DISABLED" =>
                       seen[w].generation < config[c].generation
  /\ pc[w] = "resolve" /\ seen[w].ref # None => stamp[job[w]].config # None
  /\ pc[w] = "calling" =>
       /\ seen[w].account # None /\ stamp[job[w]].account \in {None, seen[w].account}
       /\ stamp[job[w]].config # None

StoreKnows(w) == pc[w] \in {"listing", "storing"} => seen[w].account # None

Knows(w) == HasJob(w) /\ PutKnows(w) /\ CreateKnows(w) /\ CallKnows(w) /\ StoreKnows(w)

Stamps == \A d \in Documents : used[d] # {} => stamp[d] # Unstamped

IInv == /\ TypeOK /\ Chain(LastGeneration) /\ Stamps /\ StampedAccountUsed
        /\ \A w \in Workers : Knows(w)

USE ProviderAssumption DEF ProviderAssumption

----
(* What get_actual and the last generation are.                            *)

\* The last generation is the length of the chain ...
LEMMA LastOfChain ==
  ASSUME TypeOK, NEW n, Chain(n)
  PROVE  LastGeneration = n
<1>1. \A c \in Configs : config[c].generation \in 0..MaxGeneration
  BY DEF TypeOK, Rows
<1>2. \A m \in 0..MaxGeneration :
        /\ \A c \in Configs : config[c].generation <= m
        /\ m = 0 \/ \E c \in Configs : config[c].generation = m
        <=> m = n
  BY <1>1 DEF Chain
<1> QED
  BY <1>2 DEF LastGeneration, Chain

\* ... also after a step.
LEMMA LastOfChainNext ==
  ASSUME TypeOK', NEW n, Chain(n)'
  PROVE  LastGeneration' = n
<1>1. \A c \in Configs : config'[c].generation \in 0..MaxGeneration
  BY DEF TypeOK, Rows
<1>2. \A m \in 0..MaxGeneration :
        /\ \A c \in Configs : config'[c].generation <= m
        /\ m = 0 \/ \E c \in Configs : config'[c].generation = m
        <=> m = n
  BY <1>1 DEF Chain, Kept
<1> QED
  BY <1>2 DEF LastGeneration, Chain

\* get_actual finds the last row of the chain, or none when there is no row.
LEMMA CurrentOfChain ==
  ASSUME NEW n, Chain(n)
  PROVE  /\ Current # None => Current \in Actual
         /\ Current = None => Actual = {} /\ n = 0
         /\ Actual \subseteq {Current}
         /\ Current \in Configs \cup {None}
<1>1. \A b, c \in Actual : b = c
  BY DEF Chain, Actual
<1>2. Actual = {} => n = 0
  BY DEF Chain, Actual, Kept
<1>3. Actual # {} => Current \in Actual
  BY DEF Current
<1>4. Actual \subseteq Configs
  BY DEF Actual
<1> QED
  BY <1>1, <1>2, <1>3, <1>4 DEF Current

\* ... also after a step.
LEMMA CurrentOfChainNext ==
  ASSUME NEW n, Chain(n)'
  PROVE  Actual' \subseteq {Current'}
<1>1. \A b, c \in Actual' : b = c
  BY DEF Chain, Actual
<1>2. Actual' # {} => Current' \in Actual'
  BY DEF Current
<1> QED
  BY <1>1, <1>2

\* What a step that leaves the rows alone leaves alone.
LEMMA RowsKept ==
  ASSUME config' = config
  PROVE  /\ LastGeneration' = LastGeneration /\ Current' = Current /\ Actual' = Actual
         /\ Chain(LastGeneration) => Chain(LastGeneration)'
<1>1. LastGeneration' = LastGeneration /\ Actual' = Actual
  BY DEF LastGeneration, Actual
<1>2. Current' = Current
  BY <1>1 DEF Current
<1> QED
  BY <1>1, <1>2 DEF Chain, Kept

\* A step of w that changes neither rows nor stamps leaves what others know true.
LEMMA OthersKnow ==
  ASSUME IInv, NEW w \in Workers, config' = config, stamp' = stamp,
         \A v \in Workers \ {w} : pc'[v] = pc[v] /\ job'[v] = job[v] /\ seen'[v] = seen[v]
  PROVE  \A v \in Workers \ {w} : Knows(v)'
<1>1. LastGeneration' = LastGeneration /\ Current' = Current /\ Actual' = Actual
  BY RowsKept
<1> QED
  BY <1>1 DEF IInv, Knows, HasJob, PutKnows, CreateKnows, CallKnows, StoreKnows, Looked

\* What a transaction adds to what it has read is well typed.
LEMMA SeenType ==
  ASSUME NEW s \in Seen, NEW r \in Refs \cup {None}, NEW g \in 0..MaxGeneration,
         NEW a \in Accounts \cup {None}, NEW c \in Configs \cup {None}
  PROVE  /\ [s EXCEPT !.ref = r, !.generation = g] \in Seen
         /\ [s EXCEPT !.current = c] \in Seen
         /\ [s EXCEPT !.account = a] \in Seen
BY DEF Seen

\* A thread without a transaction knows nothing.
LEMMA IdleKnows ==
  ASSUME NEW w \in Workers, pc'[w] = "idle"
  PROVE  Knows(w)'
BY DEF Knows, HasJob, PutKnows, CreateKnows, CallKnows, StoreKnows, Looked

----
\* The initial state satisfies the inductive invariant.
LEMMA InvInit == Init => IInv
<1>1. SUFFICES ASSUME Init PROVE IInv
  OBVIOUS
<1>2. TypeOK
  BY <1>1 DEF Init, TypeOK, Rows, NoRow, Seen, NothingSeen, Statuses, Steps, Unstamped
<1>3. Chain(0)
  BY <1>1 DEF Init, Chain, Kept, NoRow, Actual
<1>4. Chain(LastGeneration)
  BY <1>2, <1>3, LastOfChain
<1>5. Stamps /\ StampedAccountUsed
  BY <1>1 DEF Init, Stamps, StampedAccountUsed, Unstamped
<1>6. \A w \in Workers : Knows(w)
  BY <1>1 DEF Init, Knows, HasJob, PutKnows, CreateKnows, CallKnows, StoreKnows, Looked
<1> QED
  BY <1>2, <1>4, <1>5, <1>6 DEF IInv

\* A transaction that ends without a write.
LEMMA InvLeave ==
  ASSUME IInv, NEW w \in Workers, Leave(w), UNCHANGED <<config, stamp, store, used, calls>>
  PROVE  IInv'
<1>1. TypeOK'
  BY DEF IInv, TypeOK, Leave, Goto, Steps, Seen, NothingSeen, Statuses
<1>2. Chain(LastGeneration)'
  BY RowsKept DEF IInv
<1>3. Stamps' /\ StampedAccountUsed'
  BY DEF IInv, Stamps, StampedAccountUsed
<1>4. \A v \in Workers \ {w} : Knows(v)'
  BY OthersKnow DEF Leave, Goto, IInv, TypeOK
<1>5. Knows(w)'
  BY IdleKnows DEF Leave, Goto, IInv, TypeOK
<1> QED
  BY <1>1, <1>2, <1>3, <1>4, <1>5 DEF IInv

\* The beginnings of transactions.
LEMMA InvBegin ==
  ASSUME IInv, NEW w \in Workers,
         PutBegin(w) \/ \E d \in Documents : CreateBegin(w, d) \/ DispatchBegin(w, d)
  PROVE  IInv'
<1> USE DEF PutBegin, CreateBegin, DispatchBegin, Acquire, Goto
<1>1. TypeOK'
  BY DEF IInv, TypeOK, Steps
<1>2. Chain(LastGeneration)'
  BY RowsKept DEF IInv
<1>3. Stamps' /\ StampedAccountUsed'
  BY DEF IInv, Stamps, StampedAccountUsed
<1>4. \A v \in Workers \ {w} : Knows(v)'
  BY OthersKnow DEF IInv, TypeOK
<1>5. Knows(w)'
  BY DEF IInv, TypeOK, Knows, HasJob, PutKnows, CreateKnows, CallKnows, StoreKnows, Looked
<1> QED
  BY <1>1, <1>2, <1>3, <1>4, <1>5 DEF IInv

----
(* put_outbound_provider                                                   *)

\* The reads of a PUT.
LEMMA InvPutRead ==
  ASSUME IInv, NEW w \in Workers, PutRead(w)
  PROVE  IInv'
<1> DEFINE old == IF Current = None THEN NoRow ELSE config[Current]
<1>1. Current \in Configs \cup {None} /\ LastGeneration \in 0..MaxGeneration
  BY CurrentOfChain DEF IInv, Chain
<1>2. old \in Rows
  BY <1>1 DEF IInv, TypeOK, Rows, NoRow, Statuses
<1>3. PICK s \in {"CONFIGURED", "DISABLED"}, r \in Refs \cup {old.ref} :
        seen' = [seen EXCEPT ![w] =
          [current |-> Current, generation |-> LastGeneration, status |-> s, ref |-> r,
           account |-> IF s = "CONFIGURED" THEN Resolve(r) ELSE old.account]]
  BY DEF PutRead
<1>4. seen' \in [Workers -> Seen]
  <2>1. r \in Refs \cup {None} /\ old.account \in Accounts \cup {None}
    BY <1>2 DEF Rows
  <2>2. Resolve(r) \in Accounts \cup {None}
    BY <2>1 DEF Resolve, IInv, TypeOK
  <2> QED
    BY <1>1, <1>3, <2>1, <2>2 DEF IInv, TypeOK, Seen, Statuses
<1>5. TypeOK'
  BY <1>4 DEF IInv, TypeOK, Steps, PutRead, Goto
<1>6. Chain(LastGeneration)'
  BY RowsKept DEF IInv, PutRead
<1>7. Stamps' /\ StampedAccountUsed'
  BY DEF IInv, Stamps, StampedAccountUsed, PutRead
<1>8. \A v \in Workers \ {w} : Knows(v)'
  BY <1>3, OthersKnow DEF IInv, TypeOK, PutRead, Goto
<1>9. Knows(w)'
  <2>1. Current' = Current /\ LastGeneration' = LastGeneration
    BY RowsKept DEF PutRead
  <2>2. pc'[w] = "putting"
    BY DEF PutRead, Goto, IInv, TypeOK
  <2>3. PutKnows(w)'
    BY <1>3, <2>1 DEF PutKnows, IInv, TypeOK
  <2> QED
    BY <2>2, <2>3 DEF Knows, HasJob, CreateKnows, CallKnows, StoreKnows, Looked
<1> QED
  BY <1>5, <1>6, <1>7, <1>8, <1>9 DEF IInv

\* The commit of a PUT makes the chain one row longer.
LEMMA PutChain ==
  ASSUME IInv, NEW w \in Workers, PutCommit(w), NEW n, n = LastGeneration
  PROVE  /\ Chain(n + 1)'
         /\ \A c \in Actual' : config'[c].generation = n + 1
<1> DEFINE s == seen[w]
<1>1. PICK c \in Configs :
        /\ config[c].status = "ABSENT"
        /\ config' = [b \in Configs |->
             IF b = c THEN [generation |-> s.generation + 1, status |-> s.status,
                            ref |-> s.ref, account |-> s.account]
             ELSE IF b = s.current THEN [config[b] EXCEPT !.status = "SUPERSEDED"]
             ELSE config[b]]
  BY DEF PutCommit
<1>2. /\ s.current = Current /\ s.generation = n
      /\ s.status \in {"CONFIGURED", "DISABLED"}
      /\ n \in 0..MaxGeneration /\ n < MaxGeneration
  BY DEF PutCommit, IInv, Knows, PutKnows, Chain
<1>3. Chain(n) /\ Actual \subseteq {Current} /\ (Current # None => Current \in Actual)
  BY CurrentOfChain DEF IInv
<1>4. config'[c].generation = n + 1 /\ config'[c].status = s.status
  BY <1>1, <1>2
<1>5. ASSUME NEW b \in Configs, b # c
      PROVE  /\ config'[b].generation = config[b].generation
             /\ config'[b].status = IF b \in Actual THEN "SUPERSEDED" ELSE config[b].status
  BY <1>1, <1>2, <1>3, <1>5 DEF IInv, TypeOK, Rows, Actual
<1>6. \A b \in Configs : Kept(b)' <=> b = c \/ Kept(b)
  BY <1>2, <1>4, <1>5 DEF Kept, Actual
<1>7. \A b \in Configs : b \in Actual' <=> b = c
  BY <1>2, <1>4, <1>5 DEF Actual
<1>8. \A b \in Configs : IF Kept(b) THEN config[b].generation \in 1..n
                         ELSE config[b].generation = 0
  BY <1>3 DEF Chain
<1>9. \A b \in Configs : IF Kept(b)' THEN config'[b].generation \in 1..(n + 1)
                         ELSE config'[b].generation = 0
  BY <1>2, <1>4, <1>5, <1>6, <1>8
<1>10. \A g \in 1..(n + 1) : \E b \in Configs : config'[b].generation = g
  <2>1. TAKE g \in 1..(n + 1)
  <2>2. CASE g = n + 1
    BY <1>4, <2>2
  <2>3. CASE g # n + 1
    <3>1. PICK b \in Configs : config[b].generation = g
      BY <1>2, <1>3, <2>3 DEF Chain
    <3>2. b # c
      BY <1>1, <1>8, <3>1 DEF Kept
    <3> QED
      BY <1>5, <3>1, <3>2
  <2> QED
    BY <2>2, <2>3
<1>11. \A a, b \in Configs : Kept(a)' /\ config'[a].generation = config'[b].generation => a = b
  <2>1. ASSUME NEW a \in Configs, NEW b \in Configs, a # c, b # c, Kept(a)',
               config'[a].generation = config'[b].generation
        PROVE  a = b
    BY <1>3, <1>5, <1>6, <2>1 DEF Chain
  <2>2. \A b \in Configs : b # c => config'[b].generation # n + 1
    BY <1>2, <1>5, <1>8
  <2> QED
    BY <1>4, <2>1, <2>2
<1>12. \A b \in Configs : b \in Actual' <=> Kept(b)' /\ config'[b].generation = n + 1
  BY <1>4, <1>6, <1>7, <1>11
<1>13. n + 1 \in 0..MaxGeneration
  BY <1>2
<1>14. Chain(n + 1)'
  BY <1>9, <1>10, <1>11, <1>12, <1>13 DEF Chain
<1> QED
  BY <1>12, <1>14 DEF Actual

\* The commit of a PUT: it holds the lock, so no other transaction that relies on the
\* actual row is under way; those on their way to a call looked at an older one.
LEMMA InvPutCommit ==
  ASSUME IInv, NEW w \in Workers, PutCommit(w)
  PROVE  IInv'
<1>1. TypeOK'
  <2>1. config' \in [Configs -> Rows]
    BY DEF IInv, TypeOK, PutCommit, Rows, Seen, Statuses
  <2> QED
    BY <2>1 DEF IInv, TypeOK, PutCommit, Leave, Goto, Steps, Seen, NothingSeen, Statuses
<1> PICK n : n = LastGeneration
  OBVIOUS
<1>2. Chain(n + 1)' /\ \A c \in Actual' : config'[c].generation = n + 1
  BY PutChain
<1>3. LastGeneration' = n + 1
  BY <1>1, <1>2, LastOfChainNext
<1>4. Stamps' /\ StampedAccountUsed'
  BY DEF IInv, Stamps, StampedAccountUsed, PutCommit
<1>5. Knows(w)'
  BY IdleKnows DEF PutCommit, Leave, Goto, IInv, TypeOK
<1>6. ASSUME NEW v \in Workers, v # w PROVE Knows(v)'
  <2>1. pc'[v] = pc[v] /\ job'[v] = job[v] /\ seen'[v] = seen[v] /\ stamp' = stamp
    BY <1>6 DEF PutCommit, Leave, Goto, IInv, TypeOK
  <2>2. pc[v] \notin {"put", "putting", "creating"}
    BY <1>6 DEF PutCommit, IInv, TypeOK
  <2>3. HasJob(v)' /\ PutKnows(v)' /\ CreateKnows(v)' /\ StoreKnows(v)'
    BY <2>1, <2>2 DEF IInv, Knows, HasJob, PutKnows, CreateKnows, StoreKnows
  <2>4. Looked(v) => seen[v].generation \in Nat /\ seen[v].generation <= n
    BY DEF IInv, Knows, CallKnows, TypeOK, Seen
  <2>5. CallKnows(v)'
    BY <1>2, <1>3, <2>1, <2>4 DEF IInv, Knows, CallKnows, Looked, Chain
  <2> QED
    BY <2>3, <2>5 DEF Knows
<1> QED
  BY <1>1, <1>2, <1>3, <1>4, <1>5, <1>6 DEF IInv

----
(* create_outbound                                                         *)

\* The check of the provider, under the lock.
LEMMA InvRequireReady ==
  ASSUME IInv, NEW w \in Workers, RequireReady(w)
  PROVE  IInv'
<1>1. Current \in Actual /\ config[Current].status = "CONFIGURED" /\ Current \in Configs
  BY CurrentOfChain DEF IInv, RequireReady, Ready, Actual
<1>2. config[Current] \in Rows
  BY <1>1 DEF IInv, TypeOK
<1>3. TypeOK'
  <2>1. seen' \in [Workers -> Seen]
    BY <1>1, <1>2 DEF RequireReady, IInv, TypeOK, Seen, Rows
  <2> QED
    BY <2>1 DEF IInv, TypeOK, RequireReady, Acquire, Goto, Steps
<1>4. Chain(LastGeneration)'
  BY RowsKept DEF IInv, RequireReady
<1>5. Stamps' /\ StampedAccountUsed'
  BY DEF IInv, Stamps, StampedAccountUsed, RequireReady
<1>6. \A v \in Workers \ {w} : Knows(v)'
  BY OthersKnow DEF IInv, TypeOK, RequireReady, Goto
<1>7. Knows(w)'
  <2>1. Actual' = Actual
    BY RowsKept DEF RequireReady
  <2>2. pc'[w] = "creating" /\ job' = job
    BY DEF RequireReady, Goto, IInv, TypeOK
  <2>3. CreateKnows(w)'
    BY <1>1, <2>1 DEF CreateKnows, RequireReady, IInv, TypeOK
  <2>4. job[w] \in Documents
    BY DEF IInv, Knows, HasJob, RequireReady
  <2> QED
    BY <2>2, <2>3, <2>4 DEF Knows, HasJob, PutKnows, CallKnows, StoreKnows, Looked
<1> QED
  BY <1>3, <1>4, <1>5, <1>6, <1>7 DEF IInv

\* The insert.
LEMMA InvCreateCommit ==
  ASSUME IInv, NEW w \in Workers, CreateCommit(w)
  PROVE  IInv'
<1>1. /\ job[w] \in Documents /\ seen[w].current \in Configs
      /\ seen[w].account \in Accounts \cup {None}
  BY DEF IInv, CreateCommit, Knows, HasJob, CreateKnows, Actual, TypeOK, Seen
<1>2. ASSUME NEW d \in Documents
      PROVE  stamp'[d] = IF d = job[w] /\ stamp[d] = Unstamped
                         THEN [config |-> seen[w].current, account |-> seen[w].account]
                         ELSE stamp[d]
  BY <1>1 DEF CreateCommit, IInv, TypeOK
<1>3. \A d \in Documents : stamp[d] # Unstamped => stamp'[d] = stamp[d]
  BY <1>2
<1>4. \A d \in Documents : stamp[d] # Unstamped => stamp'[d] # Unstamped
  BY <1>3
<1>5. TypeOK'
  <2>1. stamp' \in [Documents -> [config : Configs \cup {None}, account : Accounts \cup {None}]]
    BY <1>1 DEF CreateCommit, IInv, TypeOK
  <2> QED
    BY <2>1 DEF IInv, TypeOK, CreateCommit, Leave, Goto, Steps, Seen, NothingSeen, Statuses
<1>6. Chain(LastGeneration)'
  BY RowsKept DEF IInv, CreateCommit
<1>7. Stamps'
  BY <1>1, <1>2, <1>4 DEF IInv, Stamps, CreateCommit
<1>8. StampedAccountUsed'
  BY <1>2, <1>3 DEF IInv, Stamps, StampedAccountUsed, CreateCommit
<1>9. Knows(w)'
  BY IdleKnows DEF CreateCommit, Leave, Goto, IInv, TypeOK
<1>10. ASSUME NEW v \in Workers, v # w PROVE Knows(v)'
  <2>1. pc'[v] = pc[v] /\ job'[v] = job[v] /\ seen'[v] = seen[v] /\ config' = config
    BY <1>10 DEF CreateCommit, Leave, Goto, IInv, TypeOK
  <2>2. LastGeneration' = LastGeneration /\ Current' = Current /\ Actual' = Actual
    BY <2>1, RowsKept
  <2>3. HasJob(v)'
    BY <1>4, <2>1 DEF IInv, Knows, HasJob
  <2>4. Looked(v) => stamp'[job[v]] = stamp[job[v]]
    BY <1>3 DEF IInv, Knows, HasJob, Looked
  <2> QED
    BY <2>1, <2>2, <2>3, <2>4
       DEF IInv, Knows, PutKnows, CreateKnows, CallKnows, StoreKnows, Looked
<1> QED
  BY <1>5, <1>6, <1>7, <1>8, <1>9, <1>10 DEF IInv

----
(* run_reconciliation                                                      *)

\* The listing, with the account the actual row resolves to.
LEMMA InvListHistory ==
  ASSUME IInv, NEW w \in Workers, ListHistory(w)
  PROVE  IInv'
<1> DEFINE account == Resolve(config[Current].ref)
<1>1. account \in Accounts
  <2>1. Current \in Configs /\ Resolve(config[Current].ref) # None
    BY CurrentOfChain DEF IInv, ListHistory, Ready, Actual
  <2> QED
    BY <2>1 DEF Resolve, IInv, TypeOK, Rows
<1>2. /\ seen' = [seen EXCEPT ![w] = [@ EXCEPT !.account = account]]
      /\ Goto(w, "listing") /\ pc[w] = "idle"
      /\ UNCHANGED <<config, stamp, store, lock, job, used, calls>>
  BY DEF ListHistory
<1> HIDE DEF account
<1>3. TypeOK'
  <2>1. [seen[w] EXCEPT !.account = account] \in Seen
    <3>1. /\ seen[w] \in Seen /\ 0 \in 0..MaxGeneration
          /\ None \in Refs \cup {None} /\ None \in Configs \cup {None}
      BY DEF IInv, TypeOK
    <3> QED
      BY <1>1, <3>1, SeenType
  <2>2. seen' \in [Workers -> Seen]
    BY <1>2, <2>1 DEF IInv, TypeOK
  <2>3. /\ pc' \in [Workers -> Steps]
        /\ \A v \in Workers : lock' = v <=> pc'[v] \in {"put", "putting", "creating"}
    BY <1>2 DEF IInv, TypeOK, Goto, Steps
  <2> QED
    BY <1>2, <2>2, <2>3 DEF IInv, TypeOK
<1>4. Chain(LastGeneration)'
  BY <1>2, RowsKept DEF IInv
<1>5. Stamps' /\ StampedAccountUsed'
  BY <1>2 DEF IInv, Stamps, StampedAccountUsed
<1>6. \A v \in Workers \ {w} : Knows(v)'
  BY <1>2, OthersKnow DEF IInv, TypeOK, Goto
<1>7. Knows(w)'
  <2>1. pc'[w] = "listing" /\ seen'[w].account = account
    BY <1>2 DEF Goto, IInv, TypeOK, Seen
  <2> QED
    BY <1>1, <2>1 DEF Knows, HasJob, PutKnows, CreateKnows, CallKnows, StoreKnows, Looked
<1> QED
  BY <1>3, <1>4, <1>5, <1>6, <1>7 DEF IInv

\* The actual row read again.
LEMMA InvReadActual ==
  ASSUME IInv, NEW w \in Workers, ReadActual(w)
  PROVE  IInv'
<1>1. /\ seen' = [seen EXCEPT ![w] = [@ EXCEPT !.current = Current]]
      /\ Goto(w, "storing") /\ pc[w] = "listing"
      /\ UNCHANGED <<config, stamp, store, lock, job, used, calls>>
  BY DEF ReadActual
<1>2. Current \in Configs \cup {None}
  BY CurrentOfChain DEF IInv
<1>3. TypeOK'
  <2>1. [seen[w] EXCEPT !.current = Current] \in Seen
    <3>1. /\ seen[w] \in Seen /\ 0 \in 0..MaxGeneration
          /\ None \in Refs \cup {None} /\ None \in Accounts \cup {None}
      BY DEF IInv, TypeOK
    <3> QED
      BY <1>2, <3>1, SeenType
  <2>2. seen' \in [Workers -> Seen]
    BY <1>1, <2>1 DEF IInv, TypeOK
  <2>3. /\ pc' \in [Workers -> Steps]
        /\ \A v \in Workers : lock' = v <=> pc'[v] \in {"put", "putting", "creating"}
    BY <1>1 DEF IInv, TypeOK, Goto, Steps
  <2> QED
    BY <1>1, <2>2, <2>3 DEF IInv, TypeOK
<1>4. Chain(LastGeneration)'
  BY <1>1, RowsKept DEF IInv
<1>5. Stamps' /\ StampedAccountUsed'
  BY <1>1 DEF IInv, Stamps, StampedAccountUsed
<1>6. \A v \in Workers \ {w} : Knows(v)'
  BY <1>1, OthersKnow DEF IInv, TypeOK, Goto
<1>7. Knows(w)'
  <2>1. pc'[w] = "storing" /\ seen'[w].account = seen[w].account
    BY <1>1 DEF Goto, IInv, TypeOK, Seen
  <2>2. seen[w].account # None
    BY <1>1 DEF IInv, Knows, StoreKnows
  <2> QED
    BY <2>1, <2>2 DEF Knows, HasJob, PutKnows, CreateKnows, CallKnows, StoreKnows, Looked
<1> QED
  BY <1>3, <1>4, <1>5, <1>6, <1>7 DEF IInv

\* The insert of a copy: nobody is about its document yet.
LEMMA InvStoreHistory ==
  ASSUME IInv, NEW w \in Workers, NEW d \in Documents, StoreHistory(w, d)
  PROVE  IInv'
<1>1. /\ seen[w].current \in Configs \cup {None} /\ seen[w].account \in Accounts
      /\ stamp[d] = Unstamped /\ \A v \in Workers : job[v] # d
  BY DEF StoreHistory, IInv, TypeOK, Seen, Knows, StoreKnows
<1>2. /\ stamp'[d] = [config |-> seen[w].current, account |-> seen[w].account]
      /\ \A e \in Documents \ {d} : stamp'[e] = stamp[e]
      /\ UNCHANGED <<config, store, used, calls>> /\ Leave(w)
  BY DEF StoreHistory, IInv, TypeOK
<1>3. TypeOK'
  <2>1. stamp' \in [Documents -> [config : Configs \cup {None}, account : Accounts \cup {None}]]
    BY <1>1 DEF StoreHistory, IInv, TypeOK
  <2> QED
    BY <1>2, <2>1 DEF IInv, TypeOK, Leave, Goto, Steps, Seen, NothingSeen, Statuses
<1>4. Chain(LastGeneration)'
  BY <1>2, RowsKept DEF IInv
<1>5. Stamps' /\ StampedAccountUsed'
  <2>1. used[d] = {}
    BY <1>1 DEF IInv, Stamps
  <2>2. stamp'[d] # Unstamped
    BY <1>1, <1>2 DEF Unstamped
  <2> QED
    BY <1>2, <2>1, <2>2 DEF IInv, Stamps, StampedAccountUsed
<1>6. Knows(w)'
  BY <1>2, IdleKnows DEF Leave, Goto, IInv, TypeOK
<1>7. ASSUME NEW v \in Workers, v # w PROVE Knows(v)'
  <2>1. pc'[v] = pc[v] /\ job'[v] = job[v] /\ seen'[v] = seen[v]
    BY <1>2, <1>7 DEF Leave, Goto, IInv, TypeOK
  <2>2. LastGeneration' = LastGeneration /\ Current' = Current /\ Actual' = Actual
    BY <1>2, RowsKept
  <2>3. job[v] \in Documents => stamp'[job[v]] = stamp[job[v]]
    BY <1>1, <1>2
  <2> QED
    BY <1>2, <2>1, <2>2, <2>3
       DEF IInv, Knows, HasJob, PutKnows, CreateKnows, CallKnows, StoreKnows, Looked
<1> QED
  BY <1>3, <1>4, <1>5, <1>6, <1>7 DEF IInv

----
(* process_attempt                                                         *)

\* The actual provider is not DISABLED at this moment.
LEMMA InvCheck ==
  ASSUME IInv, NEW w \in Workers, CheckActual(w)
  PROVE  IInv'
<1>1. CASE \E c \in Actual : config[c].status = "DISABLED"
  BY <1>1, InvLeave DEF CheckActual
<1>2. CASE ~\E c \in Actual : config[c].status = "DISABLED"
  <2>1. /\ seen' = [seen EXCEPT ![w] = [@ EXCEPT !.ref = StampedRef(job[w]),
                                                 !.generation = LastGeneration]]
        /\ Goto(w, "resolve")
        /\ UNCHANGED <<config, stamp, store, lock, job, used, calls>>
    BY <1>2 DEF CheckActual
  <2>2. job[w] \in Documents /\ stamp[job[w]] # Unstamped /\ LastGeneration \in 0..MaxGeneration
    BY DEF IInv, Knows, HasJob, CheckActual, Chain
  <2>3. /\ StampedRef(job[w]) \in Refs \cup {None}
        /\ StampedRef(job[w]) # None => stamp[job[w]].config # None
    BY <2>2 DEF StampedRef, IInv, TypeOK, Rows
  <2>4. TypeOK'
    <3> DEFINE t == [seen[w] EXCEPT !.ref = StampedRef(job[w]),
                                    !.generation = LastGeneration]
    <3>1. t \in Seen
      BY <2>2, <2>3, SeenType DEF IInv, TypeOK
    <3>2. seen' = [seen EXCEPT ![w] = t]
      BY <2>1
    <3> HIDE DEF t
    <3>3. seen' \in [Workers -> Seen]
      BY <3>1, <3>2 DEF IInv, TypeOK
    <3> QED
      BY <2>1, <3>3 DEF IInv, TypeOK, Goto, Steps, CheckActual
  <2>5. Chain(LastGeneration)'
    BY <2>1, RowsKept DEF IInv
  <2>6. Stamps' /\ StampedAccountUsed'
    BY <2>1 DEF IInv, Stamps, StampedAccountUsed
  <2>7. \A v \in Workers \ {w} : Knows(v)'
    BY <2>1, OthersKnow DEF IInv, TypeOK, Goto
  <2>8. Knows(w)'
    <3>1. LastGeneration' = LastGeneration /\ Actual' = Actual
      BY <2>1, RowsKept
    <3>2. /\ pc'[w] = "resolve" /\ seen'[w].generation = LastGeneration
          /\ seen'[w].ref = StampedRef(job[w])
      BY <2>1 DEF Goto, IInv, TypeOK, Seen
    <3> QED
      BY <1>2, <2>1, <2>2, <2>3, <3>1, <3>2
         DEF Knows, HasJob, PutKnows, CreateKnows, CallKnows, StoreKnows, Looked
  <2> QED
    BY <2>4, <2>5, <2>6, <2>7, <2>8 DEF IInv
<1> QED
  BY <1>1, <1>2

\* The account that will be used is the stamped one, if there is one.
LEMMA InvResolve ==
  ASSUME IInv, NEW w \in Workers, ResolveStamped(w)
  PROVE  IInv'
<1> DEFINE account == Resolve(seen[w].ref)
<1>1. account \in Accounts \cup {None}
  BY DEF Resolve, IInv, TypeOK, Seen
<1>2. /\ account # None /\ stamp[job[w]].account \in {None, account}
      /\ seen' = [seen EXCEPT ![w] = [@ EXCEPT !.account = account]]
      /\ Goto(w, "calling") /\ pc[w] = "resolve"
      /\ UNCHANGED <<config, stamp, store, lock, job, used, calls>>
  BY DEF ResolveStamped
<1> HIDE DEF account
<1>3. TypeOK'
  <2>1. [seen[w] EXCEPT !.account = account] \in Seen
    <3>1. /\ seen[w] \in Seen /\ 0 \in 0..MaxGeneration
          /\ None \in Refs \cup {None} /\ None \in Configs \cup {None}
      BY DEF IInv, TypeOK
    <3> QED
      BY <1>1, <3>1, SeenType
  <2>2. seen' \in [Workers -> Seen]
    BY <1>2, <2>1 DEF IInv, TypeOK
  <2>3. /\ lock' \in Workers \cup {None}
        /\ \A v \in Workers : lock' = v <=> pc'[v] \in {"put", "putting", "creating"}
    BY <1>2 DEF IInv, TypeOK, Goto
  <2>4. pc' \in [Workers -> Steps]
    BY <1>2 DEF IInv, TypeOK, Goto, Steps
  <2> QED
    BY <1>2, <2>2, <2>3, <2>4 DEF IInv, TypeOK
<1>4. Chain(LastGeneration)'
  BY <1>2, RowsKept DEF IInv
<1>5. Stamps' /\ StampedAccountUsed'
  BY <1>2 DEF IInv, Stamps, StampedAccountUsed
<1>6. \A v \in Workers \ {w} : Knows(v)'
  BY <1>2, OthersKnow DEF IInv, TypeOK, Goto
<1>7. Knows(w)'
  <2>1. LastGeneration' = LastGeneration /\ Actual' = Actual
    BY <1>2, RowsKept
  <2>2. /\ pc'[w] = "calling" /\ seen'[w].generation = seen[w].generation
        /\ seen'[w].account = account
    BY <1>2 DEF Goto, IInv, TypeOK, Seen
  <2>3. stamp[job[w]].config # None
    BY <1>2 DEF account, Resolve, IInv, Knows, CallKnows
  <2> QED
    BY <1>2, <2>1, <2>2, <2>3
       DEF IInv, Knows, HasJob, PutKnows, CreateKnows, CallKnows, StoreKnows, Looked
<1> QED
  BY <1>3, <1>4, <1>5, <1>6, <1>7 DEF IInv

\* The call.
LEMMA InvCall ==
  ASSUME IInv, NEW w \in Workers, Call(w)
  PROVE  IInv'
<1>1. /\ job[w] \in Documents /\ stamp[job[w]] # Unstamped
      /\ seen[w].account \in Accounts /\ stamp[job[w]].account \in {None, seen[w].account}
  BY DEF IInv, Call, Knows, HasJob, CallKnows, TypeOK, Seen
<1>2. TypeOK'
  <2>1. used' \in [Documents -> SUBSET Accounts]
    BY <1>1 DEF Call, IInv, TypeOK
  <2>2. calls' \in [Documents -> 0..MaxCalls]
    BY <1>1 DEF Call, IInv, TypeOK
  <2> QED
    BY <2>1, <2>2 DEF IInv, TypeOK, Call, Leave, Goto, Steps, Seen, NothingSeen, Statuses
<1>3. Chain(LastGeneration)'
  BY RowsKept DEF IInv, Call
<1>4. Stamps' /\ StampedAccountUsed'
  BY <1>1 DEF IInv, TypeOK, Stamps, StampedAccountUsed, Call
<1>5. \A v \in Workers \ {w} : Knows(v)'
  BY OthersKnow DEF IInv, TypeOK, Call, Leave, Goto
<1>6. Knows(w)'
  BY IdleKnows DEF Call, Leave, Goto, IInv, TypeOK
<1> QED
  BY <1>2, <1>3, <1>4, <1>5, <1>6 DEF IInv

\* The operator changes what a reference resolves to.
LEMMA InvStore ==
  ASSUME IInv, NEW r \in Refs, ChangeStore(r)
  PROVE  IInv'
<1>1. TypeOK'
  BY DEF IInv, TypeOK, ChangeStore
<1>2. LastGeneration' = LastGeneration /\ Current' = Current /\ Actual' = Actual
  BY RowsKept DEF ChangeStore
<1>3. Chain(LastGeneration)'
  BY RowsKept DEF IInv, ChangeStore
<1>4. Stamps' /\ StampedAccountUsed'
  BY DEF IInv, Stamps, StampedAccountUsed, ChangeStore
<1>5. \A w \in Workers : Knows(w)'
  BY <1>2 DEF IInv, ChangeStore, Knows, HasJob, PutKnows, CreateKnows, CallKnows, StoreKnows, Looked
<1> QED
  BY <1>1, <1>3, <1>4, <1>5 DEF IInv

\* Every step preserves the inductive invariant.
LEMMA InvNext == IInv /\ [Next]_vars => IInv'
<1>1. SUFFICES ASSUME IInv, [Next]_vars PROVE IInv'
  OBVIOUS
<1>2. ASSUME NEW w \in Workers, Transaction(w) \/ Crash(w)
      PROVE  IInv'
  <2>1. CASE PutRefuse(w) \/ NotReady(w) \/ Block(w) \/ Crash(w)
    BY <1>1, <2>1, InvLeave DEF PutRefuse, NotReady, Block, Crash
  <2>2. CASE PutBegin(w) \/ \E d \in Documents : CreateBegin(w, d) \/ DispatchBegin(w, d)
    BY <1>1, <2>2, InvBegin
  <2>3. CASE PutRead(w) \/ PutCommit(w)
    BY <1>1, <2>3, InvPutRead, InvPutCommit
  <2>4. CASE RequireReady(w) \/ CreateCommit(w)
    BY <1>1, <2>4, InvRequireReady, InvCreateCommit
  <2>5. CASE CheckActual(w) \/ ResolveStamped(w) \/ Call(w)
    BY <1>1, <2>5, InvCheck, InvResolve, InvCall
  <2>6. CASE ListHistory(w) \/ ReadActual(w) \/ \E d \in Documents : StoreHistory(w, d)
    BY <1>1, <2>6, InvListHistory, InvReadActual, InvStoreHistory
  <2> QED
    BY <1>2, <2>1, <2>2, <2>3, <2>4, <2>5, <2>6 DEF Transaction
<1>3. ASSUME NEW r \in Refs, ChangeStore(r) PROVE IInv'
  BY <1>1, <1>3, InvStore
<1>4. CASE UNCHANGED vars
  <2>1. LastGeneration' = LastGeneration /\ Current' = Current /\ Actual' = Actual
        /\ (Chain(LastGeneration) => Chain(LastGeneration)')
    BY <1>4, RowsKept DEF vars
  <2> QED
    BY <1>1, <1>4, <2>1 DEF IInv, vars, TypeOK, Stamps, StampedAccountUsed, Knows, HasJob,
                            PutKnows, CreateKnows, CallKnows, StoreKnows, Looked
<1> QED
  BY <1>1, <1>2, <1>3, <1>4 DEF Next

\* The inductive invariant holds in every reachable state.
THEOREM Invariance == Spec => []IInv
BY InvInit, InvNext, PTL DEF Spec

----
\* The variables keep their types, and the advisory lock is held exactly inside a PUT
\* or an insert.
THEOREM TypeCorrect == Spec => []TypeOK
<1>1. IInv => TypeOK
  BY DEF IInv
<1> QED
  BY <1>1, Invariance, PTL

\* The rows put_outbound_provider leaves are one history, with one actual row at its
\* end.
THEOREM HistoryKept == Spec => []History
<1>1. ASSUME IInv PROVE History
  <2>1. Chain(LastGeneration)
    BY <1>1 DEF IInv
  <2>2. ASSUME NEW c \in Configs, config[c].status # "ABSENT"
        PROVE  /\ config[c].status \in {"CONFIGURED", "DISABLED"}
                    <=> config[c].generation = LastGeneration
               /\ \A b \in Configs : config[b].generation = config[c].generation => b = c
    BY <2>1, <2>2 DEF Chain, Kept, Actual
  <2>3. ASSUME NEW c \in Configs, config[c].status # "ABSENT", config[c].generation > 1
        PROVE  \E b \in Configs : config[b].generation = config[c].generation - 1
    <3>1. config[c].generation - 1 \in 1..LastGeneration
      BY <2>1, <2>3 DEF Chain, Kept
    <3> QED
      BY <2>1, <3>1 DEF Chain
  <2> QED
    BY <2>2, <2>3 DEF History
<1> QED
  BY <1>1, Invariance, PTL

\* No PUT is refused by the unique indexes, however many race (lock_oib).
THEOREM PutsNeverCollide == Spec => []NoCollision
<1>1. ASSUME IInv, NEW w \in Workers, pc[w] = "putting" PROVE ~Collides(w)
  <2>1. seen[w].current = Current /\ seen[w].generation = LastGeneration
    BY <1>1 DEF IInv, Knows, PutKnows
  <2>2. Actual \subseteq {Current} /\ Chain(LastGeneration)
    BY <1>1, CurrentOfChain DEF IInv
  <2>3. \A c \in Configs : config[c].generation # LastGeneration + 1
    BY <2>2 DEF Chain
  <2> QED
    BY <2>1, <2>2, <2>3 DEF Collides
<1>2. IInv => NoCollision
  BY <1>1 DEF NoCollision
<1> QED
  BY <1>2, Invariance, PTL

\* Every call about a document goes to the account it was stamped with, whatever the
\* operator does to provider and credentials (process_attempt's comparison).
THEOREM CallsUseTheStamp == Spec => []StampedAccountUsed
<1>1. IInv => StampedAccountUsed
  BY DEF IInv
<1> QED
  BY <1>1, Invariance, PTL

\* Only an insert stamps: that of create_outbound, and under the lock what it read is
\* still so, or that of a reconciliation.
LEMMA StepStamps ==
  ASSUME IInv, [Next]_vars, NEW d \in Documents, stamp'[d] # stamp[d]
  PROVE  /\ stamp[d] = Unstamped
         /\ \/ /\ stamp'[d].config \in Actual
               /\ config[stamp'[d].config].status = "CONFIGURED"
               /\ stamp'[d].account = config[stamp'[d].config].account
            \/ /\ ~\E w \in Workers : job[w] = d
               /\ \E w \in Workers : StoreHistory(w, d)
<1>1. PICK w \in Workers : CreateCommit(w) \/ \E e \in Documents : StoreHistory(w, e)
  BY DEF Next, vars, Transaction, Crash, ChangeStore, PutBegin, PutRead, PutRefuse, PutCommit,
         CreateBegin, RequireReady, NotReady, ListHistory, ReadActual, DispatchBegin,
         CheckActual, ResolveStamped, Block, Call
<1>2. CASE CreateCommit(w)
  <2>1. d = job[w] /\ stamp[d] = Unstamped
        /\ stamp'[d] = [config |-> seen[w].current, account |-> seen[w].account]
    BY <1>2 DEF CreateCommit, IInv, TypeOK
  <2>2. CreateKnows(w) /\ pc[w] = "creating"
    BY <1>2 DEF IInv, Knows, CreateCommit
  <2> QED
    BY <2>1, <2>2 DEF CreateKnows
<1>3. ASSUME NEW e \in Documents, StoreHistory(w, e) PROVE
        /\ stamp[d] = Unstamped /\ e = d /\ ~\E v \in Workers : job[v] = d
  BY <1>3 DEF StoreHistory, IInv, TypeOK
<1> QED
  BY <1>1, <1>2, <1>3

\* A new document is stamped with the row that is actual and CONFIGURED at its commit
\* (require_ready_outbound under the advisory lock), and no stamp ever changes.
THEOREM StampsAreActual == Spec => StampedActual
<1>1. IInv /\ [Next]_vars =>
        [\A d \in Documents :
           stamp'[d] # stamp[d] =>
             /\ stamp[d] = Unstamped
             /\ (\E w \in Workers : job[w] = d) =>
                  LET c == stamp'[d].config IN
                  /\ c \in Actual /\ config[c].status = "CONFIGURED"
                  /\ stamp'[d].account = config[c].account]_vars
  BY StepStamps
<1> QED
  BY <1>1, Invariance, PTL DEF Spec, StampedActual

\* While the provider is DISABLED only threads that had looked before may still call.
THEOREM CallsPredate == Spec => CallsPredateDisable
<1>1. IInv /\ [Next]_vars =>
        [\A w \in Workers :
           /\ pc[w] = "calling" /\ calls'[job[w]] # calls[job[w]]
           => \A c \in Actual : config[c].status = "DISABLED" =>
                seen[w].generation < config[c].generation]_vars
  BY DEF IInv, Knows, CallKnows, Looked
<1> QED
  BY <1>1, Invariance, PTL DEF Spec, CallsPredateDisable

----
(* The history put_outbound_provider promises (ProviderHistory).           *)

\* A document is on a row that is there, or on none ...
StampedRow == \A d \in Documents : stamp[d].config # None => Kept(stamp[d].config)

\* ... and so will a copy be that is about to be stored.
StoreRow(w) == pc[w] = "storing" /\ seen[w].current # None => Kept(seen[w].current)

\* What a PUT is about to write has a reference, or keeps the account.
PutWrites(w) ==
  pc[w] = "putting" =>
    /\ seen[w].status = "CONFIGURED" => seen[w].ref # None
    /\ seen[w].status = "DISABLED" =>
         seen[w].account = IF Current = None THEN None ELSE config[Current].account

HInv == IInv /\ StampedRow /\ \A w \in Workers : PutWrites(w) /\ StoreRow(w)

\* Outside the commit of a PUT the rows stay.
LEMMA OnlyPutsWrite ==
  ASSUME [Next]_vars, config' # config
  PROVE  \E w \in Workers : PutCommit(w)
BY DEF Next, vars, Transaction, Crash, ChangeStore, PutBegin, PutRead, PutRefuse, CreateBegin,
       RequireReady, NotReady, CreateCommit, ListHistory, ReadActual, StoreHistory,
       DispatchBegin, CheckActual, ResolveStamped, Block, Call

\* The commit of a PUT writes one new row, and of the others only the status.
LEMMA PutCommitWrites ==
  ASSUME IInv, NEW w \in Workers, PutCommit(w)
  PROVE  \E c \in Configs :
           /\ ~Kept(c)
           /\ config'[c] = [generation |-> LastGeneration + 1, status |-> seen[w].status,
                            ref |-> seen[w].ref, account |-> seen[w].account]
           /\ \A b \in Configs \ {c} :
                /\ config'[b].generation = config[b].generation
                /\ Written(b)' = Written(b)
                /\ Kept(b) => Kept(b)'
<1>1. seen[w].generation = LastGeneration
  BY DEF PutCommit, IInv, Knows, PutKnows
<1>2. PICK c \in Configs :
        /\ config[c].status = "ABSENT"
        /\ config' = [b \in Configs |->
             IF b = c THEN [generation |-> LastGeneration + 1, status |-> seen[w].status,
                            ref |-> seen[w].ref, account |-> seen[w].account]
             ELSE IF b = seen[w].current THEN [config[b] EXCEPT !.status = "SUPERSEDED"]
             ELSE config[b]]
  BY <1>1 DEF PutCommit
<1>3. ASSUME NEW b \in Configs, b # c
      PROVE  /\ config'[b].generation = config[b].generation
             /\ Written(b)' = Written(b)
             /\ Kept(b) => Kept(b)'
  BY <1>2, <1>3 DEF IInv, TypeOK, Rows, Written, Kept
<1> QED
  BY <1>2, <1>3 DEF Kept

\* A row that is there keeps its generation, its reference and its account for good.
LEMMA RowsStay ==
  ASSUME IInv, [Next]_vars, NEW c \in Configs, Kept(c)
  PROVE  Kept(c)' /\ Written(c)' = Written(c) /\ config'[c].generation = config[c].generation
<1>1. CASE config' = config
  BY <1>1 DEF Kept, Written
<1>2. CASE config' # config
  BY <1>2, OnlyPutsWrite, PutCommitWrites
<1> QED
  BY <1>1, <1>2

\* The list of rows: its n-th entry is the row of generation n.
LEMMA RowOfChain ==
  ASSUME NEW n, Chain(n)
  PROVE  /\ \A g \in 1..n : /\ RowOf(g) \in Configs /\ Kept(RowOf(g))
                            /\ config[RowOf(g)].generation = g
         /\ \A c \in Configs : Kept(c) => RowOf(config[c].generation) = c
<1>1. ASSUME NEW g \in 1..n
      PROVE  RowOf(g) \in Configs /\ Kept(RowOf(g)) /\ config[RowOf(g)].generation = g
  <2>1. \E c \in Configs : config[c].generation = g
    BY DEF Chain
  <2>2. RowOf(g) \in Configs /\ config[RowOf(g)].generation = g
    BY <2>1 DEF RowOf
  <2> QED
    BY <2>2 DEF Chain
<1>2. ASSUME NEW c \in Configs, Kept(c) PROVE RowOf(config[c].generation) = c
  <2>1. RowOf(config[c].generation) \in Configs
        /\ config[RowOf(config[c].generation)].generation = config[c].generation
    BY <1>2 DEF RowOf
  <2> QED
    BY <1>2, <2>1 DEF Chain
<1> QED
  BY <1>1, <1>2

\* What is said of rows and stamps survives every step.
LEMMA StampedRowNext ==
  ASSUME HInv, [Next]_vars
  PROVE  StampedRow'
<1> SUFFICES ASSUME NEW d \in Documents, stamp'[d].config # None
             PROVE  config'[stamp'[d].config].status # "ABSENT"
  BY DEF StampedRow, Kept
<1>1. stamp'[d].config \in Configs /\ Kept(stamp'[d].config)
  <2>1. CASE stamp'[d] = stamp[d]
    BY <2>1 DEF HInv, IInv, TypeOK, StampedRow
  <2>2. CASE stamp'[d] # stamp[d]
    <3>1. CASE stamp'[d].config \in Actual
      BY <3>1 DEF Actual, Kept
    <3>2. CASE \E w \in Workers : StoreHistory(w, d)
      <4> PICK w \in Workers : StoreHistory(w, d)
        BY <3>2
      <4>1. stamp'[d].config = seen[w].current /\ pc[w] = "storing"
        BY DEF StoreHistory, HInv, IInv, TypeOK
      <4> QED
        BY <4>1 DEF HInv, IInv, TypeOK, Seen, StoreRow
    <3> QED
      BY <2>2, <3>1, <3>2, StepStamps DEF HInv
  <2> QED
    BY <2>1, <2>2
<1> PICK c : c = stamp'[d].config
  OBVIOUS
<1>2. Kept(c)'
  BY <1>1, RowsStay DEF HInv
<1> QED
  BY <1>2 DEF Kept

\* A thread that has read for its last write has just done so, or has not moved.
LEMMA OwnStep ==
  ASSUME HInv, [Next]_vars, NEW w \in Workers, pc'[w] \in {"putting", "storing"}
  PROVE  PutRead(w) \/ ReadActual(w) \/ (pc[w] = pc'[w] /\ seen'[w] = seen[w])
<1>1. ASSUME NEW v \in Workers, Transaction(v) \/ Crash(v), v # w
      PROVE  pc'[w] = pc[w] /\ seen'[w] = seen[w]
  <2> USE <1>1 DEF HInv, IInv, TypeOK
  <2>1. CASE PutRefuse(v) \/ PutCommit(v) \/ NotReady(v) \/ CreateCommit(v) \/ Block(v)
             \/ Call(v) \/ Crash(v) \/ \E d \in Documents : StoreHistory(v, d)
    BY <2>1 DEF PutRefuse, PutCommit, NotReady, CreateCommit, Block, Call, Crash,
                StoreHistory, Leave, Goto
  <2>2. CASE PutBegin(v) \/ \E d \in Documents : CreateBegin(v, d) \/ DispatchBegin(v, d)
    BY <2>2 DEF PutBegin, CreateBegin, DispatchBegin, Goto
  <2>3. CASE PutRead(v)
    BY <2>3 DEF PutRead, Goto
  <2>4. CASE RequireReady(v) \/ ResolveStamped(v) \/ ListHistory(v) \/ ReadActual(v)
    BY <2>4 DEF RequireReady, ResolveStamped, ListHistory, ReadActual, Goto
  <2>5. CASE CheckActual(v)
    BY <2>5 DEF CheckActual, Leave, Goto
  <2> QED
    BY <2>1, <2>2, <2>3, <2>4, <2>5 DEF Transaction
<1>2. CASE Transaction(w) \/ Crash(w)
  <2> USE <1>2 DEF HInv, IInv, TypeOK
  <2>1. CASE PutRefuse(w) \/ PutCommit(w) \/ NotReady(w) \/ CreateCommit(w) \/ Block(w)
             \/ Call(w) \/ Crash(w) \/ \E d \in Documents : StoreHistory(w, d)
    BY <2>1 DEF PutRefuse, PutCommit, NotReady, CreateCommit, Block, Call, Crash,
                StoreHistory, Leave, Goto
  <2>2. CASE PutBegin(w) \/ \E d \in Documents : CreateBegin(w, d) \/ DispatchBegin(w, d)
    BY <2>2 DEF PutBegin, CreateBegin, DispatchBegin, Goto
  <2>3. CASE RequireReady(w) \/ ResolveStamped(w) \/ ListHistory(w)
    BY <2>3 DEF RequireReady, ResolveStamped, ListHistory, Goto
  <2>4. CASE CheckActual(w)
    BY <2>4 DEF CheckActual, Leave, Goto
  <2> QED
    BY <2>1, <2>2, <2>3, <2>4 DEF Transaction
<1>3. CASE UNCHANGED vars \/ \E q \in Refs : ChangeStore(q)
  BY <1>3 DEF vars, ChangeStore
<1> QED
  BY <1>1, <1>2, <1>3 DEF Next

\* A PUT that has read knows what it will write, and nobody else's step changes it.
LEMMA PutWritesNext ==
  ASSUME HInv, [Next]_vars, NEW w \in Workers
  PROVE  PutWrites(w)'
<1> SUFFICES ASSUME pc'[w] = "putting" PROVE PutWrites(w)'
  BY DEF PutWrites
<1>1. config' = config
  <2>1. ASSUME NEW v \in Workers, PutCommit(v) PROVE FALSE
    BY <2>1 DEF HInv, IInv, TypeOK, PutCommit, Leave, Goto
  <2> QED
    BY <2>1, OnlyPutsWrite
<1>2. Current' = Current
  BY <1>1, RowsKept
<1>3. CASE pc[w] = "putting" /\ seen'[w] = seen[w]
  BY <1>1, <1>2, <1>3 DEF HInv, PutWrites
<1>4. CASE PutRead(w)
  <2> DEFINE old == IF Current = None THEN NoRow ELSE config[Current]
  <2>1. PICK s \in {"CONFIGURED", "DISABLED"}, r \in Refs \cup {old.ref} :
          /\ s = "CONFIGURED" => r # None
          /\ seen' = [seen EXCEPT ![w] =
               [current |-> Current, generation |-> LastGeneration, status |-> s, ref |-> r,
                account |-> IF s = "CONFIGURED" THEN Resolve(r) ELSE old.account]]
    BY <1>4 DEF PutRead
  <2>2. /\ seen'[w].status = s /\ seen'[w].ref = r
        /\ s = "DISABLED" => seen'[w].account = old.account
    BY <2>1 DEF HInv, IInv, TypeOK
  <2> QED
    BY <1>1, <1>2, <2>1, <2>2 DEF PutWrites, NoRow
<1>5. CASE ReadActual(w)
  BY <1>5 DEF ReadActual, Goto, HInv, IInv, TypeOK
<1> QED
  BY <1>3, <1>4, <1>5, OwnStep

\* A row that a reconciliation has read stays there, whatever becomes of it.
LEMMA StoreRowNext ==
  ASSUME HInv, [Next]_vars, NEW w \in Workers
  PROVE  StoreRow(w)'
<1> SUFFICES ASSUME pc'[w] = "storing", seen'[w].current # None
             PROVE  config'[seen'[w].current].status # "ABSENT"
  BY DEF StoreRow, Kept
<1>1. seen'[w].current \in Configs /\ Kept(seen'[w].current)
  <2>1. CASE ReadActual(w)
    <3>1. seen'[w].current = Current
      BY <2>1 DEF ReadActual, HInv, IInv, TypeOK, Seen
    <3> QED
      BY <3>1, CurrentOfChain DEF HInv, IInv, Actual, Kept
  <2>2. CASE pc[w] = pc'[w] /\ seen'[w] = seen[w]
    BY <2>2 DEF HInv, IInv, TypeOK, Seen, StoreRow
  <2>3. CASE PutRead(w)
    BY <2>3 DEF PutRead, Goto, HInv, IInv, TypeOK
  <2> QED
    BY <2>1, <2>2, <2>3, OwnStep
<1> PICK c : c = seen'[w].current
  OBVIOUS
<1>2. Kept(c)'
  BY <1>1, RowsStay DEF HInv
<1> QED
  BY <1>2 DEF Kept

\* The stronger invariant holds in every reachable state.
LEMMA HInvariance == Spec => []HInv
<1>1. Init => HInv
  <2>1. Init => StampedRow /\ \A w \in Workers : PutWrites(w) /\ StoreRow(w)
    BY DEF Init, StampedRow, Unstamped, PutWrites, StoreRow
  <2> QED
    BY <2>1, InvInit DEF HInv
<1>2. HInv /\ [Next]_vars => HInv'
  BY InvNext, StampedRowNext, PutWritesNext, StoreRowNext DEF HInv
<1> QED
  BY <1>1, <1>2, PTL DEF Spec

TheRows == [g \in 1..LastGeneration |-> Written(RowOf(g))]

Listed(c) ==
  Kept(c) => /\ config[c].generation \in 1..LastGeneration
             /\ TheRows[config[c].generation] = Written(c)

ListOfRows ==
  /\ TheRows \in Seq(H!Row) /\ Len(TheRows) = LastGeneration
  /\ LastGeneration \in Nat
  /\ \A c \in Configs : Listed(c)

\* The rows are a list as long as the last generation.
LEMMA RowsAreAList == IInv => ListOfRows
<1> SUFFICES ASSUME IInv PROVE ListOfRows
  OBVIOUS
<1>1. LastGeneration \in Nat /\ Chain(LastGeneration)
  BY DEF IInv, Chain
<1>2. ASSUME NEW g \in 1..LastGeneration PROVE Written(RowOf(g)) \in H!Row
  <2>1. config[RowOf(g)] \in Rows
    BY <1>1, RowOfChain DEF IInv, TypeOK
  <2> QED
    BY <2>1 DEF Written, H!Row, Rows
<1>3. TheRows \in [1..LastGeneration -> H!Row]
  BY <1>2 DEF TheRows
<1>4. TheRows \in Seq(H!Row) /\ Len(TheRows) = LastGeneration
  <2>1. TheRows \in Seq(H!Row)
    BY <1>1, <1>3
  <2> QED
    BY <1>1, <1>3, <2>1
<1>5. \A c \in Configs : Listed(c)
  BY <1>1, RowOfChain DEF TheRows, Chain, Listed
<1> QED
  BY <1>1, <1>4, <1>5 DEF ListOfRows

\* ... also after a step.
LEMMA RowsAreAListNext == IInv' => ListOfRows'
BY RowsAreAList, PTL

\* The commit of a PUT appends its row to the list.
LEMMA PutAppends ==
  ASSUME HInv, HInv', NEW w \in Workers, PutCommit(w)
  PROVE  /\ TheRows' = Append(TheRows, [ref |-> seen[w].ref, account |-> seen[w].account])
         /\ Current' # None /\ config'[Current'].status = seen[w].status
<1> DEFINE row == [ref |-> seen[w].ref, account |-> seen[w].account]
<1> PICK n : n = LastGeneration
  OBVIOUS
<1>1. PICK c \in Configs :
        /\ ~Kept(c)
        /\ config'[c] = [generation |-> n + 1, status |-> seen[w].status,
                         ref |-> seen[w].ref, account |-> seen[w].account]
        /\ \A b \in Configs \ {c} :
             /\ config'[b].generation = config[b].generation
             /\ Written(b)' = Written(b)
             /\ Kept(b) => Kept(b)'
  BY PutCommitWrites DEF HInv
<1>2. Chain(n + 1)' /\ LastGeneration' = n + 1
  BY PutChain, LastOfChainNext DEF HInv, IInv
<1>3. Chain(n) /\ n \in Nat
  BY DEF HInv, IInv, Chain
<1>4. seen[w].status \in {"CONFIGURED", "DISABLED"} /\ row \in H!Row
  BY DEF HInv, IInv, TypeOK, Seen, Knows, PutKnows, PutCommit, H!Row
<1>5. c \in Actual' /\ Kept(c)' /\ Written(c)' = row
  BY <1>1, <1>4 DEF Actual, Kept, Written
<1>6. Current' = c
  <2>1. Actual' \subseteq {Current'}
    BY <1>2, CurrentOfChainNext
  <2> QED
    BY <1>5, <2>1
<1>0. ListOfRows /\ ListOfRows'
  BY RowsAreAList, RowsAreAListNext DEF HInv
<1>7. /\ Len(TheRows) = n /\ TheRows \in Seq(H!Row)
      /\ Len(TheRows') = n + 1 /\ TheRows' \in Seq(H!Row)
  BY <1>2, <1>0 DEF ListOfRows
<1>8. ASSUME NEW g \in 1..(n + 1) PROVE TheRows'[g] = Append(TheRows, row)[g]
  <2>1. CASE g = n + 1
    <3>1. TheRows'[n + 1] = row
      BY <1>1, <1>5, <1>0 DEF ListOfRows, Listed
    <3> QED
      BY <1>3, <1>4, <1>7, <2>1, <3>1
  <2>2. CASE g # n + 1
    <3>1. g \in 1..n
      BY <1>3, <2>2
    <3>2. RowOf(g) \in Configs /\ Kept(RowOf(g)) /\ config[RowOf(g)].generation = g
      BY <1>3, <3>1, RowOfChain
    <3>3. Kept(RowOf(g))  /\ RowOf(g) # c
      BY <1>1, <3>2
    <3> PICK b : b = RowOf(g)
      OBVIOUS
    <3>4. TheRows[g] = Written(b)
      BY <3>1 DEF TheRows
    <3>5. b \in Configs \ {c} /\ Kept(b) /\ config[b].generation = g
      BY <3>2, <3>3
    <3>6. Kept(b)' /\ Written(b)' = Written(b) /\ config'[b].generation = g
      BY <1>1, <3>5 DEF Kept, Written
    <3>7. TheRows'[g] = Written(b)
      BY <3>5, <3>6, <1>0 DEF ListOfRows, Listed
    <3> QED
      BY <1>4, <1>7, <3>1, <3>4, <3>7
  <2> QED
    BY <2>1, <2>2
<1>9. Append(TheRows, row) \in Seq(H!Row) /\ Len(Append(TheRows, row)) = n + 1
  BY <1>3, <1>4, <1>7
<1>10. TheRows' = Append(TheRows, row)
  BY <1>7, <1>8, <1>9, SeqEqual
<1> QED
  BY <1>1, <1>5, <1>6, <1>10

\* A step that leaves rows, stamps and calls alone leaves the history alone.
LEMMA HistoryStutters ==
  ASSUME UNCHANGED <<config, stamp, used>>
  PROVE  UNCHANGED H!vars
<1>1. LastGeneration' = LastGeneration /\ Current' = Current
  BY RowsKept
<1>2. TheRows' = TheRows
  BY <1>1 DEF TheRows, RowOf, Written
<1>3. \A d \in Documents : Position(d)' = Position(d)
  BY DEF Position
<1> QED
  BY <1>1, <1>2, <1>3 DEF H!vars, TheRows

\* A document that has a row is on it, one that has none is on none.
LEMMA PositionIsRow ==
  ASSUME HInv, NEW d \in Documents
  PROVE  /\ stamp[d].config = None => Position(d) = 0
         /\ stamp[d].config # None => Position(d) \in 1..LastGeneration
<1>1. CASE stamp[d].config # None
  <2>1. stamp[d].config \in Configs /\ Kept(stamp[d].config)
    BY <1>1 DEF HInv, IInv, TypeOK, StampedRow
  <2>2. Listed(stamp[d].config)
    BY <2>1, RowsAreAList DEF HInv, ListOfRows
  <2> QED
    BY <1>1, <2>1, <2>2 DEF Position, Listed
<1> QED
  BY <1>1 DEF Position

\* The commit of a PUT is a Put of the history.
LEMMA PutMapsToPut ==
  ASSUME HInv, HInv', NEW w \in Workers, PutCommit(w)
  PROVE  H!Next
<1> DEFINE row == [ref |-> seen[w].ref, account |-> seen[w].account]
<1>1. /\ TheRows' = Append(TheRows, row)
      /\ Current' # None /\ config'[Current'].status = seen[w].status
  BY PutAppends
<1>2. row \in H!Row /\ seen[w].status \in {"CONFIGURED", "DISABLED"}
  BY DEF HInv, IInv, TypeOK, Seen, Knows, PutKnows, PutCommit, H!Row
<1>3. seen[w].status = "CONFIGURED" => row.ref # None
  BY DEF HInv, PutWrites, PutCommit
<1>4. seen[w].status = "DISABLED" =>
        row.account = IF TheRows = <<>> THEN None ELSE TheRows[Len(TheRows)].account
  <2>1. ListOfRows /\ Chain(LastGeneration)
    BY RowsAreAList DEF HInv, IInv
  <2>2. CASE Current = None
    <3>1. LastGeneration = 0
      BY <2>1, <2>2, CurrentOfChain
    <3>2. TheRows = <<>>
      BY <2>1, <3>1 DEF ListOfRows
    <3> QED
      BY <2>2, <3>2 DEF HInv, PutWrites, PutCommit
  <2>3. CASE Current # None
    <3>1. Current \in Actual
      BY <2>1, <2>3, CurrentOfChain
    <3>2. Current \in Configs /\ Kept(Current) /\ config[Current].generation = LastGeneration
      BY <2>1, <3>1 DEF Chain, Actual
    <3>3. /\ LastGeneration \in 1..LastGeneration
          /\ TheRows[LastGeneration].account = config[Current].account
      <4>1. Listed(Current)
        BY <2>1, <3>2 DEF ListOfRows
      <4>2. TheRows[LastGeneration] = Written(Current) /\ LastGeneration \in 1..LastGeneration
        BY <3>2, <4>1 DEF Listed
      <4> QED
        BY <4>2 DEF Written
    <3>4. TheRows # <<>> /\ Len(TheRows) = LastGeneration
      BY <2>1, <3>3 DEF ListOfRows
    <3> QED
      BY <2>3, <3>3, <3>4 DEF HInv, PutWrites, PutCommit
  <2> QED
    BY <2>2, <2>3
<1>5. \A d \in Documents : Position(d)' = Position(d)
  <2>1. TAKE d \in Documents
  <2>2. stamp' = stamp
    BY DEF PutCommit
  <2>3. CASE stamp[d].config = None
    BY <2>2, <2>3 DEF Position
  <2>4. CASE stamp[d].config # None
    <3>1. stamp[d].config \in Configs /\ Kept(stamp[d].config)
      BY <2>4 DEF HInv, IInv, TypeOK, StampedRow
    <3>2. [Next]_vars
      BY DEF Next, Transaction
    <3> QED
      BY <2>2, <2>4, <3>1, <3>2, RowsStay DEF Position, HInv
  <2> QED
    BY <2>3, <2>4
<1>6. used' = used /\ stamp' = stamp
  BY DEF PutCommit
<1>7. H!Put(row, seen[w].status)
  BY <1>1, <1>2, <1>3, <1>4, <1>5, <1>6 DEF H!Put, H!LastAccount, TheRows
<1> QED
  BY <1>2, <1>7 DEF H!Next

\* The insert of a new document is a Stamp of the history.
LEMMA CreateMapsToStamp ==
  ASSUME HInv, NEW w \in Workers, CreateCommit(w)
  PROVE  [H!Next]_(H!vars)
<1> PICK d : d = job[w]
  OBVIOUS
<1>1. d \in Documents /\ UNCHANGED <<config, used>>
  BY DEF HInv, IInv, Knows, HasJob, CreateCommit
<1>2. CASE stamp[d] # Unstamped
  <2>1. stamp' = stamp
    BY <1>1, <1>2 DEF CreateCommit, HInv, IInv, TypeOK
  <2> QED
    BY <1>1, <2>1, HistoryStutters
<1>3. CASE stamp[d] = Unstamped
  <2>1. /\ seen[w].current \in Actual
        /\ config[seen[w].current].status = "CONFIGURED"
    BY DEF HInv, IInv, Knows, CreateKnows, CreateCommit
  <2>2. Current = seen[w].current /\ Current # None /\ Chain(LastGeneration)
    BY <2>1, CurrentOfChain DEF HInv, IInv, Actual
  <2>3. config[Current].generation = LastGeneration /\ Current \in Configs
    BY <2>1, <2>2 DEF Chain, Actual
  <2>4. /\ stamp'[d] = [config |-> Current, account |-> seen[w].account]
        /\ \A e \in Documents \ {d} : stamp'[e] = stamp[e]
    BY <1>1, <1>3, <2>2 DEF CreateCommit, HInv, IInv, TypeOK
  <2>5. LastGeneration' = LastGeneration /\ Current' = Current
    BY <1>1, RowsKept
  <2>6. TheRows' = TheRows /\ Len(TheRows) = LastGeneration
    BY <1>1, <2>5, RowsAreAList DEF TheRows, RowOf, Written, ListOfRows, HInv
  <2>12. /\ seen[w].account = H!LastAccount
         /\ [e \in Documents |-> stamp[e].account]' =
              [[e \in Documents |-> stamp[e].account] EXCEPT ![d] = H!LastAccount]
    <3>5. Kept(Current)
      BY <2>1, <2>2 DEF Actual, Kept
    <3>1. Listed(Current) /\ Kept(Current) /\ ListOfRows
      BY <2>3, <3>5, RowsAreAList DEF ListOfRows, HInv
    <3>2. /\ TheRows[LastGeneration].account = config[Current].account
          /\ TheRows # <<>> /\ Len(TheRows) = LastGeneration
      BY <2>3, <3>1 DEF Listed, Written, ListOfRows
    <3>3. seen[w].account = config[Current].account
      BY <2>2 DEF HInv, IInv, Knows, CreateKnows, CreateCommit
    <3>4. seen[w].account = H!LastAccount
      BY <3>2, <3>3 DEF H!LastAccount, TheRows
    <3>6. \A e \in Documents :
            stamp'[e].account = IF e = d THEN H!LastAccount ELSE stamp[e].account
      BY <2>4, <3>4
    <3> HIDE DEF H!LastAccount
    <3> QED
      BY <1>1, <3>4, <3>6
  <2>7. Position(d)' = Len(TheRows)
    BY <1>1, <2>2, <2>3, <2>4, <2>6 DEF Position, Unstamped
  <2>8. \A e \in Documents \ {d} : Position(e)' = Position(e)
    BY <1>1, <2>4 DEF Position
  <2>9. Position(d) = 0 /\ stamp[d].account = None
    BY <1>3 DEF Position, Unstamped
  <2>10. [e \in Documents |-> Position(e)]' =
           [[e \in Documents |-> Position(e)] EXCEPT ![d] = Len(TheRows)]
    BY <1>1, <2>7, <2>8
  <2>11. H!Stamp(d)
    BY <1>1, <2>1, <2>2, <2>5, <2>6, <2>9, <2>10, <2>12 DEF H!Stamp, TheRows
  <2> QED
    BY <1>1, <2>11 DEF H!Next
<1> QED
  BY <1>2, <1>3

\* The insert of a copy is a File of the history.
LEMMA StoreMapsToFile ==
  ASSUME HInv, NEW w \in Workers, NEW d \in Documents, StoreHistory(w, d)
  PROVE  H!Next
<1> PICK p : p = Position(d)'
  OBVIOUS
<1> PICK a : a = seen[w].account
  OBVIOUS
<1>1. /\ stamp[d] = Unstamped /\ a \in Accounts /\ UNCHANGED <<config, used>>
      /\ stamp'[d] = [config |-> seen[w].current, account |-> a]
      /\ \A e \in Documents \ {d} : stamp'[e] = stamp[e]
  BY DEF StoreHistory, HInv, IInv, TypeOK, Seen, Knows, StoreKnows
<1>2. LastGeneration' = LastGeneration /\ Current' = Current
  BY <1>1, RowsKept
<1>3. TheRows' = TheRows /\ Len(TheRows) = LastGeneration
  BY <1>1, <1>2, RowsAreAList DEF TheRows, RowOf, Written, ListOfRows, HInv
<1>4. p \in 0..Len(TheRows)
  <2>1. CASE seen[w].current = None
    <3>1. p = 0
      BY <1>1, <2>1 DEF Position
    <3> QED
      BY <1>3, <3>1, RowsAreAList DEF ListOfRows, HInv
  <2>2. CASE seen[w].current # None
    <3> PICK c : c = seen[w].current
      OBVIOUS
    <3>1. c \in Configs /\ Kept(c)
      BY <2>2 DEF StoreHistory, HInv, StoreRow, IInv, TypeOK, Seen
    <3>2. Listed(c) /\ LastGeneration \in Nat
      BY <3>1, RowsAreAList DEF HInv, ListOfRows
    <3>3. p = config[c].generation
      BY <1>1, <2>2 DEF Position
    <3> QED
      BY <1>3, <3>1, <3>2, <3>3 DEF Listed
  <2> QED
    BY <2>1, <2>2
<1>5. \A e \in Documents \ {d} : Position(e)' = Position(e)
  BY <1>1 DEF Position
<1>6. Position(d) = 0 /\ stamp[d].account = None
  BY <1>1 DEF Position, Unstamped
<1>7. /\ [e \in Documents |-> Position(e)]' = [[e \in Documents |-> Position(e)] EXCEPT ![d] = p]
      /\ [e \in Documents |-> stamp[e].account]' =
           [[e \in Documents |-> stamp[e].account] EXCEPT ![d] = a]
  <2>1. \A e \in Documents : Position(e)' = IF e = d THEN p ELSE Position(e)
    BY <1>5
  <2>2. \A e \in Documents : stamp'[e].account = IF e = d THEN a ELSE stamp[e].account
    BY <1>1
  <2>3. [e \in Documents |-> Position(e)]' = [[e \in Documents |-> Position(e)] EXCEPT ![d] = p]
    BY <2>1
  <2> QED
    BY <2>2, <2>3
<1>8. H!File(d, p, a)
  BY <1>1, <1>2, <1>3, <1>6, <1>7 DEF H!File, TheRows
<1> QED
  BY <1>1, <1>4, <1>8 DEF H!Next, TheRows

\* A call is a Call of the history.
LEMMA CallMapsToCall ==
  ASSUME HInv, NEW w \in Workers, Call(w)
  PROVE  H!Next
<1> PICK d : d = job[w]
  OBVIOUS
<1> PICK a : a = seen[w].account
  OBVIOUS
<1>1. /\ d \in Documents /\ stamp[d].config # None
      /\ a \in Accounts /\ stamp[d].account \in {None, a}
  BY DEF HInv, IInv, Call, Knows, HasJob, CallKnows, TypeOK, Seen
<1>2. Position(d) # 0
  <2>1. LastGeneration \in Nat
    BY DEF HInv, IInv, Chain
  <2> QED
    BY <1>1, <2>1, PositionIsRow
<1>3. used' = [used EXCEPT ![d] = @ \cup {a}] /\ UNCHANGED <<config, stamp>>
  BY DEF Call
<1>4. LastGeneration' = LastGeneration /\ Current' = Current
  BY <1>3, RowsKept
<1>5. TheRows' = TheRows /\ \A e \in Documents : Position(e)' = Position(e)
  BY <1>3, <1>4 DEF TheRows, RowOf, Written, Position
<1>6. H!Call(d, a)
  BY <1>1, <1>2, <1>3, <1>4, <1>5 DEF H!Call, TheRows
<1> QED
  BY <1>1, <1>6 DEF H!Next

\* Every step is a step of the history or leaves it alone.
LEMMA HistoryStep ==
  ASSUME HInv, HInv', [Next]_vars
  PROVE  [H!Next]_(H!vars)
<1> DEFINE Writes(w) == \/ PutCommit(w) \/ CreateCommit(w) \/ Call(w)
                        \/ \E d \in Documents : StoreHistory(w, d)
<1>1. CASE \E w \in Workers : Writes(w)
  BY <1>1, PutMapsToPut, CreateMapsToStamp, CallMapsToCall, StoreMapsToFile
<1>2. CASE ~\E w \in Workers : Writes(w)
  <2>1. UNCHANGED <<config, stamp, used>>
    BY <1>2 DEF Next, vars, Transaction, Crash, ChangeStore, PutBegin, PutRead, PutRefuse,
                CreateBegin, RequireReady, NotReady, ListHistory, ReadActual, DispatchBegin,
                CheckActual, ResolveStamped, Block
  <2> QED
    BY <2>1, HistoryStutters
<1> QED
  BY <1>1, <1>2

\* Whatever requests race, die or are refused, and whatever the operator does to the
\* credential store: the rows are a list that only grows, put_outbound_provider appends to
\* it at once, create_outbound puts a document on its end once, with its account, a
\* reconciliation files a copy with the account it listed, and process_attempt calls with
\* the account a document was given.
THEOREM ProviderImplementsHistory == Spec => ImplementsHistory
<1>1. Init => H!Init
  <2>1. SUFFICES ASSUME Init PROVE H!Init
    OBVIOUS
  <2>2. IInv /\ ListOfRows
    BY <2>1, InvInit, RowsAreAList
  <2>3. Chain(0) /\ Actual = {}
    BY <2>1 DEF Init, Chain, Kept, NoRow, Actual
  <2>4. LastGeneration = 0 /\ Current = None
    BY <2>2, <2>3, LastOfChain DEF IInv, Current
  <2>5. TheRows = <<>>
    BY <2>2, <2>4 DEF ListOfRows
  <2>6. \A d \in Documents : Position(d) = 0
    BY <2>1 DEF Init, Position, Unstamped
  <2>7. /\ used = [d \in Documents |-> {}]
        /\ [d \in Documents |-> stamp[d].account] = [d \in Documents |-> None]
    BY <2>1 DEF Init, Unstamped
  <2> QED
    BY <2>4, <2>5, <2>6, <2>7 DEF H!Init, TheRows
<1>2. HInv /\ HInv' /\ [Next]_vars => [H!Next]_(H!vars)
  BY HistoryStep
<1> QED
  BY <1>1, <1>2, HInvariance, PTL DEF Spec, ImplementsHistory, H!Spec
=============================================================================
