----------------------------- MODULE FeedProofs -----------------------------
(***************************************************************************)
(* Proofs about Feed, for any writers, documents, page size and any number *)
(* of transactions and failures.                                           *)
(*                                                                         *)
(* The argument for the readers: while a document of a request waits for   *)
(* its commit, its transaction holds the taxpayer's lock, so only runs     *)
(* commit later numbers (Guarded).  For the events: whoever changed a row  *)
(* keeps others from changing it (ChangedHeld), and behind the number of   *)
(* an event lie those its transaction has read or given (Numbered).        *)
(*                                                                         *)
(* The library has no fact about the maximum of a set that the provers can *)
(* use: the first section derives it from the well-foundedness of strict   *)
(* inclusion on the subsets of a finite set.                               *)
(***************************************************************************)
EXTENDS Feed, FiniteSetTheorems, TLAPS

----
(* Maxima of finite sets of naturals.                                      *)

\* A member of T that includes no other.
HasMinimal(T) == \E x \in T : \A y \in T : y \subseteq x => y = x

\* Of finite sets, one includes no other strictly.
LEMMA MinimalSet ==
  ASSUME NEW S, IsFiniteSet(S), NEW T, T \subseteq SUBSET S, T # {}
  PROVE  HasMinimal(T)
<1>1. T \subseteq FiniteSubsetsOf(S)
  BY FS_Subset DEF FiniteSubsetsOf
<1>2. PICK x \in T : \A y \in T : ~ (<<y, x>> \in StrictSubsetOrdering(S))
  BY <1>1, FS_StrictSubsetOrderingWellFounded, WFMin
<1> QED
  BY <1>1, <1>2 DEF StrictSubsetOrdering, HasMinimal

\* A finite set of naturals that is not empty has a greatest element: the one with
\* the fewest elements above it.
LEMMA GreatestNatural ==
  ASSUME NEW S, S \subseteq Nat, IsFiniteSet(S), S # {}
  PROVE  \E m \in S : \A n \in S : m >= n
<1> DEFINE Above(x) == {y \in S : y > x}
           T == {Above(x) : x \in S}
<1>1. T \subseteq SUBSET S /\ T # {}
  OBVIOUS
<1> HIDE DEF T, Above
<1>2. HasMinimal(T)
  BY <1>1, MinimalSet
<1>  PICK z \in T : \A y \in T : y \subseteq z => y = z
  BY <1>2 DEF HasMinimal
<1>3. PICK m \in S : z = Above(m)
  BY DEF T
<1>4. ASSUME NEW n \in S, ~ (m >= n)
      PROVE  FALSE
  <2>1. n \in Nat /\ m \in Nat /\ n > m
    BY <1>4
  <2>2. \A y \in S : y > n => y > m
    BY <2>1
  <2>3. Above(n) \subseteq Above(m)
    BY <2>2, Zenon DEF Above
  <2>4. n \in Above(m)
    BY <2>1 DEF Above
  <2>5. n \notin Above(n)
    <3>1. ~ (n > n)
      BY <2>1
    <3> QED
      BY <3>1, Zenon DEF Above
  <2>6. Above(n) \in T
    BY DEF T
  <2> QED
    BY <1>2, <1>3, <2>3, <2>4, <2>5, <2>6
<1> QED
  BY <1>4

\* What Max returns of such a set.
LEMMA MaxIs ==
  ASSUME NEW S, S \subseteq Nat, IsFiniteSet(S), S # {}
  PROVE  Max(S) \in S /\ \A n \in S : Max(S) >= n
BY GreatestNatural DEF Max

\* The values that a function into the naturals takes on a finite set are finite.
LEMMA FiniteValues ==
  ASSUME NEW S, IsFiniteSet(S), NEW f \in [S -> Nat]
  PROVE  IsFiniteSet({f[x] : x \in S})
<1> DEFINE T == {f[x] : x \in S}
<1>1. f \in Surjection(S, T)
  BY DEF Surjection
<1> QED
  BY <1>1, FS_Surjection

----
(* The inductive invariant.                                                *)

\* A document has a number of its own once it has one.
Distinct ==
  \A d, e \in Documents : sequence[d] = sequence[e] /\ sequence[d] > 0 => d = e

\* Only a committed row can be waited for.
LockedIsStored == \A d \in Documents : rowLock[d] # None => d \in documents

\* What a transaction has inserted has its number, is not committed, and is no other's.
Inserted(w) ==
  \A d \in tx[w].inserted :
    /\ sequence[d] > 0 /\ d \notin documents
    /\ \A v \in Writers \ {w} : d \notin tx[v].inserted

\* A transaction that changed a row keeps others from changing it until it ends.
Holds(w, d) == rowLock[d] = w \/ d \in tx[w].inserted

ChangedHeld(w) ==
  /\ tx[w].at = "written" => tx[w].doc \in Documents
  /\ tx[w].at = "written" /\ tx[w].change => Holds(w, tx[w].doc)
  /\ \A e \in tx[w].recorded : e.changed => Holds(w, e.doc)

\* Behind the numbers of its own events lie those it has read or given.
Numbered(w) ==
  /\ IsFiniteSet(tx[w].recorded)
  /\ \A e \in tx[w].recorded : \A n \in 1..(e.number - 1) :
       \E f \in events \cup tx[w].recorded : f.doc = e.doc /\ f.number = n

\* While a request's document waits for its commit, only runs commit later numbers.
Guarded(w) ==
  \A d \in tx[w].inserted \ byRun :
    /\ oibLock = w
    /\ \A e \in documents : sequence[e] > sequence[d] => e \in byRun

Sound(w) ==
  /\ tx[w].at = "idle" => tx[w] = Idle
  /\ Inserted(w) /\ ChangedHeld(w) /\ Numbered(w) /\ Guarded(w)

\* The cursor is a listed document's; during a pass it parts what the pass has shown
\* from what it has still to show.
Follows ==
  /\ reader.began \subseteq documents
  /\ reader.at = "idle" => reader.cursor = 0 /\ reader.shown = {}
  /\ reader.cursor = 0 \/ \E e \in reader.shown : sequence[e] = reader.cursor
  /\ reader.at = "pass" =>
       /\ \A d \in reader.began : d \in reader.shown \/ sequence[d] > reader.cursor
       /\ \A d \in reader.shown : sequence[d] <= reader.cursor

IInv ==
  /\ TypeOK /\ Distinct /\ LockedIsStored /\ IsFiniteSet(events)
  /\ \A w \in Writers : Sound(w)
  /\ Follows
  /\ EventsInOrder /\ NoGaps /\ PassComplete /\ NothingBehindCursor

USE FeedAssumption DEF FeedAssumption

----
(* What the module takes maxima for.                                       *)

\* The next number of the identity column is above all that were drawn.
LEMMA DrawIs ==
  ASSUME TypeOK, NEW d \in Documents, Draw(d)
  PROVE  /\ sequence' \in [Documents -> Nat]
         /\ \A e \in Documents : e # d => sequence'[e] = sequence[e]
         /\ \A e \in Documents : sequence'[d] > sequence[e]
         /\ sequence[d] = 0
<1> DEFINE S == {sequence[e] : e \in Documents}
<1>1. sequence \in [Documents -> Nat]
  BY DEF TypeOK
<1>2. S \subseteq Nat /\ S # {} /\ IsFiniteSet(S)
  BY <1>1, FiniteValues
<1>3. \A e \in Documents : sequence[e] \in S
  OBVIOUS
<1>4. sequence[d] = 0 /\ sequence' = [sequence EXCEPT ![d] = 1 + Max(S)]
  BY DEF Draw
<1> HIDE DEF S
<1>5. Max(S) \in Nat /\ \A n \in S : Max(S) >= n
  BY <1>2, MaxIs
<1>6. sequence'[d] = 1 + Max(S)
  BY <1>1, <1>4
<1>7. \A e \in Documents : sequence'[d] > sequence[e]
  BY <1>1, <1>3, <1>5, <1>6
<1> QED
  BY <1>1, <1>4, <1>5, <1>7

\* The last number of a document, of those that a transaction reads: it is one of them,
\* if there are any, and none is larger.
LEMMA LastIs ==
  ASSUME TypeOK, IsFiniteSet(events), NEW w \in Writers, Sound(w), NEW d
  PROVE  /\ LastNumber(w, d) \in Nat
         /\ LastNumber(w, d) # 0 => \E f \in events \cup tx[w].recorded :
              f.doc = d /\ f.number = LastNumber(w, d)
         /\ \A f \in events \cup tx[w].recorded : f.doc = d => LastNumber(w, d) >= f.number
<1> DEFINE E == {f \in events \cup tx[w].recorded : f.doc = d}
           g == [f \in E |-> f.number]
           N == {g[f] : f \in E}
           S == {f.number : f \in E}
<1>1. tx[w].recorded \subseteq Events /\ events \subseteq Events
  BY DEF TypeOK, Transactions
<1>2. \A f \in E : f.number \in Nat
  BY <1>1 DEF Events
<1>3. IsFiniteSet(E)
  <2>1. IsFiniteSet(events \cup tx[w].recorded)
    BY FS_Union DEF Sound, Numbered
  <2> QED
    BY <2>1, FS_Subset
<1>4. IsFiniteSet(N)
  <2>1. g \in [E -> Nat]
    BY <1>2
  <2> HIDE DEF E, g
  <2> QED
    BY <1>3, <2>1, FiniteValues
<1>5. N = S
  OBVIOUS
<1>6. IsFiniteSet({0} \cup S)
  <2> HIDE DEF S, N
  <2>1. IsFiniteSet(S \cup {0})
    BY <1>4, <1>5, FS_AddElement
  <2>2. {0} \cup S = S \cup {0}
    OBVIOUS
  <2> QED
    BY <2>1, <2>2
<1>7. {0} \cup S \subseteq Nat
  BY <1>2
<1>8. LastNumber(w, d) = Max({0} \cup S)
  BY DEF LastNumber
<1>9. /\ Max({0} \cup S) \in {0} \cup S
      /\ \A n \in {0} \cup S : Max({0} \cup S) >= n
  <2> HIDE DEF S
  <2> QED
    BY <1>6, <1>7, MaxIs
<1>10. LastNumber(w, d) \in {0} \cup S /\ \A n \in S : LastNumber(w, d) >= n
  BY <1>8, <1>9
<1>11. ASSUME NEW f \in events \cup tx[w].recorded, f.doc = d
       PROVE  LastNumber(w, d) >= f.number
  BY <1>10, <1>11
<1>12. ASSUME LastNumber(w, d) # 0
       PROVE  \E f \in events \cup tx[w].recorded : f.doc = d /\ f.number = LastNumber(w, d)
  <2>1. LastNumber(w, d) \in S
    BY <1>10, <1>12
  <2> QED
    BY <2>1
<1> QED
  BY <1>7, <1>10, <1>11, <1>12

\* The rows of a listing are documents, and finitely many.
LEMMA RowsAre ==
  ASSUME TypeOK
  PROVE  /\ Rows \subseteq documents \cap Outbound /\ IsFiniteSet(Rows)
         /\ Cardinality(Rows) \in Nat
         /\ \A d \in Rows : sequence[d] \in Nat /\ sequence[d] > reader.cursor
<1>1. Rows \in SUBSET Documents
  BY DEF TypeOK, Rows
<1>2. IsFiniteSet(Rows) /\ Cardinality(Rows) \in Nat
  BY <1>1, FS_Subset, FS_CardinalityType
<1> QED
  BY <1>1, <1>2 DEF TypeOK, Rows

\* The rows before one.
Before(d) == {e \in Rows : sequence[e] < sequence[d]}

\* What the page holds: with a row those before it; all rows if they fit; and its cursor
\* is the largest of its numbers.
LEMMA FirstIs ==
  ASSUME TypeOK
  PROVE  /\ First(Limit) \subseteq Rows
         /\ \A d \in First(Limit) : Before(d) \subseteq First(Limit)
         /\ ~ (Cardinality(Rows) > Limit) => First(Limit) = Rows
         /\ Cardinality(Rows) > Limit => \E d \in First(Limit) : sequence[d] = NextCursor
         /\ \A d \in First(Limit) : sequence[d] <= NextCursor
<1> DEFINE P == First(Limit)
<1>0. sequence \in [Documents -> Nat] /\ Rows \subseteq Documents /\ IsFiniteSet(Rows)
  BY RowsAre DEF TypeOK, Rows
<1>1. \A d : IsFiniteSet(Before(d)) /\ Cardinality(Before(d)) \in Nat
  <2> TAKE d
  <2>1. Before(d) \in SUBSET Rows
    BY DEF Before
  <2> QED
    BY <1>0, <2>1, FS_Subset, FS_CardinalityType
<1>2. P = {d \in Rows : Cardinality(Before(d)) < Limit}
  BY DEF First, Before
<1>3. ASSUME NEW d \in P, NEW e \in Before(d)
      PROVE  e \in P
  <2>1. e \in Rows /\ d \in Rows /\ sequence[e] < sequence[d]
    BY <1>2, <1>3 DEF Before
  <2>2. Before(e) \in SUBSET Before(d)
    BY <1>0, <2>1 DEF Before
  <2>3. Cardinality(Before(e)) <= Cardinality(Before(d))
    BY <1>1, <2>2, FS_Subset
  <2>4. Cardinality(Before(d)) < Limit
    BY <1>2
  <2> QED
    BY <1>1, <1>2, <2>1, <2>3, <2>4
<1>4. ASSUME ~ (Cardinality(Rows) > Limit), NEW d \in Rows
      PROVE  d \in P
  <2>1. Cardinality(Rows \ {d}) = Cardinality(Rows) - 1
    BY <1>0, FS_RemoveElement
  <2>2. IsFiniteSet(Rows \ {d})
    BY <1>0, FS_RemoveElement
  <2>3. Before(d) \in SUBSET (Rows \ {d})
    BY <1>0 DEF Before
  <2>4. Cardinality(Before(d)) <= Cardinality(Rows \ {d})
    BY <2>2, <2>3, FS_Subset
  <2>5. Cardinality(Rows) \in Nat
    BY RowsAre
  <2>6. Cardinality(Before(d)) < Limit
    BY <1>1, <1>4, <2>1, <2>4, <2>5
  <2> QED
    BY <1>2, <2>6
<1>5. ASSUME Rows # {}
      PROVE  P # {}
  <2> DEFINE T == {Before(d) : d \in Rows}
  <2>1. T \subseteq SUBSET Rows /\ T # {}
    BY <1>5 DEF Before
  <2> HIDE DEF T
  <2>2. HasMinimal(T)
    BY <1>0, <2>1, MinimalSet
  <2> PICK z \in T : \A y \in T : y \subseteq z => y = z
    BY <2>2 DEF HasMinimal
  <2>3. PICK d \in Rows : z = Before(d)
    BY DEF T
  <2>4. ASSUME NEW e \in Before(d)
        PROVE  FALSE
    <3>1. e \in Rows /\ sequence[e] < sequence[d]
      BY DEF Before
    <3>2. Before(e) \subseteq Before(d) /\ e \notin Before(e)
      BY <1>0, <3>1 DEF Before
    <3>3. Before(e) \in T
      BY <3>1 DEF T
    <3> QED
      BY <2>3, <3>2, <3>3
  <2>5. Cardinality(Before(d)) = 0
    BY <2>4, FS_EmptySet
  <2> QED
    BY <1>2, <2>5
<1>6. ASSUME P # {}
      PROVE  (\E d \in P : sequence[d] = NextCursor) /\ \A d \in P : sequence[d] <= NextCursor
  <2> DEFINE f == [d \in P |-> sequence[d]]
             N == {f[d] : d \in P}
             S == {sequence[d] : d \in P}
  <2>1. P \in SUBSET Rows
    BY <1>2
  <2>2. IsFiniteSet(P) /\ f \in [P -> Nat]
    BY <1>0, <2>1, FS_Subset
  <2>3. IsFiniteSet(N)
    <3> HIDE DEF f, P
    <3> QED
      BY <2>2, FiniteValues
  <2>4. N = S
    OBVIOUS
  <2>5. S \subseteq Nat /\ S # {}
    BY <1>0, <1>6, <2>1
  <2>6. Max(S) \in S /\ \A n \in S : Max(S) >= n
    <3> HIDE DEF S, N
    <3> QED
      BY <2>3, <2>4, <2>5, MaxIs
  <2>7. NextCursor = Max(S)
    BY DEF NextCursor
  <2>8. \A d \in P : sequence[d] \in S
    OBVIOUS
  <2> QED
    BY <1>0, <2>5, <2>6, <2>7, <2>8
<1>7. Cardinality(Rows) > Limit => Rows # {}
  BY FS_EmptySet
<1> QED
  BY <1>2, <1>3, <1>4, <1>5, <1>6, <1>7

----
(* The initial state.                                                      *)

\* The initial state satisfies the inductive invariant.
LEMMA InitIInv == Init => IInv
<1> SUFFICES ASSUME Init PROVE IInv
  OBVIOUS
<1> USE DEF Init
<1>1. Idle \in Transactions
  BY DEF Idle, Transactions
<1>2. reader \in Readers
  BY DEF Readers
<1>3. TypeOK
  BY <1>1, <1>2 DEF TypeOK, Idle
<1>4. Distinct /\ LockedIsStored /\ IsFiniteSet(events)
  BY FS_EmptySet DEF Distinct, LockedIsStored
<1>5. ASSUME NEW w \in Writers
      PROVE  Sound(w)
  BY FS_EmptySet DEF Sound, Inserted, ChangedHeld, Numbered, Guarded, Idle
<1>6. Follows /\ EventsInOrder /\ NoGaps /\ PassComplete /\ NothingBehindCursor
  BY DEF Follows, EventsInOrder, NoGaps, PassComplete, NothingBehindCursor
<1> QED
  BY <1>3, <1>4, <1>5, <1>6 DEF IInv

----
(* The steps of a writer before its transaction ends.                      *)

\* A step replaces what a writer's transaction is at.
Goes(w, t) == tx' = [tx EXCEPT ![w] = t]

\* What such a step leaves of the others.
LEMMA GoesAt ==
  ASSUME TypeOK, NEW w \in Writers, NEW t \in Transactions, Goes(w, t)
  PROVE  /\ tx' \in [Writers -> Transactions]
         /\ tx'[w] = t
         /\ \A v \in Writers \ {w} : tx'[v] = tx[v]
BY DEF TypeOK, Goes

\* A transaction inserts a document: under the taxpayer's lock, or as a run.
LEMMA InsertKeeps ==
  ASSUME IInv, NEW w \in Writers, NEW d \in Documents, Draw(d),
         NEW t \in Transactions, Goes(w, t),
         t.at # "idle", t.at = "written" => t.doc = d,
         t.inserted = tx[w].inserted \cup {d}, t.recorded = tx[w].recorded,
         UNCHANGED <<documents, events, rowLock, reader, rollbacks>>,
         byRun \subseteq byRun', byRun' \subseteq Documents,
         d \in byRun' \/ oibLock' = w,
         oibLock' = oibLock \/ (oibLock = None /\ oibLock' = w),
         begun' \in 0..MaxTransactions
  PROVE  IInv'
<1>0. TypeOK
  BY DEF IInv
<1>1. /\ tx' \in [Writers -> Transactions]
      /\ tx'[w] = t
      /\ \A v \in Writers \ {w} : tx'[v] = tx[v]
  BY <1>0, GoesAt
<1>2. /\ sequence' \in [Documents -> Nat]
      /\ \A e \in Documents : e # d => sequence'[e] = sequence[e]
      /\ \A e \in Documents : sequence'[d] > sequence[e]
      /\ sequence[d] = 0
  BY <1>0, DrawIs
<1>3. /\ sequence \in [Documents -> Nat] /\ documents \subseteq Documents
      /\ \A e \in documents : sequence[e] > 0 /\ sequence'[e] = sequence[e]
      /\ d \notin documents /\ sequence'[d] > 0
  BY <1>0, <1>2 DEF TypeOK
<1>4. TypeOK'
  <2>1. \A v \in Writers : tx'[v].at = "idle" =>
          oibLock' # v /\ \A e \in Documents : rowLock'[e] # v
    BY <1>0, <1>1 DEF TypeOK
  <2>2. oibLock' \in Writers \cup {None}
    BY <1>0 DEF TypeOK
  <2>3. documents' \subseteq {e \in Documents : sequence'[e] > 0}
    BY <1>3
  <2> QED
    BY <1>0, <1>1, <1>2, <2>1, <2>2, <2>3 DEF TypeOK
<1>5. Distinct'
  <2> SUFFICES ASSUME NEW a \in Documents, NEW b \in Documents,
                      sequence'[a] = sequence'[b], sequence'[a] > 0
               PROVE  a = b
    BY DEF Distinct
  <2>1. CASE a = d \/ b = d
    <3>1. \A e \in Documents : e # d => sequence'[d] # sequence'[e]
      BY <1>2, <1>3
    <3> QED
      BY <2>1, <3>1
  <2>2. CASE a # d /\ b # d
    BY <1>2, <2>2 DEF IInv, Distinct
  <2> QED
    BY <2>1, <2>2
<1>6. LockedIsStored' /\ IsFiniteSet(events')
  BY DEF IInv, LockedIsStored
<1>7. ASSUME NEW v \in Writers
      PROVE  Sound(v)'
  <2>0. Sound(v) /\ tx[v] \in Transactions
    BY <1>0 DEF IInv, TypeOK
  <2>1. tx[v].inserted \subseteq Documents /\ \A e \in tx[v].inserted : sequence[e] > 0 /\ e # d
    BY <1>2, <2>0 DEF Sound, Inserted, Transactions
  <2>2. tx'[v].inserted = IF v = w THEN tx[v].inserted \cup {d} ELSE tx[v].inserted
    BY <1>1
  <2>3. (tx'[v].at = "idle" => tx'[v] = Idle)
    BY <1>1, <2>0 DEF Sound
  <2>4. Inserted(v)'
    <3> SUFFICES ASSUME NEW e \in tx'[v].inserted
                 PROVE  /\ sequence'[e] > 0 /\ e \notin documents
                        /\ \A u \in Writers \ {v} : e \notin tx'[u].inserted
      BY DEF Inserted
    <3>1. \A u \in Writers : d \notin tx[u].inserted
      BY <1>2 DEF IInv, Sound, Inserted
    <3>2. CASE e = d
      <4>1. v = w
        BY <1>1, <3>1, <3>2
      <4> QED
        BY <1>1, <1>3, <3>1, <3>2, <4>1
    <3>3. CASE e # d
      <4>1. e \in tx[v].inserted
        BY <2>2, <3>3
      <4>2. sequence'[e] > 0 /\ e \notin documents
        BY <1>2, <2>0, <2>1, <3>3, <4>1 DEF Sound, Inserted
      <4>3. \A u \in Writers \ {v} : e \notin tx[u].inserted
        BY <2>0, <4>1 DEF Sound, Inserted
      <4> QED
        BY <1>1, <3>3, <4>2, <4>3
    <3> QED
      BY <3>2, <3>3
  <2>5. ChangedHeld(v)'
    BY <1>1, <2>0, <2>2 DEF Sound, ChangedHeld, Holds
  <2>6. Numbered(v)'
    BY <1>1, <2>0 DEF Sound, Numbered
  <2>7. Guarded(v)'
    <3> SUFFICES ASSUME NEW e \in tx'[v].inserted \ byRun'
                 PROVE  /\ oibLock' = v
                        /\ \A f \in documents : sequence'[f] > sequence'[e] => f \in byRun'
      BY DEF Guarded
    <3>1. CASE e = d
      <4>1. v = w
        BY <1>1, <2>1, <3>1
      <4>2. \A f \in documents : ~ (sequence'[f] > sequence'[d])
        BY <1>2, <1>3
      <4> QED
        BY <3>1, <4>1, <4>2
    <3>2. CASE e # d
      <4>1. e \in tx[v].inserted \ byRun /\ e \in Documents
        BY <2>1, <2>2, <3>2
      <4>2. oibLock = v /\ \A f \in documents : sequence[f] > sequence[e] => f \in byRun
        BY <2>0, <4>1 DEF Sound, Guarded
      <4>3. oibLock' = v
        BY <4>2
      <4> QED
        BY <1>2, <1>3, <3>2, <4>1, <4>2, <4>3
    <3> QED
      BY <3>1, <3>2
  <2> QED
    BY <2>3, <2>4, <2>5, <2>6, <2>7 DEF Sound
<1>8. Follows'
  <2>1. reader.shown \subseteq documents /\ reader.began \subseteq documents
    BY <1>0 DEF TypeOK, IInv, Follows
  <2> QED
    BY <1>3, <2>1 DEF IInv, Follows
<1>9. EventsInOrder'
  <2>1. \A v \in Writers : tx'[v].recorded = tx[v].recorded
    BY <1>1
  <2> QED
    BY <2>1 DEF IInv, EventsInOrder
<1>10. NoGaps' /\ PassComplete'
  BY DEF IInv, NoGaps, PassComplete
<1>11. NothingBehindCursor'
  <2>1. reader.shown \subseteq documents
    BY <1>0 DEF TypeOK
  <2>2. \A a \in documents \cap Outbound :
          sequence[a] <= reader.cursor /\ a \notin reader.shown =>
            \E e \in reader.shown : sequence[e] > sequence[a] /\ {a, e} \cap byRun # {}
    BY DEF IInv, NothingBehindCursor
  <2> SUFFICES ASSUME NEW a \in documents \cap Outbound, sequence'[a] <= reader.cursor,
                      a \notin reader.shown
               PROVE  \E e \in reader.shown : /\ sequence'[e] > sequence'[a]
                                              /\ {a, e} \cap byRun' # {}
    BY DEF NothingBehindCursor
  <2>3. PICK e \in reader.shown : sequence[e] > sequence[a] /\ {a, e} \cap byRun # {}
    BY <1>3, <2>2
  <2> QED
    BY <1>3, <2>1, <2>3
<1> QED
  BY <1>4, <1>5, <1>6, <1>7, <1>8, <1>9, <1>10, <1>11 DEF IInv

\* A transaction goes on without inserting: it may wait for a row, or number an event
\* above those of the document that are committed.
LEMMA MoveKeeps ==
  ASSUME IInv, NEW w \in Writers, NEW t \in Transactions, Goes(w, t),
         t.at # "idle", t.inserted = tx[w].inserted, tx[w].recorded \subseteq t.recorded,
         UNCHANGED <<sequence, documents, events, oibLock, reader, byRun, rollbacks>>,
         rowLock' \in [Documents -> Writers \cup {None}],
         \A d \in Documents : rowLock'[d] # rowLock[d] =>
           rowLock[d] = None /\ rowLock'[d] = w /\ d \in documents,
         begun' \in 0..MaxTransactions,
         ChangedHeld(w)', Numbered(w)',
         \A e \in t.recorded \ tx[w].recorded : \A f \in events :
           f.doc = e.doc => e.number > f.number
  PROVE  IInv'
<1>0. TypeOK
  BY DEF IInv
<1>1. /\ tx' \in [Writers -> Transactions]
      /\ tx'[w] = t
      /\ \A v \in Writers \ {w} : tx'[v] = tx[v]
  BY <1>0, GoesAt
<1>2. TypeOK'
  <2>1. \A v \in Writers : tx'[v].at = "idle" =>
          oibLock' # v /\ \A d \in Documents : rowLock'[d] # v
    <3> SUFFICES ASSUME NEW v \in Writers, tx'[v].at = "idle"
                 PROVE  oibLock # v /\ \A d \in Documents : rowLock'[d] # v
      OBVIOUS
    <3>1. v # w /\ tx[v].at = "idle"
      BY <1>1
    <3>2. oibLock # v /\ \A d \in Documents : rowLock[d] # v
      BY <1>0, <3>1 DEF TypeOK
    <3> QED
      BY <3>1, <3>2
  <2> QED
    BY <1>0, <1>1, <2>1 DEF TypeOK
<1>3. Distinct' /\ IsFiniteSet(events')
  BY DEF IInv, Distinct
<1>4. LockedIsStored'
  BY DEF IInv, LockedIsStored
<1>5. ASSUME NEW v \in Writers
      PROVE  Sound(v)'
  <2>0. Sound(v)
    BY DEF IInv
  <2>1. \A u \in Writers : tx'[u].inserted = tx[u].inserted
    BY <1>1
  <2>2. tx'[v].at = "idle" => tx'[v] = Idle
    BY <1>1, <2>0 DEF Sound
  <2>3. Inserted(v)' /\ Guarded(v)'
    BY <2>0, <2>1 DEF Sound, Inserted, Guarded
  <2>4. ChangedHeld(v)' /\ Numbered(v)'
    <3>1. CASE v = w
      BY <3>1
    <3>2. CASE v # w
      <4>1. tx'[v] = tx[v]
        BY <1>1, <3>2
      <4>2. tx[v] \in Transactions
        BY <1>0 DEF TypeOK
      <4>3. ASSUME NEW d \in Documents, Holds(v, d)
            PROVE  Holds(v, d)'
        BY <4>1, <4>3 DEF Holds
      <4>4. \A e \in tx[v].recorded : e.doc \in Documents
        BY <4>2 DEF Transactions, Events
      <4>5. ChangedHeld(v)'
        BY <2>0, <4>1, <4>3, <4>4 DEF Sound, ChangedHeld
      <4>6. Numbered(v)'
        BY <2>0, <4>1 DEF Sound, Numbered
      <4> QED
        BY <4>5, <4>6
    <3> QED
      BY <3>1, <3>2
  <2> QED
    BY <2>2, <2>3, <2>4 DEF Sound
<1>6. Follows' /\ NoGaps' /\ PassComplete' /\ NothingBehindCursor'
  BY DEF IInv, Follows, NoGaps, PassComplete, NothingBehindCursor
<1>7. EventsInOrder'
  <2> SUFFICES ASSUME NEW v \in Writers, NEW e \in tx'[v].recorded, NEW f \in events,
                      e.doc = f.doc, e.changed, f.changed
               PROVE  e.number > f.number
    BY DEF EventsInOrder
  <2>1. CASE e \in tx[v].recorded
    BY <2>1 DEF IInv, EventsInOrder
  <2>2. CASE e \notin tx[v].recorded
    BY <1>1, <2>2
  <2> QED
    BY <2>1, <2>2
<1> QED
  BY <1>2, <1>3, <1>4, <1>5, <1>6, <1>7 DEF IInv

\* A transaction ends: what it inserted and recorded is committed, or nothing is.
LEMMA LeaveKeeps ==
  ASSUME IInv, NEW w \in Writers, Leave(w),
         \/ documents' = documents \cup tx[w].inserted /\ events' = events \cup tx[w].recorded
         \/ documents' = documents /\ events' = events,
         UNCHANGED <<sequence, reader, byRun, begun>>, rollbacks' \in 0..MaxRollbacks
  PROVE  IInv'
<1>0. TypeOK /\ Idle \in Transactions /\ Goes(w, Idle)
  BY DEF IInv, Leave, Goes, Idle, Transactions
<1>1. /\ tx' \in [Writers -> Transactions]
      /\ tx'[w] = Idle
      /\ \A v \in Writers \ {w} : tx'[v] = tx[v]
  BY <1>0, GoesAt
<1>2. /\ \A v \in Writers \ {w} : (oibLock = v) <=> (oibLock' = v)
      /\ oibLock' # w /\ oibLock' \in Writers \cup {None}
  BY <1>0 DEF TypeOK, Leave
<1>3. /\ rowLock' \in [Documents -> Writers \cup {None}]
      /\ \A d \in Documents : rowLock'[d] # w
      /\ \A d \in Documents : rowLock[d] # w => rowLock'[d] = rowLock[d]
      /\ \A d \in Documents : rowLock[d] = w => rowLock'[d] = None
  BY <1>0 DEF TypeOK, Leave
<1>4. /\ documents \subseteq documents' /\ documents' \subseteq documents \cup tx[w].inserted
      /\ events \subseteq events' /\ events' \subseteq events \cup tx[w].recorded
  OBVIOUS
<1>5. Sound(w) /\ tx[w] \in Transactions
  BY <1>0 DEF IInv, TypeOK
<1>6. /\ tx[w].inserted \subseteq Documents /\ tx[w].recorded \subseteq Events
      /\ documents \subseteq Documents /\ events \subseteq Events
      /\ sequence \in [Documents -> Nat]
  BY <1>0, <1>5 DEF Transactions, TypeOK
<1>7. TypeOK'
  <2>1. documents' \subseteq {d \in Documents : sequence'[d] > 0}
    BY <1>0, <1>4, <1>5, <1>6 DEF TypeOK, Sound, Inserted
  <2>2. events' \subseteq Events
    BY <1>4, <1>6
  <2>3. ASSUME NEW v \in Writers, tx'[v].at = "idle"
        PROVE  oibLock' # v /\ \A d \in Documents : rowLock'[d] # v
    <3>1. CASE v = w
      BY <1>2, <1>3, <3>1
    <3>2. CASE v # w
      <4>1. oibLock # v /\ \A d \in Documents : rowLock[d] # v
        BY <1>0, <1>1, <2>3, <3>2 DEF TypeOK
      <4>2. v # None
        OBVIOUS
      <4> QED
        BY <1>2, <1>3, <3>2, <4>1, <4>2
    <3> QED
      BY <3>1, <3>2
  <2>4. reader' \in Readers /\ reader'.shown \subseteq documents'
    BY <1>0, <1>4 DEF TypeOK
  <2> QED
    BY <1>0, <1>1, <1>2, <1>3, <2>1, <2>2, <2>3, <2>4 DEF TypeOK
<1>8. Distinct'
  BY DEF IInv, Distinct
<1>9. LockedIsStored'
  BY <1>3, <1>4 DEF IInv, LockedIsStored
<1>10. IsFiniteSet(events')
  <2>1. IsFiniteSet(events \cup tx[w].recorded) /\ IsFiniteSet(events)
    BY <1>5, FS_Union DEF IInv, Sound, Numbered
  <2> QED
    BY <2>1
<1>11. ASSUME NEW v \in Writers
       PROVE  Sound(v)'
  <2>1. CASE v = w
    <3>1. /\ Inserted(v)' /\ Guarded(v)'
          /\ ChangedHeld(v)'
      BY <1>1, <2>1 DEF Inserted, Guarded, ChangedHeld, Idle
    <3>2. Numbered(v)'
      BY <1>1, <2>1, FS_EmptySet DEF Numbered, Idle
    <3> QED
      BY <1>1, <2>1, <3>1, <3>2 DEF Sound
  <2>2. CASE v # w
    <3>0. Sound(v) /\ tx'[v] = tx[v] /\ tx[v] \in Transactions
      BY <1>0, <1>1, <2>2 DEF IInv, TypeOK
    <3>1. Inserted(v)'
      <4>1. \A d \in tx[v].inserted : d \notin documents'
        BY <1>4, <2>2, <3>0 DEF Sound, Inserted
      <4>2. \A u \in Writers : tx'[u].inserted \subseteq tx[u].inserted
        BY <1>1 DEF Idle
      <4> QED
        BY <3>0, <4>1, <4>2 DEF Sound, Inserted
    <3>2. ChangedHeld(v)'
      <4>1. ASSUME NEW d \in Documents, Holds(v, d)
            PROVE  Holds(v, d)'
        <5>1. rowLock[d] = v => rowLock'[d] = v
          BY <1>3, <2>2
        <5> QED
          BY <3>0, <4>1, <5>1 DEF Holds
      <4>2. \A e \in tx[v].recorded : e.doc \in Documents
        BY <3>0 DEF Transactions, Events
      <4> QED
        BY <3>0, <4>1, <4>2 DEF Sound, ChangedHeld
    <3>3. Numbered(v)'
      <4>1. events \cup tx[v].recorded \subseteq events' \cup tx'[v].recorded
        BY <1>4, <3>0
      <4> QED
        BY <3>0, <4>1 DEF Sound, Numbered
    <3>4. Guarded(v)'
      <4> SUFFICES ASSUME NEW d \in tx[v].inserted \ byRun
                   PROVE  /\ oibLock' = v
                          /\ \A e \in documents' : sequence[e] > sequence[d] => e \in byRun
        BY <3>0 DEF Guarded
      <4>1. oibLock = v /\ \A e \in documents : sequence[e] > sequence[d] => e \in byRun
        BY <3>0 DEF Sound, Guarded
      <4>2. \A e \in tx[w].inserted : e \in byRun
        BY <1>5, <2>2, <4>1 DEF Sound, Guarded
      <4> QED
        BY <1>2, <1>4, <2>2, <4>1, <4>2
    <3> QED
      BY <3>0, <3>1, <3>2, <3>3, <3>4 DEF Sound
  <2> QED
    BY <2>1, <2>2
<1>12. Follows' /\ PassComplete'
  BY <1>4 DEF IInv, Follows, PassComplete
<1>13. EventsInOrder'
  <2> SUFFICES ASSUME NEW v \in Writers, NEW e \in tx'[v].recorded, NEW f \in events',
                      e.doc = f.doc, e.changed, f.changed
               PROVE  e.number > f.number
    BY DEF EventsInOrder
  <2>1. v # w /\ e \in tx[v].recorded
    BY <1>1 DEF Idle
  <2>2. CASE f \in events
    BY <2>1, <2>2 DEF IInv, EventsInOrder
  <2>3. CASE f \in tx[w].recorded
    <3>1. Holds(v, e.doc)
      BY <2>1 DEF IInv, Sound, ChangedHeld
    <3>2. Holds(w, e.doc) /\ e.doc \in Documents
      BY <1>5, <1>6, <2>3 DEF Sound, ChangedHeld, Events
    <3>3. ~ (rowLock[e.doc] = v /\ rowLock[e.doc] = w)
      BY <2>1
    <3>4. \A u \in Writers : rowLock[e.doc] = u => e.doc \in documents
      BY <3>2 DEF IInv, LockedIsStored
    <3>5. \A u \in Writers : e.doc \in tx[u].inserted => e.doc \notin documents
      BY DEF IInv, Sound, Inserted
    <3>6. ~ (e.doc \in tx[v].inserted /\ e.doc \in tx[w].inserted)
      BY <1>5, <2>1 DEF Sound, Inserted
    <3> QED
      BY <3>1, <3>2, <3>3, <3>4, <3>5, <3>6 DEF Holds
  <2> QED
    BY <1>4, <2>2, <2>3
<1>14. NoGaps'
  <2> SUFFICES ASSUME NEW e \in events', NEW n \in 1..(e.number - 1)
               PROVE  \E f \in events' : f.doc = e.doc /\ f.number = n
    BY DEF NoGaps
  <2>1. CASE e \in events
    BY <1>4, <2>1 DEF IInv, NoGaps
  <2>2. CASE e \notin events
    <3>1. events' = events \cup tx[w].recorded /\ e \in tx[w].recorded
      BY <2>2
    <3> QED
      BY <1>5, <3>1 DEF Sound, Numbered
  <2> QED
    BY <2>1, <2>2
<1>15. NothingBehindCursor'
  <2> SUFFICES ASSUME NEW d \in documents' \cap Outbound, sequence[d] <= reader.cursor,
                      d \notin reader.shown
               PROVE  \E e \in reader.shown : sequence[e] > sequence[d] /\ {d, e} \cap byRun # {}
    BY DEF NothingBehindCursor
  <2>1. CASE d \in documents
    BY <2>1 DEF IInv, NothingBehindCursor
  <2>2. CASE d \in tx[w].inserted \ documents
    <3>1. sequence[d] > 0 /\ d \in Documents /\ sequence[d] \in Nat
      BY <1>5, <1>6, <2>2 DEF Sound, Inserted
    <3>2. reader.shown \subseteq documents
      BY <1>0 DEF TypeOK
    <3>3. reader.cursor \in Nat
      BY <1>0 DEF TypeOK, Readers
    <3>4. PICK e \in reader.shown : sequence[e] = reader.cursor
      BY <3>1, <3>3 DEF IInv, Follows
    <3>5. e # d /\ e \in documents /\ e \in Documents
      BY <1>6, <2>2, <3>2
    <3>6. sequence[e] # sequence[d]
      BY <3>1, <3>5 DEF IInv, Distinct
    <3>7. sequence[e] > sequence[d]
      BY <3>1, <3>3, <3>4, <3>6
    <3>8. d \in byRun \/ e \in byRun
      BY <1>5, <2>2, <3>5, <3>7 DEF Sound, Guarded
    <3> QED
      BY <3>7, <3>8
  <2> QED
    BY <1>4, <2>1, <2>2
<1> QED
  BY <1>7, <1>8, <1>9, <1>10, <1>11, <1>12, <1>13, <1>14, <1>15 DEF IInv

----
(* The steps of the reader.                                                *)

\* A step of the reader leaves what writers do.
LEMMA ReaderKeeps ==
  ASSUME IInv,
         UNCHANGED <<sequence, documents, events, oibLock, rowLock, tx, byRun, begun, rollbacks>>,
         reader' \in Readers, reader'.shown \subseteq documents,
         Follows', PassComplete', NothingBehindCursor'
  PROVE  IInv'
<1>1. TypeOK'
  BY DEF IInv, TypeOK
<1>2. Distinct' /\ LockedIsStored' /\ IsFiniteSet(events')
  BY DEF IInv, Distinct, LockedIsStored
<1>3. ASSUME NEW w \in Writers
      PROVE  Sound(w)'
  <2>1. Inserted(w)' /\ ChangedHeld(w)' /\ Numbered(w)' /\ Guarded(w)'
    BY DEF IInv, Sound, Inserted, ChangedHeld, Holds, Numbered, Guarded
  <2> QED
    BY <2>1 DEF IInv, Sound
<1>4. EventsInOrder' /\ NoGaps'
  BY DEF IInv, EventsInOrder, NoGaps
<1> QED
  BY <1>1, <1>2, <1>3, <1>4 DEF IInv

\* A pass begins with the documents committed by then, all behind the cursor 0.
LEMMA StartKeeps ==
  ASSUME IInv, StartPass
  PROVE  IInv'
<1>0. /\ \A d \in documents : sequence[d] \in Nat /\ sequence[d] > 0
      /\ reader \in Readers /\ reader.shown \subseteq documents
  BY DEF IInv, TypeOK
<1>1. /\ reader.at = "idle"
      /\ reader' = [reader EXCEPT !.at = "pass", !.began = documents \cap Outbound]
      /\ UNCHANGED <<sequence, documents, events, oibLock, rowLock, tx, byRun, begun, rollbacks>>
  BY DEF StartPass
<1>2. /\ reader'.at = "pass" /\ reader'.began = documents \cap Outbound
      /\ reader'.cursor = reader.cursor /\ reader'.shown = reader.shown
      /\ reader'.repeated = reader.repeated
      /\ reader' \in Readers
  BY <1>0, <1>1 DEF Readers
<1>3. reader.cursor = 0 /\ reader.shown = {} /\ ~ reader.repeated
  BY <1>1 DEF IInv, Follows, PassComplete
<1>4. Follows'
  BY <1>0, <1>1, <1>2, <1>3 DEF Follows
<1>5. PassComplete'
  BY <1>2, <1>3 DEF PassComplete
<1>6. NothingBehindCursor'
  BY <1>0, <1>1, <1>2, <1>3 DEF NothingBehindCursor
<1> QED
  BY <1>0, <1>1, <1>2, <1>4, <1>5, <1>6, ReaderKeeps

\* A page: it moves the cursor over the rows it shows and over no other.
LEMMA ListKeeps ==
  ASSUME IInv, ListPage
  PROVE  IInv'
<1> DEFINE more == Cardinality(Rows) > Limit
           P == First(Limit)
<1>0. /\ TypeOK /\ sequence \in [Documents -> Nat] /\ documents \subseteq Documents
      /\ reader \in Readers /\ reader.shown \subseteq documents
  BY DEF IInv, TypeOK
<1>1. /\ P \subseteq Rows
      /\ \A d \in P : Before(d) \subseteq P
      /\ ~ more => P = Rows
      /\ more => \E d \in P : sequence[d] = NextCursor
      /\ \A d \in P : sequence[d] <= NextCursor
  BY <1>0, FirstIs
<1>2. Rows = {d \in documents \cap Outbound : sequence[d] > reader.cursor}
  BY DEF Rows
<1>3. reader' = [reader EXCEPT
       !.at = IF more THEN @ ELSE "follow",
       !.cursor = IF more THEN NextCursor ELSE @,
       !.shown = @ \cup P,
       !.repeated = @ \/ (reader.at = "pass" /\ P \cap reader.shown # {})]
  BY DEF ListPage
<1>4. /\ reader.at \in {"pass", "follow"}
      /\ UNCHANGED <<sequence, documents, events, oibLock, rowLock, tx, byRun, begun, rollbacks>>
  BY <1>0 DEF ListPage, Readers
<1> HIDE DEF P, more
<1>5. /\ reader'.at = IF more THEN reader.at ELSE "follow"
      /\ reader'.cursor = IF more THEN NextCursor ELSE reader.cursor
      /\ reader'.shown = reader.shown \cup P
      /\ reader'.began = reader.began
      /\ reader'.repeated <=> reader.repeated \/ (reader.at = "pass" /\ P \cap reader.shown # {})
  BY <1>0, <1>3 DEF Readers
<1>6. more => NextCursor \in Nat /\ NextCursor > reader.cursor
  BY <1>0, <1>1, <1>2 DEF Readers
<1>7. reader' \in Readers /\ reader'.shown \subseteq documents
  <2>1. P \subseteq Outbound /\ P \subseteq documents
    BY <1>1, <1>2
  <2>2. reader.cursor \in Nat
    BY <1>0 DEF Readers
  <2>3. (IF more THEN NextCursor ELSE reader.cursor) \in Nat
    BY <1>6, <2>2
  <2>4. (IF more THEN reader.at ELSE "follow") \in {"idle", "pass", "follow"}
    BY <1>4
  <2>5. (reader.repeated \/ (reader.at = "pass" /\ P \cap reader.shown # {})) \in BOOLEAN
    OBVIOUS
  <2> QED
    BY <1>0, <1>3, <1>5, <2>1, <2>3, <2>4, <2>5 DEF Readers
<1>8. \A d \in documents \cap Outbound : more /\ sequence[d] > reader.cursor =>
        d \in P \/ sequence[d] > NextCursor
  <2> SUFFICES ASSUME NEW d \in documents \cap Outbound, more, sequence[d] > reader.cursor,
                      d \notin P
               PROVE  sequence[d] > NextCursor
    OBVIOUS
  <2>1. PICK e \in P : sequence[e] = NextCursor
    BY <1>1
  <2>2. d \in Rows /\ e \in Rows
    BY <1>1, <1>2
  <2>3. d \notin Before(e) /\ d # e
    BY <1>1, <2>1
  <2>4. ~ (sequence[d] < sequence[e])
    BY <2>2, <2>3 DEF Before
  <2>5. sequence[d] # sequence[e]
    BY <1>0, <1>2, <2>2, <2>3 DEF IInv, Distinct, Readers
  <2> QED
    BY <1>0, <1>2, <2>1, <2>2, <2>4, <2>5
<1>9. Follows'
  <2>1. reader'.began \subseteq documents'
    BY <1>4, <1>5 DEF IInv, Follows
  <2>2. reader'.at # "idle"
    BY <1>4, <1>5
  <2>3. reader'.cursor = 0 \/ \E e \in reader'.shown : sequence'[e] = reader'.cursor
    <3>1. CASE more
      BY <1>1, <1>4, <1>5, <3>1
    <3>2. CASE ~ more
      BY <1>4, <1>5, <3>2 DEF IInv, Follows
    <3> QED
      BY <3>1, <3>2
  <2>4. ASSUME reader'.at = "pass"
        PROVE  /\ \A d \in reader.began : d \in reader'.shown \/ sequence[d] > reader'.cursor
               /\ \A d \in reader'.shown : sequence[d] <= reader'.cursor
    <3>1. more /\ reader.at = "pass"
      BY <1>5, <2>4
    <3>2. /\ \A d \in reader.began : d \in reader.shown \/ sequence[d] > reader.cursor
          /\ \A d \in reader.shown : sequence[d] <= reader.cursor
      BY <3>1 DEF IInv, Follows
    <3>3. reader.began \subseteq documents \cap Outbound
      BY <1>0 DEF IInv, Follows, Readers
    <3>4. reader.cursor \in Nat
      BY <1>0 DEF Readers
    <3>5. \A d \in reader.shown : sequence[d] <= NextCursor
      BY <1>0, <1>6, <3>1, <3>2, <3>4
    <3> QED
      BY <1>1, <1>5, <1>8, <3>1, <3>2, <3>3, <3>5
  <2> QED
    BY <1>4, <1>5, <2>1, <2>2, <2>3, <2>4 DEF Follows
<1>10. PassComplete'
  <2>1. ~ reader'.repeated
    <3>1. ~ reader.repeated
      BY DEF IInv, PassComplete
    <3>2. reader.at = "pass" => \A d \in reader.shown : sequence[d] <= reader.cursor
      BY DEF IInv, Follows
    <3>3. \A d \in documents : sequence[d] <= reader.cursor => d \notin P
      BY <1>0, <1>1, <1>2 DEF Readers
    <3> QED
      BY <1>0, <1>5, <3>1, <3>2, <3>3
  <2>2. ASSUME reader'.at = "follow"
        PROVE  reader'.began \subseteq reader'.shown
    <3>1. CASE reader.at = "follow"
      BY <1>5, <3>1 DEF IInv, PassComplete
    <3>2. CASE reader.at = "pass"
      <4>1. P = Rows
        BY <1>1, <1>5, <2>2, <3>2
      <4>2. \A d \in reader.began : d \in reader.shown \/ sequence[d] > reader.cursor
        BY <3>2 DEF IInv, Follows
      <4>3. reader.began \subseteq documents \cap Outbound
        BY <1>0 DEF IInv, Follows, Readers
      <4> QED
        BY <1>2, <1>5, <4>1, <4>2, <4>3
    <3> QED
      BY <1>4, <3>1, <3>2
  <2> QED
    BY <2>1, <2>2 DEF PassComplete
<1>11. NothingBehindCursor'
  <2> SUFFICES ASSUME NEW d \in documents \cap Outbound, sequence[d] <= reader'.cursor,
                      d \notin reader'.shown
               PROVE  \E e \in reader'.shown : /\ sequence[e] > sequence[d]
                                               /\ {d, e} \cap byRun # {}
    BY <1>4 DEF NothingBehindCursor
  <2>1. sequence[d] \in Nat /\ reader.cursor \in Nat /\ d \notin P /\ d \notin reader.shown
    BY <1>0, <1>5 DEF Readers
  <2>2. sequence[d] <= reader.cursor
    <3>1. CASE more
      <4>1. sequence[d] <= NextCursor /\ NextCursor \in Nat
        BY <1>5, <1>6, <3>1
      <4> QED
        BY <1>8, <2>1, <3>1, <4>1
    <3>2. CASE ~ more
      BY <1>5, <3>2
    <3> QED
      BY <3>1, <3>2
  <2>3. \E e \in reader.shown : sequence[e] > sequence[d] /\ {d, e} \cap byRun # {}
    BY <2>1, <2>2 DEF IInv, NothingBehindCursor
  <2> QED
    BY <1>5, <2>3
<1> QED
  BY <1>4, <1>7, <1>9, <1>10, <1>11, ReaderKeeps

----
(* The steps of a writer.                                                  *)

\* The number of transactions keeps its bound.
LEMMA BeginType ==
  ASSUME TypeOK, NEW w, NEW kind, Begin(w, kind)
  PROVE  begun' \in 0..MaxTransactions
BY DEF TypeOK, Begin

\* A request creates a document behind the taxpayer's lock.
LEMMA CreateKeeps ==
  ASSUME IInv, NEW w \in Writers, NEW d \in Outbound, Create(w, d)
  PROVE  IInv'
<1> DEFINE t == [Idle EXCEPT !.kind = "request", !.at = "written", !.doc = d,
                             !.change = TRUE, !.inserted = {d}]
<1>0. TypeOK /\ Sound(w) /\ d \in Documents
  BY DEF IInv, Documents
<1>1. tx[w].at = "idle"
  BY DEF Create, Begin
<1>2. tx[w] = Idle
  BY <1>0, <1>1 DEF Sound
<1>3. t \in Transactions
  <2>1. Idle \in Transactions
    BY DEF Idle, Transactions
  <2>2. {d} \in SUBSET Documents /\ d \in Documents \cup {None}
    BY <1>0
  <2> QED
    BY <2>1, <2>2 DEF Transactions
<1>3a. /\ t.at = "written" /\ t.doc = d
       /\ t.inserted = tx[w].inserted \cup {d} /\ t.recorded = tx[w].recorded
  BY <1>2 DEF Idle
<1>4. Goes(w, t) /\ Draw(d)
  BY DEF Create, Goes
<1>5. /\ UNCHANGED <<documents, events, rowLock, reader, byRun, rollbacks>>
      /\ oibLock = None /\ oibLock' = w
  BY DEF Create
<1>6. begun' \in 0..MaxTransactions /\ byRun \subseteq Documents
  BY <1>0, BeginType DEF Create, TypeOK
<1> HIDE DEF t
<1> QED
  BY <1>0, <1>3, <1>3a, <1>4, <1>5, <1>6, InsertKeeps

\* A run stores a document.
LEMMA StoreNewKeeps ==
  ASSUME IInv, NEW w \in Writers, NEW d \in Documents, StoreNew(w, d)
  PROVE  IInv'
<1> DEFINE t == [tx[w] EXCEPT !.kind = "run",
                              !.at = IF d \in Inbound THEN "written" ELSE "open",
                              !.doc = IF d \in Inbound THEN d ELSE None,
                              !.change = TRUE,
                              !.handled = @ \cup {d}, !.inserted = @ \cup {d}]
<1>0. TypeOK /\ tx[w] \in Transactions /\ tx \in [Writers -> Transactions]
  BY DEF IInv, TypeOK
<1>a. t \in Transactions
  <2> DEFINE at == IF d \in Inbound THEN "written" ELSE "open"
             doc == IF d \in Inbound THEN d ELSE None
  <2>1. /\ at \in {"idle", "open", "written", "noted"} /\ doc \in Documents \cup {None}
        /\ tx[w].handled \cup {d} \in SUBSET Documents
        /\ tx[w].inserted \cup {d} \in SUBSET Documents
    BY <1>0 DEF Transactions
  <2> HIDE DEF at, doc
  <2> QED
    BY <1>0, <2>1 DEF Transactions
<1>1. /\ t.at # "idle" /\ (t.at = "written" => t.doc = d)
      /\ t.inserted = tx[w].inserted \cup {d} /\ t.recorded = tx[w].recorded
  BY <1>0 DEF Transactions
<1>2. Goes(w, t) /\ Draw(d)
  BY DEF StoreNew, Goes
<1>3. /\ UNCHANGED <<documents, events, oibLock, rowLock, reader, rollbacks>>
      /\ byRun' = byRun \cup {d}
  BY DEF StoreNew
<1>4. begun' \in 0..MaxTransactions /\ byRun \subseteq Documents
  BY <1>0, BeginType DEF StoreNew, TypeOK
<1> HIDE DEF t
<1> QED
  BY <1>a, <1>1, <1>2, <1>3, <1>4, InsertKeeps

\* A document is loaded and flushed: the row is the transaction's if it changed.
LEMMA UpdateKeeps ==
  ASSUME IInv, NEW w \in Writers, NEW d \in Documents, NEW kind \in {"request", "run"},
         Update(w, d, kind)
  PROVE  IInv'
<1>0. TypeOK /\ Sound(w) /\ tx[w] \in Transactions /\ d \in documents
  BY DEF IInv, TypeOK, Update
<1>1. PICK change \in BOOLEAN :
        /\ change => rowLock[d] = None
        /\ rowLock' = [rowLock EXCEPT ![d] = IF change THEN w ELSE @]
        /\ tx' = [tx EXCEPT ![w] = [tx[w] EXCEPT !.kind = kind, !.at = "written", !.doc = d,
                                             !.change = change, !.handled = @ \cup {d}]]
  BY DEF Update
<1> DEFINE t == [tx[w] EXCEPT !.kind = kind, !.at = "written", !.doc = d,
                              !.change = change, !.handled = @ \cup {d}]
<1>a. t \in Transactions
  <2>1. tx[w].handled \cup {d} \in SUBSET Documents /\ d \in Documents \cup {None}
    BY <1>0 DEF Transactions
  <2> QED
    BY <1>0, <2>1 DEF Transactions
<1>2. /\ t \in Transactions /\ t.at = "written" /\ t.doc = d /\ t.change = change
      /\ t.inserted = tx[w].inserted /\ t.recorded = tx[w].recorded
  BY <1>0, <1>a DEF Transactions
<1>3. Goes(w, t)
  BY <1>1 DEF Goes
<1> HIDE DEF t
<1>4. tx'[w] = t
  BY <1>0, <1>2, <1>3, GoesAt
<1>5. /\ rowLock' \in [Documents -> Writers \cup {None}]
      /\ \A e \in Documents : rowLock'[e] # rowLock[e] =>
           rowLock[e] = None /\ rowLock'[e] = w /\ e \in documents
      /\ change => rowLock'[d] = w
      /\ \A e \in Documents : rowLock[e] = w => rowLock'[e] = w
  BY <1>0, <1>1 DEF TypeOK
<1>6. begun' \in 0..MaxTransactions
  BY <1>0, BeginType DEF Update
<1>7. UNCHANGED <<sequence, documents, events, oibLock, reader, byRun, rollbacks>>
  BY DEF Update
<1>8. ChangedHeld(w)'
  <2>1. \A e \in tx[w].recorded : e.doc \in Documents
    BY <1>0 DEF Transactions, Events
  <2>2. \A e \in tx[w].recorded : e.changed => Holds(w, e.doc)
    BY <1>0 DEF Sound, ChangedHeld
  <2>3. \A e \in tx[w].recorded : e.changed => Holds(w, e.doc)'
    BY <1>2, <1>4, <1>5, <2>1, <2>2 DEF Holds
  <2> QED
    BY <1>2, <1>4, <1>5, <2>3 DEF ChangedHeld, Holds
<1>9. Numbered(w)'
  BY <1>0, <1>2, <1>4, <1>7 DEF Sound, Numbered
<1> QED
  BY <1>2, <1>3, <1>5, <1>6, <1>7, <1>8, <1>9, MoveKeeps

\* Where a transaction is after its event, or without one.
LEMMA OnwardIs ==
  ASSUME NEW t \in Transactions, NEW E \in SUBSET Events
  PROVE  /\ Onward(t, E) \in Transactions
         /\ Onward(t, E).at \in {"open", "noted"}
         /\ Onward(t, E).inserted = t.inserted
         /\ Onward(t, E).recorded = t.recorded \cup E
BY DEF Onward, Transactions

\* An event is numbered behind those of the document that are committed, or its own.
LEMMA RecordKeeps ==
  ASSUME IInv, NEW w \in Writers, Record(w)
  PROVE  IInv'
<1> DEFINE last == LastNumber(w, tx[w].doc)
           event == [doc |-> tx[w].doc, number |-> last + 1, changed |-> tx[w].change]
           t == Onward(tx[w], {event})
<1>0. TypeOK /\ Sound(w) /\ tx[w] \in Transactions /\ IsFiniteSet(events)
  BY DEF IInv, TypeOK
<1>1. /\ tx[w].at = "written" /\ Goes(w, t)
      /\ UNCHANGED <<sequence, documents, events, oibLock, rowLock, reader, byRun, begun,
                      rollbacks>>
  BY DEF Record, Goes
<1>2. /\ last \in Nat
      /\ last # 0 => \E f \in events \cup tx[w].recorded : f.doc = tx[w].doc /\ f.number = last
      /\ \A f \in events \cup tx[w].recorded : f.doc = tx[w].doc => last >= f.number
  BY <1>0, LastIs
<1>3. tx[w].doc \in Documents /\ tx[w].change \in BOOLEAN
  BY <1>0, <1>1 DEF Sound, ChangedHeld, Transactions
<1> HIDE DEF last
<1>4. event \in Events
  BY <1>2, <1>3 DEF Events
<1>5. /\ t \in Transactions /\ t.at \in {"open", "noted"} /\ t.inserted = tx[w].inserted
      /\ t.recorded = tx[w].recorded \cup {event}
  <2> HIDE DEF event
  <2> QED
    BY <1>0, <1>4, OnwardIs
<1>6. event.doc = tx[w].doc /\ event.number = last + 1 /\ event.changed = tx[w].change
  OBVIOUS
<1> HIDE DEF event, t
<1>7. tx'[w] = t
  BY <1>0, <1>1, <1>5, GoesAt
<1>8. ChangedHeld(w)'
  <2>1. \A e \in tx[w].recorded : e.changed => Holds(w, e.doc)
    BY <1>0 DEF Sound, ChangedHeld
  <2>2. event.changed => Holds(w, event.doc)
    BY <1>0, <1>1, <1>6 DEF Sound, ChangedHeld
  <2>3. \A e \in t.recorded : e.changed => Holds(w, e.doc)
    BY <1>5, <2>1, <2>2
  <2> QED
    BY <1>1, <1>5, <1>7, <2>3 DEF ChangedHeld, Holds
<1>9. Numbered(w)'
  <2>1. IsFiniteSet(tx[w].recorded \cup {event})
    BY <1>0, FS_AddElement DEF Sound, Numbered
  <2>1a. IsFiniteSet(tx'[w].recorded) /\ events' = events
    BY <1>1, <1>5, <1>7, <2>1
  <2> SUFFICES ASSUME NEW e \in t.recorded, NEW n \in 1..(e.number - 1)
               PROVE  \E f \in events \cup t.recorded : f.doc = e.doc /\ f.number = n
    BY <1>7, <2>1a DEF Numbered
  <2>2. events \cup tx[w].recorded \subseteq events \cup t.recorded
    BY <1>5
  <2>3. \A g \in events \cup tx[w].recorded : \A k \in 1..(g.number - 1) :
          \E f \in events \cup tx[w].recorded : f.doc = g.doc /\ f.number = k
    BY <1>0 DEF IInv, NoGaps, Sound, Numbered
  <2>4. CASE e \in tx[w].recorded
    BY <2>2, <2>3, <2>4
  <2>5. CASE e = event
    <3>1. n \in Nat /\ n > 0 /\ n <= last
      BY <1>2, <1>6, <2>5
    <3>2. PICK f \in events \cup tx[w].recorded : f.doc = tx[w].doc /\ f.number = last
      BY <1>2, <3>1
    <3>3. CASE n = last
      BY <1>6, <2>2, <2>5, <3>2, <3>3
    <3>4. CASE n # last
      <4>1. n \in 1..(f.number - 1)
        BY <1>2, <3>1, <3>2, <3>4
      <4> QED
        BY <1>6, <2>2, <2>3, <2>5, <3>2, <4>1
    <3> QED
      BY <3>3, <3>4
  <2> QED
    BY <1>5, <2>4, <2>5
<1>10. \A e \in t.recorded \ tx[w].recorded : \A f \in events :
         f.doc = e.doc => e.number > f.number
  <2>1. \A f \in events : f.number \in Nat
    BY <1>0 DEF TypeOK, Events
  <2> QED
    BY <1>2, <1>5, <1>6, <2>1
<1>11. /\ rowLock' \in [Documents -> Writers \cup {None}] /\ rowLock' = rowLock
       /\ begun' \in 0..MaxTransactions
  BY <1>0, <1>1 DEF TypeOK
<1> QED
  BY <1>1, <1>5, <1>8, <1>9, <1>10, <1>11, MoveKeeps

\* Some changes of an inbound document are not told.
LEMMA NoEventKeeps ==
  ASSUME IInv, NEW w \in Writers, NoEvent(w)
  PROVE  IInv'
<1> DEFINE t == Onward(tx[w], {})
<1>0. TypeOK /\ Sound(w) /\ tx[w] \in Transactions /\ tx \in [Writers -> Transactions]
  BY DEF IInv, TypeOK
<1>1. /\ Goes(w, t)
      /\ UNCHANGED <<sequence, documents, events, oibLock, rowLock, reader, byRun, begun,
                      rollbacks>>
  BY DEF NoEvent, Goes
<1>2. /\ t \in Transactions /\ t.at \in {"open", "noted"} /\ t.inserted = tx[w].inserted
      /\ t.recorded = tx[w].recorded \cup {}
  BY <1>0, OnwardIs
<1> HIDE DEF t
<1>3. t.recorded = tx[w].recorded
  BY <1>2
<1>4. tx'[w] = t
  BY <1>0, <1>1, <1>2, GoesAt
<1>5. ChangedHeld(w)' /\ Numbered(w)'
  BY <1>0, <1>1, <1>2, <1>3, <1>4 DEF Sound, ChangedHeld, Holds, Numbered
<1>6. /\ rowLock' \in [Documents -> Writers \cup {None}] /\ rowLock' = rowLock
      /\ begun' \in 0..MaxTransactions
  BY <1>0, <1>1 DEF TypeOK
<1> QED
  BY <1>1, <1>2, <1>3, <1>5, <1>6, MoveKeeps

\* A transaction commits, or is rolled back.
LEMMA EndKeeps ==
  ASSUME IInv, NEW w \in Writers, Commit(w) \/ Rollback(w)
  PROVE  IInv'
<1>1. CASE Commit(w)
  <2>1. rollbacks' \in 0..MaxRollbacks
    BY <1>1 DEF IInv, TypeOK, Commit
  <2> QED
    BY <1>1, <2>1, LeaveKeeps DEF Commit
<1>2. CASE Rollback(w)
  <2>1. rollbacks' \in 0..MaxRollbacks
    BY <1>2 DEF IInv, TypeOK, Rollback
  <2> QED
    BY <1>2, <2>1, LeaveKeeps DEF Rollback
<1> QED
  BY <1>1, <1>2

----
(* The theorems.                                                           *)

\* A step that changes nothing keeps the inductive invariant.
LEMMA StutterKeeps == IInv /\ UNCHANGED vars => IInv'
<1> SUFFICES ASSUME IInv, UNCHANGED vars PROVE IInv'
  OBVIOUS
<1>1. reader' \in Readers /\ reader'.shown \subseteq documents
  BY DEF IInv, TypeOK, vars
<1>2. Follows' /\ PassComplete' /\ NothingBehindCursor'
  BY DEF IInv, Follows, PassComplete, NothingBehindCursor, vars
<1> QED
  BY <1>1, <1>2, ReaderKeeps DEF vars

\* The inductive invariant holds in every state: documents get their numbers, events and
\* locks from overlapping transactions as _list_direction and record_event expect.
THEOREM Invariance == Spec => []IInv
<1>1. ASSUME IInv, [Next]_vars
      PROVE  IInv'
  <2>1. ASSUME NEW w \in Writers, NEW d \in Outbound, Create(w, d) PROVE IInv'
    BY <1>1, <2>1, CreateKeeps
  <2>2. ASSUME NEW w \in Writers, NEW d \in Documents, StoreNew(w, d) PROVE IInv'
    BY <1>1, <2>2, StoreNewKeeps
  <2>3. ASSUME NEW w \in Writers, NEW d \in Documents, NEW kind \in {"request", "run"},
               Update(w, d, kind)
        PROVE  IInv'
    BY <1>1, <2>3, UpdateKeeps
  <2>4. ASSUME NEW w \in Writers, Record(w) PROVE IInv'
    BY <1>1, <2>4, RecordKeeps
  <2>5. ASSUME NEW w \in Writers, NoEvent(w) PROVE IInv'
    BY <1>1, <2>5, NoEventKeeps
  <2>6. ASSUME NEW w \in Writers, Commit(w) \/ Rollback(w) PROVE IInv'
    BY <1>1, <2>6, EndKeeps
  <2>7. CASE StartPass
    BY <1>1, <2>7, StartKeeps
  <2>8. CASE ListPage
    BY <1>1, <2>8, ListKeeps
  <2>9. CASE UNCHANGED vars
    BY <1>1, <2>9, StutterKeeps
  <2> QED
    BY <1>1, <2>1, <2>2, <2>3, <2>4, <2>5, <2>6, <2>7, <2>8, <2>9 DEF Next
<1> QED
  BY InitIInv, <1>1, PTL DEF Spec

\* Every variable has its type, and a thread without a transaction holds no lock.
THEOREM TypeCorrect == Spec => []TypeOK
<1>1. IInv => TypeOK
  BY DEF IInv
<1> QED
  BY <1>1, Invariance, PTL

\* record_event: the events of a document become visible in the order of their numbers,
\* unless one of the transactions left the row as it was.
THEOREM EventsAreOrdered == Spec => []EventsInOrder
<1>1. IInv => EventsInOrder
  BY DEF IInv
<1> QED
  BY <1>1, Invariance, PTL

\* record_event: the numbers of a document's committed events have no gaps.
THEOREM EventsHaveNoGaps == Spec => []NoGaps
<1>1. IInv => NoGaps
  BY DEF IInv
<1> QED
  BY <1>1, Invariance, PTL

\* _list_direction: a pass over the pages shows every document committed before it began
\* and none twice, for any page size.
THEOREM PassesAreComplete == Spec => []PassComplete
<1>1. IInv => PassComplete
  BY DEF IInv
<1> QED
  BY <1>1, Invariance, PTL

\* A client that keeps its cursor misses a document only because of a reconciliation: the
\* advisory lock of create_outbound orders the commits of what requests create.
THEOREM FollowersMissRunsOnly == Spec => []NothingBehindCursor
<1>1. IInv => NothingBehindCursor
  BY DEF IInv
<1> QED
  BY <1>1, Invariance, PTL
=============================================================================
