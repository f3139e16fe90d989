---------------------------- MODULE ClientProofs ----------------------------
(***************************************************************************)
(* Proofs about the two provider clients: SuperClient, for any number of   *)
(* threads and retries, and PondiClient, for any page size, last offset    *)
(* and number of documents that arrive while a listing goes on.            *)
(*                                                                         *)
(* The argument for SuperClient: a call that goes on has not been carried *)
(* out, so a write that is sent again is sent for the first time as far as *)
(* the provider is concerned (Verdicts).  Each once-only retry pays for    *)
(* one more round of requests (Rounds).  Nobody holds a token while one is *)
(* fetched, so every token issued makes up for one that was dropped        *)
(* (Ledger).                                                               *)
(***************************************************************************)
EXTENDS SuperClient, PondiClient, SequenceTheorems, TLAPS

\* What the provider has made of a write, by the result of the call.
Verdicts ==
  \A t \in Writes :
    /\ result[t] \in {"none", "refused"} => processed[t] = 0
    /\ result[t] = "ok" => processed[t] = IF t \in redirected THEN 0 ELSE 1
    /\ t \in redirected => result[t] = "ok"
    /\ result[t] = "ambiguous" => processed[t] <= 1

\* Requests in a round: a 429 is tried again for a read only.
PerRound(t) == IF t \in Writes THEN 1 ELSE MaxRetries + 1

Paid(t, why) == IF why \in retried[t] THEN PerRound(t) ELSE 0

\* Requests sent in the rounds that are over and in this one.
Rounds ==
  \A t \in Threads :
    /\ t \in Writes => busy[t] = 0
    /\ requests[t] <= Paid(t, "401") + Paid(t, "connect") + busy[t]
                        + (IF pc[t] = "done" THEN 1 ELSE 0)

\* The tokens issued, the one in the cache included.
Ledger ==
  /\ lock # NoThread => ~cached
  /\ issued <= dropped + (IF cached THEN 1 ELSE 0)

IInv == TypeOK /\ Verdicts /\ Rounds /\ Ledger

USE ClientAssumption DEF ClientAssumption

----
\* The initial state satisfies the inductive invariant.
LEMMA InvInit == Init => IInv
<1>1. SUFFICES ASSUME Init PROVE IInv
  OBVIOUS
<1>2. TypeOK
  <2>1. cached \in BOOLEAN /\ tokenRetried \in BOOLEAN
    BY <1>1 DEF Init
  <2>2. tokenBusy \in 0..MaxRetries
    BY <1>1 DEF Init
  <2> QED
    BY <1>1, <2>1, <2>2 DEF Init, TypeOK, Steps, Results
<1>3. Verdicts /\ Ledger
  BY <1>1 DEF Init, Verdicts, Ledger
<1>4. Rounds
  BY <1>1 DEF Init, Rounds, Paid, PerRound
<1> QED
  BY <1>2, <1>3, <1>4 DEF IInv

\* Steps before the request goes out: the call begins, and its token is had.
LEMMA InvToken ==
  ASSUME IInv, NEW t \in Threads,
         \/ Post(t) \/ CachedToken(t) \/ RequestToken(t) \/ TokenGranted(t)
         \/ TokenAgain(t) \/ TokenError(t)
  PROVE  IInv'
<1> USE DEF IInv, Post, CachedToken, RequestToken, TokenGranted, TokenAgain, TokenError,
            Goto, Return, callVars, tokenVars
<1>1. TypeOK'
  <2>1. cached' \in BOOLEAN
    BY DEF TypeOK
  <2>2. tokenRetried' \in BOOLEAN
    BY DEF TypeOK
  <2>3. tokenBusy' \in 0..MaxRetries
    BY DEF TypeOK
  <2> QED
    BY <2>1, <2>2, <2>3 DEF TypeOK, Steps, Results
<1>2. Verdicts'
  BY DEF TypeOK, Verdicts
<1>3. Rounds'
  BY DEF TypeOK, Rounds, Paid, PerRound
<1>4. Ledger'
  BY DEF TypeOK, Ledger
<1> QED
  BY <1>1, <1>2, <1>3, <1>4

\* Answers that end the call.
LEMMA InvAnswer ==
  ASSUME IInv, NEW t \in Threads,
         Accepted(t) \/ RedirectAccepted(t) \/ Refused(t) \/ Silent(t)
  PROVE  IInv'
<1> USE DEF IInv, Accepted, RedirectAccepted, Refused, Silent, Verdict, Sent, Took, Goto,
            Return, tokenVars
<1>1. TypeOK'
  <2>1. cached' \in BOOLEAN
    BY DEF TypeOK
  <2>2. tokenRetried' \in BOOLEAN
    BY DEF TypeOK
  <2>3. tokenBusy' \in 0..MaxRetries
    BY DEF TypeOK
  <2> QED
    BY <2>1, <2>2, <2>3 DEF TypeOK, Steps, Results
<1>2. Verdicts'
  BY DEF TypeOK, Verdicts
<1>3. Rounds'
  BY DEF TypeOK, Rounds, Paid, PerRound
<1>4. Ledger'
  BY DEF TypeOK, Ledger
<1> QED
  BY <1>1, <1>2, <1>3, <1>4

\* Answers that may be followed by another request.
LEMMA InvRetry ==
  ASSUME IInv, NEW t \in Threads, Unconnected(t) \/ Unauthorized(t) \/ Busy(t)
  PROVE  IInv'
<1> USE DEF IInv, Unconnected, Unauthorized, Busy, Verdict, Sent, Took, Again, Goto, Return,
            tokenVars
<1>1. TypeOK'
  <2>1. cached' \in BOOLEAN
    BY DEF TypeOK
  <2>2. tokenRetried' \in BOOLEAN
    BY DEF TypeOK
  <2>3. tokenBusy' \in 0..MaxRetries
    BY DEF TypeOK
  <2> QED
    BY <2>1, <2>2, <2>3 DEF TypeOK, Steps, Results
<1>2. Verdicts'
  BY DEF TypeOK, Verdicts
<1>3. Rounds'
  BY DEF TypeOK, Rounds, Paid, PerRound
<1>4. Ledger'
  BY DEF TypeOK, Ledger
<1> QED
  BY <1>1, <1>2, <1>3, <1>4

\* The cached token runs out.
LEMMA InvExpire ==
  ASSUME IInv, Expire
  PROVE  IInv'
<1> USE DEF IInv, Expire, callVars
<1>1. TypeOK' /\ Verdicts'
  <2>1. cached' \in BOOLEAN /\ tokenRetried' \in BOOLEAN
    BY DEF TypeOK
  <2> QED
    BY <2>1 DEF TypeOK, Verdicts
<1>2. Rounds' /\ Ledger'
  BY DEF TypeOK, Rounds, Paid, PerRound, Ledger
<1> QED
  BY <1>1, <1>2

\* Every step preserves the inductive invariant.
LEMMA InvNext == IInv /\ [Next]_vars => IInv'
<1>1. SUFFICES ASSUME IInv, [Next]_vars PROVE IInv'
  OBVIOUS
<1>2. CASE Expire
  BY <1>1, <1>2, InvExpire
<1>3. CASE \E t \in Threads : Post(t) \/ Request(t)
  BY <1>1, <1>3, InvToken, InvAnswer, InvRetry DEF Request
<1>4. CASE UNCHANGED vars
  BY <1>1, <1>4 DEF IInv, vars, callVars, tokenVars, TypeOK, Verdicts, Rounds, Paid,
                    PerRound, Ledger
<1> QED
  BY <1>1, <1>2, <1>3, <1>4 DEF Next

\* The inductive invariant holds in every reachable state.
THEOREM Invariance == Spec => []IInv
BY InvInit, InvNext, PTL DEF Spec

----
\* The variables keep their types, and the refresh lock is held by whoever fetches.
THEOREM TypeCorrect == Spec => []TypeOK
<1>1. IInv => TypeOK
  BY DEF IInv
<1> QED
  BY <1>1, Invariance, PTL

\* A write is carried out at most once, however many times and by however many
\* threads requests are sent and tokens refreshed (_request's retries).
THEOREM WrittenOnce == Spec => []WriteOnce
<1>1. IInv => WriteOnce
  BY DEF IInv, TypeOK, Results, Verdicts, WriteOnce
<1> QED
  BY <1>1, Invariance, PTL

\* What _request returns about a write is true, the ground Dispatch stands on, but for
\* a redirect with an object in it, which is told as a success and never was one.
THEOREM ResultsAreHonest == Spec => []HonestResult
<1>1. IInv => HonestResult
  BY DEF IInv, Verdicts, HonestResult
<1> QED
  BY <1>1, Invariance, PTL

\* No call sends more than its rounds allow, whatever super_read_429_max_retries is.
THEOREM RequestsAreBounded == Spec => []RequestsBounded
<1>1. ASSUME IInv, NEW t \in Threads
      PROVE  requests[t] <= IF t \in Writes THEN 3 ELSE MaxRequests
  BY <1>1 DEF IInv, TypeOK, Rounds, Paid, PerRound, MaxRequests
<1>2. IInv => RequestsBounded
  BY <1>1 DEF RequestsBounded
<1> QED
  BY <1>2, Invariance, PTL

\* Tokens are fetched one at a time, and only to replace one that ran out or was
\* dropped (_token and its refresh lock).
THEOREM TokensAreAccounted == Spec => []TokensAccounted
<1>1. IInv => TokensAccounted
  BY DEF IInv, TypeOK, Ledger, TokensAccounted
<1> QED
  BY <1>1, Invariance, PTL

----
(* PondiClient.                                                            *)
(*                                                                         *)
(* A listing is exact because what it has covered only grows: the pages so *)
(* far cover the first `offset' documents of the provider's list as it is  *)
(* by now (Coverage).  A document that arrives is not one of atStart, so   *)
(* pushing the others down uncovers none of them, and those that come up   *)
(* on the next page for a second time are in seen.                         *)

HIDE ClientAssumption DEF ClientAssumption

\* The documents come with their numbers, and a listing knows those it began with.
Numbered ==
  /\ Listed(held) \subseteq 1..Len(held)
  /\ atStart \subseteq Listed(held)

\* The step a call is at goes with its kind, and no page is asked for beyond the last.
Stages ==
  /\ at = "idle" => kind = None /\ offset = 0 /\ page = <<>>
  /\ at = "write" => kind \in WriteKinds
  /\ at \in {"list", "rows", "ubl"} => kind \notin WriteKinds
  /\ at \in {"idle", "list", "rows"} => offset <= LastOffset
  /\ at \in {"idle", "write", "list"} => answer = None

RowsOnce == \A i, j \in 1..Len(rows) : rows[i] = rows[j] => i = j

\* Every document that the provider held at the start and that it lists among the first
\* n by now is a row, or will be one when the page is done.
Covered(n) ==
  \A i \in 1..Len(held) :
    i <= n /\ held[i] \in atStart => held[i] \in seen \cup Listed(page)

Coverage ==
  /\ at = "list" => page = <<>>
  /\ paging /\ at = "list" => Covered(offset)
  /\ paging /\ at = "rows" /\ answer = None => Covered(offset + PageSize)
  /\ at = "rows" /\ ~full => atStart \subseteq seen \cup Listed(page) \/ Cut
  /\ at = "rows" /\ answer # None => ~full
  /\ at = "ubl" \/ (kind \notin WriteKinds /\ verdict = "ok") =>
       atStart \subseteq seen \/ Cut

PondiInv == PondiTypeOK /\ Numbered /\ Stages /\ RowsOnce /\ Coverage /\ HonestVerdict

\* What is assumed of the bounds.
LEMMA PondiBounds ==
  MaxDocuments \in Nat /\ LastOffset \in Nat /\ PageSize \in Nat /\ PageSize > 0
BY PondiAssumption DEF PondiAssumption

\* An offset within the bounds is a number.
LEMMA PondiOffset ==
  ASSUME PondiTypeOK
  PROVE  offset \in Nat /\ offset + PageSize \in Nat /\ offset <= LastOffset + PageSize
<1>1. offset \in 0..(LastOffset + PageSize)
  BY DEF PondiTypeOK
<1> QED
  BY <1>1, PondiBounds

\* A list with one more document, last or first, lists that document as well.
LEMMA PondiListedAppend ==
  ASSUME NEW S, NEW list \in Seq(S), NEW e
  PROVE  /\ Listed(Append(list, e)) = Listed(list) \cup {e}
         /\ Listed(<<e>> \o list) = Listed(list) \cup {e}
<1>1. Listed(Append(list, e)) = Listed(list) \cup {e}
  <2>1. Len(Append(list, e)) = Len(list) + 1 /\ Len(list) \in Nat
    OBVIOUS
  <2>2. \A i \in 1..Len(list) : Append(list, e)[i] = list[i]
    OBVIOUS
  <2>3. Append(list, e)[Len(list) + 1] = e
    OBVIOUS
  <2> QED
    BY <2>1, <2>2, <2>3 DEF Listed
<1>2. Listed(<<e>> \o list) = Listed(list) \cup {e}
  <2> DEFINE new == <<e>> \o list
  <2>1. Len(new) = Len(list) + 1 /\ Len(list) \in Nat
    OBVIOUS
  <2>2. new[1] = e
    OBVIOUS
  <2>3. \A i \in 1..Len(list) : new[i + 1] = list[i]
    OBVIOUS
  <2>4. ASSUME NEW i \in 1..Len(new) PROVE new[i] \in Listed(list) \cup {e}
    <3>1. CASE i = 1
      BY <3>1, <2>2
    <3>2. CASE i # 1
      <4>1. i - 1 \in 1..Len(list) /\ i = (i - 1) + 1
        BY <3>2, <2>1
      <4> QED
        BY <4>1, <2>3 DEF Listed
    <3> QED
      BY <3>1, <3>2
  <2>5. e \in Listed(new)
    BY <2>1, <2>2 DEF Listed
  <2>6. ASSUME NEW i \in 1..Len(list) PROVE list[i] \in Listed(new)
    <3>1. i + 1 \in 1..Len(new)
      BY <2>1
    <3> QED
      BY <3>1, <2>3 DEF Listed
  <2> QED
    BY <2>4, <2>5, <2>6 DEF Listed
<1> QED
  BY <1>1, <1>2

\* A list is its first document and the rest.
LEMMA PondiListedTail ==
  ASSUME NEW S, NEW list \in Seq(S), list # <<>>
  PROVE  /\ Tail(list) \in Seq(S) /\ Head(list) \in S
         /\ Listed(list) = Listed(Tail(list)) \cup {Head(list)}
<1>1. Len(list) \in Nat /\ Len(list) > 0 /\ Len(Tail(list)) = Len(list) - 1
  OBVIOUS
<1>2. Tail(list) \in Seq(S) /\ Head(list) = list[1] /\ list[1] \in S
  BY <1>1
<1>3. \A i \in 1..Len(Tail(list)) : Tail(list)[i] = list[i + 1]
  BY <1>1
<1>4. ASSUME NEW i \in 1..Len(list) PROVE list[i] \in Listed(Tail(list)) \cup {Head(list)}
  <2>1. CASE i = 1
    BY <2>1, <1>2
  <2>2. CASE i # 1
    <3>1. i - 1 \in 1..Len(Tail(list)) /\ i = (i - 1) + 1
      BY <2>2, <1>1
    <3> QED
      BY <3>1, <1>3 DEF Listed
  <2> QED
    BY <2>1, <2>2
<1>5. ASSUME NEW i \in 1..Len(Tail(list)) PROVE Tail(list)[i] \in Listed(list)
  <2>1. i + 1 \in 1..Len(list)
    BY <1>1
  <2> QED
    BY <2>1, <1>3 DEF Listed
<1>6. Head(list) \in Listed(list)
  BY <1>1, <1>2 DEF Listed
<1> QED
  BY <1>2, <1>4, <1>5, <1>6 DEF Listed

\* The page of an answer is the part of the provider's list from the offset on.
LEMMA PondiPage ==
  ASSUME NEW from \in Nat, held \in Seq(1..MaxDocuments),
         from = IF paging THEN offset ELSE 0
  PROVE  /\ Page \in Seq(Listed(held))
         /\ \A i \in 1..Len(held) :
              from < i /\ i <= from + PageSize => held[i] \in Listed(Page)
         /\ Page = <<>> => Len(held) <= from
         /\ Len(Page) < PageSize => Len(held) < from + PageSize
<1> DEFINE upto == IF from + PageSize < Len(held) THEN from + PageSize ELSE Len(held)
<1>0. Len(held) \in Nat /\ PageSize \in Nat /\ PageSize > 0
  BY PondiBounds
<1>1. Page = SubSeq(held, from + 1, upto)
  BY DEF Page
<1>2. upto \in Nat /\ upto <= Len(held) /\ upto <= from + PageSize
  BY <1>0
<1> HIDE DEF upto
<1>3. \A i \in (from + 1)..upto : held[i] \in Listed(held)
  BY <1>0, <1>2 DEF Listed
<1>4. /\ Page \in Seq(Listed(held))
      /\ Len(Page) = IF from + 1 <= upto THEN upto - (from + 1) + 1 ELSE 0
      /\ \A i \in 1..(upto - (from + 1) + 1) : Page[i] = held[from + 1 + i - 1]
  BY <1>1, <1>2, <1>3, SubSeqProperties
<1>5. ASSUME NEW i \in 1..Len(held), from < i, i <= from + PageSize
      PROVE  held[i] \in Listed(Page)
  <2>1. i <= upto
    BY <1>0, <1>5 DEF upto
  <2>2. i - from \in 1..(upto - (from + 1) + 1) /\ from + 1 + (i - from) - 1 = i
    BY <1>0, <1>2, <1>5, <2>1
  <2>3. upto - (from + 1) + 1 = Len(Page)
    BY <1>2, <1>4, <1>5, <2>1
  <2> QED
    BY <1>4, <2>2, <2>3 DEF Listed
<1>6. Page = <<>> => Len(held) <= from
  <2>1. SUFFICES ASSUME Page = <<>>, Len(held) > from PROVE FALSE
    BY <1>0
  <2>2. upto >= from + 1
    BY <1>0, <2>1 DEF upto
  <2>3. Len(Page) = 0
    BY <2>1
  <2> QED
    BY <1>2, <1>4, <2>2, <2>3
<1>7. Len(Page) < PageSize => Len(held) < from + PageSize
  <2>1. SUFFICES ASSUME Len(held) >= from + PageSize PROVE Len(Page) >= PageSize
    BY <1>0, <1>2, <1>4
  <2>2. upto = from + PageSize
    BY <1>0, <2>1 DEF upto
  <2>3. Len(Page) = upto - (from + 1) + 1
    BY <1>0, <1>2, <1>4, <2>2
  <2> QED
    BY <1>0, <2>2, <2>3
<1> QED
  BY <1>4, <1>5, <1>6, <1>7

\* A client without a call satisfies the inductive invariant.
LEMMA PondiInvInit == PondiInit => PondiInv
<1>1. SUFFICES ASSUME PondiInit PROVE PondiInv
  OBVIOUS
<1>2. Listed(<<>>) = {}
  BY DEF Listed
<1>3. PondiTypeOK
  <2>1. offset \in 0..(LastOffset + PageSize)
    BY <1>1, PondiBounds DEF PondiInit
  <2>2. <<>> \in Seq(1..MaxDocuments) /\ <<>> \in Seq(Listed(held))
    OBVIOUS
  <2> QED
    BY <1>1, <1>2, <2>1, <2>2 DEF PondiInit, PondiTypeOK
<1> QED
  BY <1>1, <1>2, <1>3, PondiBounds DEF PondiInit, PondiInv, Numbered, Stages, RowsOnce,
     Coverage, HonestVerdict, Cut, WriteKinds

\* A document that arrives, first in the provider's list or last, moves others further
\* down at most: what is covered stays covered.
LEMMA PondiReceive ==
  ASSUME PondiInv, Receive
  PROVE  PondiInv'
<1> USE DEF PondiInv
<1> DEFINE d == Len(held) + 1
<1>0. held \in Seq(1..MaxDocuments) /\ Len(held) \in Nat /\ d \in Nat /\ d <= MaxDocuments
  <2>1. held \in Seq(1..MaxDocuments)
    BY DEF PondiTypeOK
  <2> QED
    BY <2>1, LenProperties DEF Receive
<1>1. UNCHANGED <<paging, kind, at, verdict, offset, page, full, rows, seen, batch, atStart,
                  answer, carried>>
  BY DEF Receive, listing
<1>2. held' = <<d>> \o held \/ held' = Append(held, d)
  BY DEF Receive
<1>3. held' \in Seq(1..MaxDocuments) /\ Len(held') = Len(held) + 1
  <2>1. CASE held' = <<d>> \o held
    BY <2>1, <1>0
  <2>2. CASE held' = Append(held, d)
    BY <2>2, <1>0
  <2> QED
    BY <2>1, <2>2, <1>2
<1>4. Listed(held') = Listed(held) \cup {d}
  BY <1>0, <1>2, PondiListedAppend
<1>5. PondiTypeOK'
  <2>1. page' \in Seq(Listed(held')) /\ rows' \in Seq(Listed(held'))
    <3>1. \A S, T : S \subseteq T => Seq(S) \subseteq Seq(T)
      OBVIOUS
    <3> QED
      BY <3>1, <1>1, <1>4 DEF PondiTypeOK
  <2>2. seen' = Listed(rows')
    BY <1>1 DEF PondiTypeOK, Listed
  <2> QED
    BY <1>1, <1>3, <2>1, <2>2 DEF PondiTypeOK
<1>6. Numbered'
  BY <1>0, <1>1, <1>3, <1>4 DEF Numbered
<1>7. Stages' /\ RowsOnce' /\ HonestVerdict'
  BY <1>1 DEF Stages, RowsOnce, HonestVerdict
<1>8. d \notin atStart
  BY <1>0 DEF Numbered
<1>9. ASSUME NEW n \in Nat, Covered(n) PROVE Covered(n)'
  <2>1. SUFFICES ASSUME NEW i \in 1..Len(held'), i <= n, held'[i] \in atStart
                 PROVE  held'[i] \in seen \cup Listed(page)
    BY <1>1 DEF Covered, Listed
  <2>2. CASE held' = <<d>> \o held
    <3>1. i # 1
      BY <2>1, <2>2, <1>8
    <3>2. i - 1 \in 1..Len(held) /\ i - 1 <= n /\ held'[i] = held[i - 1]
      BY <2>1, <2>2, <3>1, <1>0, <1>3
    <3> QED
      BY <3>2, <2>1, <1>9 DEF Covered
  <2>3. CASE held' = Append(held, d)
    <3>1. i # Len(held) + 1
      BY <2>1, <2>3, <1>8, <1>0
    <3>2. i \in 1..Len(held) /\ held'[i] = held[i]
      BY <2>1, <2>3, <3>1, <1>0, <1>3
    <3> QED
      BY <3>2, <2>1, <1>9 DEF Covered
  <2> QED
    BY <2>2, <2>3, <1>2
<1>10. Coverage'
  <2>1. offset \in Nat /\ offset + PageSize \in Nat
    BY PondiOffset
  <2>2. /\ paging /\ at = "list" => Covered(offset)'
        /\ paging /\ at = "rows" /\ answer = None => Covered(offset + PageSize)'
    BY <2>1, <1>9, <1>1 DEF Coverage, Covered
  <2> QED
    BY <2>2, <1>1 DEF Coverage, Cut, Listed
<1> QED
  BY <1>5, <1>6, <1>7, <1>10

\* A call begins: nothing of its listing is covered, and the offset asks for nothing yet.
LEMMA PondiCall ==
  ASSUME PondiInv, NEW k \in WriteKinds \cup {"fetch", "statuses"}, Call(k)
  PROVE  PondiInv'
<1> USE DEF PondiInv
<1>1. /\ at = "idle" /\ kind' = k /\ at' = IF k \in WriteKinds THEN "write" ELSE "list"
      /\ atStart' = IF k \in WriteKinds THEN {} ELSE Listed(held)
      /\ UNCHANGED <<held, paging, verdict, offset, page, full, rows, seen, batch, answer,
                     carried>>
  BY DEF Call, provider
<1>2. verdict = "none" /\ offset = 0 /\ page = <<>>
  BY <1>1 DEF PondiTypeOK, Stages
<1>3. PondiTypeOK'
  BY <1>1, <1>2 DEF PondiTypeOK, Listed, WriteKinds
<1>4. Numbered' /\ Stages' /\ RowsOnce' /\ HonestVerdict'
  BY <1>1, <1>2 DEF Numbered, Stages, RowsOnce, HonestVerdict, Listed
<1>5. Coverage'
  <2>1. Covered(0)'
    BY DEF Covered
  <2> QED
    BY <1>1, <1>2, <2>1 DEF Coverage
<1> QED
  BY <1>3, <1>4, <1>5

\* What a step that leaves the listing as it is may change: the verdict, once.
LEMMA PondiWrite ==
  ASSUME PondiInv,
         AcceptedWrite \/ RefusedWrite \/ SilentWrite \/ NoId \/ Redirected \/ Scalar
  PROVE  PondiInv'
<1> USE DEF PondiInv
<1>1. /\ at = "write" /\ at' = "done"
      /\ UNCHANGED <<held, paging, kind, listing>>
      /\ carried' \in BOOLEAN
  BY DEF AcceptedWrite, RefusedWrite, SilentWrite, NoId, Redirected, Scalar, Write,
         ReturnVerdict, provider
<1>2. kind \in WriteKinds
  BY <1>1 DEF Stages
<1>3. /\ verdict' \in {"ok", "refused", "ambiguous"}
      /\ answer' \in {"redirect", "scalar", answer}
  BY DEF AcceptedWrite, RefusedWrite, SilentWrite, NoId, Redirected, Scalar,
         ReturnVerdict, Unread
<1>4. HonestVerdict'
  <2>1. \/ verdict' = "ok" /\ carried' /\ answer' # "redirect"
        \/ verdict' = "refused" /\ (carried' <=> answer' = "scalar")
        \/ verdict' = "ambiguous"
        \/ verdict' = "ok" /\ ~carried' /\ answer' = "redirect"
    BY <1>1, PondiNone DEF PondiNone, Stages, AcceptedWrite, RefusedWrite, SilentWrite,
       NoId, Redirected, Scalar, Write, ReturnVerdict, Unread
  <2> QED
    BY <1>1, <2>1 DEF HonestVerdict
<1>5. UNCHANGED <<offset, page, full, rows, seen, batch, atStart>>
  BY <1>1 DEF listing
<1>6. PondiTypeOK'
  BY <1>1, <1>3, <1>5 DEF PondiTypeOK, Listed
<1>7. Numbered' /\ Stages' /\ RowsOnce' /\ Coverage'
  BY <1>1, <1>2, <1>5 DEF Numbered, Stages, RowsOnce, Coverage, Listed
<1> QED
  BY <1>4, <1>6, <1>7

\* The page that an offset asks for covers the next PageSize documents, and everything
\* when it is not full; a provider that ignores the offset sends its first page again,
\* which is the whole list whenever it is not full.
LEMMA PondiGetPage ==
  ASSUME PondiInv, GetPage
  PROVE  PondiInv'
<1> USE DEF PondiInv
<1> DEFINE from == IF paging THEN offset ELSE 0
<1>1. /\ at = "list" /\ page' = Page /\ full' = (Len(Page) >= PageSize)
      /\ at' = IF Page = <<>> THEN "ubl" ELSE "rows"
      /\ UNCHANGED <<held, paging, kind, verdict, offset, rows, seen, batch, atStart,
                     answer, carried>>
  BY DEF GetPage, provider
<1>2. offset \in Nat /\ from \in Nat /\ held \in Seq(1..MaxDocuments) /\ Len(held) \in Nat
  BY PondiOffset, LenProperties DEF PondiTypeOK
<1>3. page = <<>> /\ kind \notin WriteKinds /\ verdict = "none"
  BY <1>1 DEF Coverage, Stages, PondiTypeOK
<1>4. /\ Page \in Seq(Listed(held))
      /\ \A i \in 1..Len(held) :
           from < i /\ i <= from + PageSize => held[i] \in Listed(Page)
      /\ Page = <<>> => Len(held) <= from
      /\ Len(Page) < PageSize => Len(held) < from + PageSize
  BY <1>2, PondiPage
<1>5. Listed(<<>>) = {}
  BY DEF Listed
<1>6. PondiTypeOK'
  <2>1. Listed(held)' = Listed(held) /\ Listed(rows)' = Listed(rows)
    BY <1>1 DEF Listed
  <2>2. at' \in {"ubl", "rows"} /\ full' \in BOOLEAN
    BY <1>1
  <2>3. page' \in Seq(Listed(held))
    BY <1>1, <1>4
  <2> QED
    BY <1>1, <1>3, <2>1, <2>2, <2>3 DEF PondiTypeOK
<1>7. Numbered' /\ Stages' /\ RowsOnce' /\ HonestVerdict'
  BY <1>1, <1>3 DEF Numbered, Stages, RowsOnce, HonestVerdict, Listed
\* Those before the offset were covered by earlier pages, if there is an offset.
<1>8. ASSUME NEW i \in 1..Len(held), i <= from, held[i] \in atStart PROVE held[i] \in seen
  <2>1. paging /\ i <= offset
    BY <1>2, <1>8
  <2> QED
    BY <2>1, <1>1, <1>3, <1>5, <1>8 DEF Coverage, Covered
<1>9. ASSUME NEW i \in 1..Len(held), i <= from + PageSize, held[i] \in atStart
      PROVE  held[i] \in seen \cup Listed(Page)
  BY <1>2, <1>4, <1>8, <1>9
<1>10. \A d \in atStart : \E i \in 1..Len(held) : held[i] = d
  BY DEF Numbered, Listed
<1>11. Len(Page) \in Nat /\ PageSize \in Nat
  BY <1>4, LenProperties, PondiBounds
<1>12. ~full' => atStart \subseteq seen \cup Listed(Page)
  <2>1. SUFFICES ASSUME ~full', NEW d \in atStart PROVE d \in seen \cup Listed(Page)
    OBVIOUS
  <2>2. PICK i \in 1..Len(held) : held[i] = d
    BY <1>10
  <2>3. i <= from + PageSize
    <3>1. ~(Len(Page) >= PageSize)
      BY <1>1, <2>1
    <3>2. Len(held) < from + PageSize
      BY <1>4, <1>11, <3>1
    <3> QED
      BY <1>2, <1>11, <3>2
  <2> QED
    BY <1>9, <2>2, <2>3
<1>13. Page = <<>> => atStart \subseteq seen
  <2>1. SUFFICES ASSUME Page = <<>>, NEW d \in atStart PROVE d \in seen
    OBVIOUS
  <2>2. PICK i \in 1..Len(held) : held[i] = d
    BY <1>10
  <2>3. i <= from
    BY <1>2, <1>4, <2>1
  <2> QED
    BY <1>8, <2>2, <2>3
<1>14. paging => Covered(offset + PageSize)'
  BY <1>1, <1>9 DEF Covered, Listed
<1> HIDE DEF from
<1>15. Listed(page') = Listed(page)'
  BY DEF Listed
<1>16. Coverage'
  <2>1. answer' = None
    BY <1>1 DEF Stages
  <2> QED
    BY <1>1, <1>3, <1>12, <1>13, <1>14, <1>15, <2>1 DEF Coverage
<1> QED
  BY <1>6, <1>7, <1>16

\* A page without one of its items is one of rows that the provider holds, and the answer
\* says that the listing is cut.
LEMMA PondiDropItem ==
  ASSUME PondiInv, DropItem
  PROVE  PondiInv'
<1> USE DEF PondiInv
<1>1. /\ at = "list" /\ full' = FALSE /\ answer' = "dropped item"
      /\ at' \in {"ubl", "rows"}
      /\ UNCHANGED <<held, paging, kind, verdict, offset, rows, seen, batch, atStart,
                     carried>>
  BY DEF DropItem, provider
<1>2. PICK i \in 1..Len(Page) :
        page' = SubSeq(Page, 1, i - 1) \o SubSeq(Page, i + 1, Len(Page))
  BY DEF DropItem
<1>3. kind \notin WriteKinds /\ verdict = "none"
  BY <1>1 DEF Stages, PondiTypeOK
<1>4. page' \in Seq(Listed(held))
  <2>1. offset \in Nat /\ held \in Seq(1..MaxDocuments)
    BY PondiOffset DEF PondiTypeOK
  <2>2. Page \in Seq(Listed(held))
    BY <2>1, PondiPage
  <2>3. Len(Page) \in Nat /\ i \in Nat /\ i >= 1 /\ i <= Len(Page)
    BY <2>2, <1>2, LenProperties
  <2>4. SubSeq(Page, 1, i - 1) \in Seq(Listed(held))
    <3>1. \A j \in 1..(i - 1) : Page[j] \in Listed(held)
      BY <2>2, <2>3, ElementOfSeq
    <3>2. 1 \in Int /\ i - 1 \in Int
      BY <2>3
    <3> QED
      BY <3>1, <3>2, SubSeqProperties
  <2>5. SubSeq(Page, i + 1, Len(Page)) \in Seq(Listed(held))
    <3>1. \A j \in (i + 1)..Len(Page) : Page[j] \in Listed(held)
      BY <2>2, <2>3, ElementOfSeq
    <3>2. i + 1 \in Int /\ Len(Page) \in Int
      BY <2>3
    <3> QED
      BY <3>1, <3>2, SubSeqProperties
  <2> QED
    BY <1>2, <2>4, <2>5, ConcatProperties
<1>5. PondiTypeOK'
  BY <1>1, <1>3, <1>4 DEF PondiTypeOK, Listed
<1>6. Numbered' /\ Stages' /\ RowsOnce' /\ HonestVerdict'
  BY <1>1, <1>3 DEF Numbered, Stages, RowsOnce, HonestVerdict, Listed
<1>7. Coverage'
  BY <1>1, <1>3, PondiNone DEF PondiNone, Coverage, Cut
<1> QED
  BY <1>5, <1>6, <1>7

\* A row taken from the page was on it: what is covered stays so, and no row comes twice.
LEMMA PondiTakeRow ==
  ASSUME PondiInv, TakeRow
  PROVE  PondiInv'
<1> USE DEF PondiInv
<1> DEFINE d == Head(page)
<1>1. /\ at = "rows" /\ page # <<>> /\ page' = Tail(page)
      /\ rows' = IF d \in seen THEN rows ELSE Append(rows, d)
      /\ seen' = seen \cup {d}
      /\ UNCHANGED <<held, paging, kind, at, verdict, offset, full, batch, atStart, answer,
                     carried>>
  BY DEF TakeRow, provider
<1>2. page \in Seq(Listed(held)) /\ rows \in Seq(Listed(held)) /\ seen = Listed(rows)
  BY DEF PondiTypeOK
<1>3. /\ Tail(page) \in Seq(Listed(held)) /\ d \in Listed(held)
      /\ Listed(page) = Listed(Tail(page)) \cup {d}
  BY <1>1, <1>2, PondiListedTail
<1>4. seen \cup Listed(page) = seen' \cup Listed(page)'
  BY <1>1, <1>3 DEF Listed
<1>5. kind \notin WriteKinds /\ verdict = "none"
  BY <1>1 DEF Stages, PondiTypeOK
<1>6. rows' \in Seq(Listed(held)) /\ seen' = Listed(rows)'
  <2>1. CASE d \in seen
    BY <2>1, <1>1, <1>2 DEF Listed
  <2>2. CASE d \notin seen
    <3>1. Listed(Append(rows, d)) = Listed(rows) \cup {d}
      BY <1>2, PondiListedAppend
    <3>2. Append(rows, d) \in Seq(Listed(held))
      BY <1>2, <1>3
    <3> QED
      BY <2>2, <3>1, <3>2, <1>1, <1>2 DEF Listed
  <2> QED
    BY <2>1, <2>2
<1>7. PondiTypeOK'
  <2>1. Listed(held)' = Listed(held)
    BY <1>1 DEF Listed
  <2>2. page' \in Seq(Listed(held))
    BY <1>1, <1>3
  <2> QED
    BY <1>1, <1>6, <2>1, <2>2 DEF PondiTypeOK
<1>8. Numbered' /\ Stages' /\ HonestVerdict'
  BY <1>1, <1>5 DEF Numbered, Stages, HonestVerdict, Listed
<1>9. RowsOnce'
  <2>1. CASE d \in seen
    BY <2>1, <1>1 DEF RowsOnce
  <2>2. CASE d \notin seen
    <3>1. \A i \in 1..Len(rows) : rows[i] # d
      BY <2>2, <1>2 DEF Listed
    <3>2. /\ rows' = Append(rows, d) /\ Len(rows') = Len(rows) + 1 /\ Len(rows) \in Nat
          /\ \A i \in 1..Len(rows) : rows'[i] = rows[i]
          /\ rows'[Len(rows) + 1] = d
      BY <2>2, <1>1, <1>2
    <3>3. ASSUME NEW i \in 1..Len(rows'), NEW j \in 1..Len(rows'), rows'[i] = rows'[j]
          PROVE  i = j
      <4>1. CASE i = Len(rows) + 1 /\ j = Len(rows) + 1
        BY <4>1
      <4>2. CASE i = Len(rows) + 1 /\ j # Len(rows) + 1
        BY <4>2, <3>1, <3>2, <3>3
      <4>3. CASE i # Len(rows) + 1 /\ j = Len(rows) + 1
        BY <4>3, <3>1, <3>2, <3>3
      <4>4. CASE i # Len(rows) + 1 /\ j # Len(rows) + 1
        <5>1. i \in 1..Len(rows) /\ j \in 1..Len(rows)
          BY <4>4, <3>2
        <5> QED
          BY <5>1, <3>2, <3>3 DEF RowsOnce
      <4> QED
        BY <4>1, <4>2, <4>3, <4>4
    <3> QED
      BY <3>3 DEF RowsOnce
  <2> QED
    BY <2>1, <2>2
<1>10. ASSUME NEW n \in Nat, Covered(n) PROVE Covered(n)'
  BY <1>10, <1>1, <1>4 DEF Covered
<1>11. Coverage'
  <2>1. offset + PageSize \in Nat
    BY PondiOffset
  <2>2. paging /\ answer = None => Covered(offset + PageSize)'
    BY <2>1, <1>1, <1>10 DEF Coverage
  <2>3. Cut' = Cut
    BY <1>1 DEF Cut
  <2> QED
    BY <2>2, <2>3, <1>1, <1>4, <1>5 DEF Coverage
<1> QED
  BY <1>7, <1>8, <1>9, <1>11

\* The next page begins where the covered part ends.
LEMMA PondiEndPage ==
  ASSUME PondiInv, EndPage
  PROVE  PondiInv'
<1> USE DEF PondiInv
<1>1. /\ at = "rows" /\ page = <<>>
      /\ offset' = IF full THEN offset + PageSize ELSE offset
      /\ at' = IF ~full \/ offset' > LastOffset THEN "ubl" ELSE "list"
      /\ UNCHANGED <<held, paging, kind, verdict, page, full, rows, seen, batch, atStart,
                     answer, carried>>
  BY DEF EndPage, NextOffset, provider
<1>2. kind \notin WriteKinds /\ verdict = "none"
  BY <1>1 DEF Stages, PondiTypeOK
<1>3. offset \in Nat /\ offset <= LastOffset /\ PageSize \in Nat /\ LastOffset \in Nat
  BY <1>1, PondiOffset, PondiBounds DEF Stages
<1>4. offset' \in 0..(LastOffset + PageSize) /\ (at' = "list" => offset' <= LastOffset)
  BY <1>1, <1>3
<1>5. PondiTypeOK'
  BY <1>1, <1>2, <1>4 DEF PondiTypeOK, Listed
<1>6. Numbered' /\ Stages' /\ RowsOnce' /\ HonestVerdict'
  <2>1. at' = "list" => answer' = None
    BY <1>1 DEF Coverage
  <2> QED
    BY <1>1, <1>2, <1>4, <2>1 DEF Numbered, Stages, RowsOnce, HonestVerdict, Listed
<1>7. Listed(page) = {}
  BY <1>1 DEF Listed
<1>8. at' = "list" /\ paging => Covered(offset)'
  <2>1. SUFFICES ASSUME at' = "list", paging PROVE Covered(offset)'
    OBVIOUS
  <2>2. Covered(offset + PageSize)
    BY <1>1, <2>1 DEF Coverage
  <2>3. offset' = offset + PageSize
    BY <1>1, <2>1
  <2> QED
    BY <1>1, <2>2, <2>3 DEF Covered, Listed
<1>9. at' = "ubl" => atStart \subseteq seen \/ Cut'
  <2>1. CASE full
    BY <2>1, <1>1 DEF Cut
  <2>2. CASE ~full
    <3>1. Cut' = Cut
      BY <2>2, <1>1 DEF Cut
    <3> QED
      BY <2>2, <3>1, <1>1, <1>7 DEF Coverage
  <2> QED
    BY <2>1, <2>2
<1>10. Coverage'
  BY <1>1, <1>2, <1>8, <1>9 DEF Coverage
<1> QED
  BY <1>5, <1>6, <1>10

\* The listing is over: what is returned was covered, or the answer says why not.
LEMMA PondiEnd ==
  ASSUME PondiInv, NoList \/ Failed \/ Done \/ FetchUbl
  PROVE  PondiInv'
<1> USE DEF PondiInv
<1>1. /\ at \in {"list", "ubl"} /\ kind \notin WriteKinds
      /\ UNCHANGED <<held, paging, kind, offset, page, full, rows, seen, atStart, carried>>
  BY DEF NoList, Failed, Done, FetchUbl, listing, provider, Stages
<1>2. verdict = "none"
  BY <1>1 DEF PondiTypeOK
<1>3. \/ at = "list" /\ at' = "ubl" /\ answer' = "no list" /\ verdict' = verdict
      \/ at' = "done" /\ verdict' = "failed" /\ answer' = answer
      \/ at = "ubl" /\ at' = "done" /\ verdict' = "ok" /\ answer' = answer
      \/ at' = at /\ verdict' = verdict /\ answer' = answer
  BY DEF NoList, Failed, Done, FetchUbl, ReturnVerdict
<1>4. PondiTypeOK'
  BY <1>1, <1>2, <1>3 DEF PondiTypeOK, Listed
<1>5. Numbered' /\ Stages' /\ RowsOnce' /\ HonestVerdict'
  BY <1>1, <1>2, <1>3 DEF Numbered, Stages, RowsOnce, HonestVerdict, Listed
<1>6. Covered(offset) => Covered(offset)'
  BY <1>1 DEF Covered, Listed
<1>7. at' # "rows"
  BY <1>1, <1>3
<1>8. Coverage'
  BY <1>1, <1>2, <1>3, <1>6, <1>7 DEF Coverage, Cut
<1> QED
  BY <1>4, <1>5, <1>8

\* Every step preserves the inductive invariant.
LEMMA PondiStep == PondiInv /\ [PondiNext]_pondiVars => PondiInv'
<1>1. SUFFICES ASSUME PondiInv, [PondiNext]_pondiVars PROVE PondiInv'
  OBVIOUS
<1>2. CASE Receive
  BY <1>1, <1>2, PondiReceive
<1>3. CASE \E k \in WriteKinds \cup {"fetch", "statuses"} : Call(k)
  BY <1>1, <1>3, PondiCall
<1>4. CASE AcceptedWrite \/ RefusedWrite \/ SilentWrite \/ NoId \/ Redirected \/ Scalar
  BY <1>1, <1>4, PondiWrite
<1>5. CASE GetPage
  BY <1>1, <1>5, PondiGetPage
<1>6. CASE TakeRow
  BY <1>1, <1>6, PondiTakeRow
<1>7. CASE EndPage
  BY <1>1, <1>7, PondiEndPage
<1>10. CASE DropItem
  BY <1>1, <1>10, PondiDropItem
<1>8. CASE NoList \/ Failed \/ Done \/ FetchUbl
  BY <1>1, <1>8, PondiEnd
<1>9. CASE UNCHANGED pondiVars
  <2>1. UNCHANGED <<held, paging, kind, at, verdict, offset, page, full, rows, seen, batch,
                    atStart, answer, carried>>
    BY <1>9 DEF pondiVars, provider, listing
  <2>2. PondiTypeOK'
    BY <1>1, <2>1 DEF PondiInv, PondiTypeOK, Listed
  <2>3. Numbered' /\ Stages' /\ RowsOnce' /\ HonestVerdict'
    BY <1>1, <2>1 DEF PondiInv, Numbered, Stages, RowsOnce, HonestVerdict, Listed
  <2>4. Coverage'
    BY <1>1, <2>1 DEF PondiInv, Coverage, Covered, Cut, Listed
  <2> QED
    BY <2>2, <2>3, <2>4 DEF PondiInv
<1> QED
  BY <1>1, <1>2, <1>3, <1>4, <1>5, <1>6, <1>7, <1>8, <1>9, <1>10 DEF PondiNext, Exchange

\* The inductive invariant of the Pondi client.
THEOREM PondiInvariance == PondiSpec => []PondiInv
BY PondiInvInit, PondiStep, PTL DEF PondiSpec

\* Types; every document seen is a row (_list_pages).
THEOREM PondiTypes == PondiSpec => []PondiTypeOK
<1>1. PondiInv => PondiTypeOK
  BY DEF PondiInv
<1> QED
  BY <1>1, PondiInvariance, PTL

\* What a write of the Pondi client returns is true, but for a redirect that reads like a
\* success and a bare JSON value (_request and the methods that read its answer).
THEOREM PondiResultsAreHonest == PondiSpec => []HonestVerdict
<1>1. PondiInv => HonestVerdict
  BY DEF PondiInv
<1> QED
  BY <1>1, PondiInvariance, PTL

\* For any page size, last offset and number of documents that arrive meanwhile, a listing
\* returns no document twice and leaves out none that was there (_list_pages).
THEOREM PondiListingIsExact == PondiSpec => []ListingExact
<1>1. PondiInv => ListingExact
  <2>1. SUFFICES ASSUME PondiInv PROVE ListingExact
    OBVIOUS
  <2>2. seen = Listed(rows)
    BY <2>1 DEF PondiInv, PondiTypeOK
  <2> QED
    BY <2>1, <2>2 DEF PondiInv, RowsOnce, Coverage, ListingExact
<1> QED
  BY <1>1, PondiInvariance, PTL
=============================================================================
