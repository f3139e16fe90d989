---------------------------- MODULE PondiClient ----------------------------
(***************************************************************************)
(* One call to the Pondi API: PondiHttpClient, an object per call.  A      *)
(* write is sent once, and its verdict is read off the one answer.  A      *)
(* listing is a request per page, an offset further each, while the        *)
(* provider goes on receiving documents; then the UBL of each row is       *)
(* fetched.                                                                *)
(*                                                                         *)
(* What the provider lists, and how it answers, is the environment: it may *)
(* list new documents first or last, and ignore the offset.  It does not   *)
(* carry out a request that it answers with a redirect or a 4xx.           *)
(*                                                                         *)
(* The names do not meet those of SuperClient: ClientProofs extends both.  *)
(***************************************************************************)
EXTENDS Naturals, Sequences

CONSTANTS
  MaxDocuments,  \* bound: those the provider receives
  PageSize,      \* limit
  LastOffset,    \* 50_000: no page is asked for beyond it
  None

ASSUME PondiAssumption ==
  /\ PageSize \in Nat \ {0}
  /\ {MaxDocuments, LastOffset} \subseteq Nat

ASSUME PondiNone == None \notin {"redirect", "scalar", "no list", "dropped item"}

WriteKinds == {"send", "change_status", "reject"}

\* The documents of a list.
Listed(list) == {list[i] : i \in 1..Len(list)}

VARIABLES
  held,     \* the documents the provider has received, in the order it lists them
  paging,   \* it heeds the offset
  kind,     \* of the call
  at,       \* how far it is
  verdict,  \* what it returned
  offset, page, rows, seen,  \* of _list_pages; page is what is left of it to look at
  full,     \* len(page) is not less than page_size
  batch,    \* the rows done, with their UBL or without
  answer,   \* history: the answer that is not what its kind should be
  carried,  \* history: the provider carried the write out
  atStart   \* history: the documents it held when the listing began

provider == <<held, paging>>
listing  == <<offset, page, full, rows, seen, batch, atStart>>
pondiVars == <<provider, kind, at, verdict, listing, answer, carried>>

PondiInit ==
  /\ held = <<>>
  /\ paging \in BOOLEAN
  /\ kind = None
  /\ at = "idle"
  /\ verdict = "none"
  /\ offset = 0 /\ page = <<>> /\ full = FALSE
  /\ rows = <<>> /\ seen = {} /\ batch = <<>>
  /\ answer = None
  /\ carried = FALSE
  /\ atStart = {}

\* A document is sent or arrives at the provider: they are numbered as they come.
Receive ==
  LET d == Len(held) + 1 IN
  /\ d <= MaxDocuments
  /\ held' \in {<<d>> \o held, Append(held, d)}
  /\ UNCHANGED <<paging, kind, at, verdict, listing, answer, carried>>

Call(k) ==
  /\ at = "idle"
  /\ kind' = k
  /\ at' = IF k \in WriteKinds THEN "write" ELSE "list"
  /\ atStart' = IF k \in WriteKinds THEN {} ELSE Listed(held)
  /\ UNCHANGED <<provider, verdict, offset, page, full, rows, seen, batch, answer, carried>>

ReturnVerdict(v) == at' = "done" /\ verdict' = v

----
(* send_document, change_status, reject_document: the one answer.          *)

Write(took) == at = "write" /\ carried' = took /\ UNCHANGED <<provider, kind, listing>>

\* 2xx with an object, of a send with the id.
AcceptedWrite == Write(TRUE) /\ ReturnVerdict("ok") /\ UNCHANGED answer

\* 4xx, or a redirect with a bare JSON value.
RefusedWrite == Write(FALSE) /\ ReturnVerdict("refused") /\ UNCHANGED answer

\* Mutant: a timeout is an error like any other.
SilentRefused ==
  /\ \E took \in BOOLEAN : Write(took)
  /\ ReturnVerdict("refused")
  /\ UNCHANGED answer

\* Timeout, disconnection, 5xx, an answer that is not JSON: never sent again.
SilentWrite ==
  /\ \E took \in BOOLEAN : Write(took)
  /\ ReturnVerdict("ambiguous")
  /\ UNCHANGED answer

\* No body, an object without id, a list: only a send looks at what it got.
Unread(k) == IF k = "send" THEN "ambiguous" ELSE "ok"

NoId == Write(TRUE) /\ ReturnVerdict(Unread(kind)) /\ UNCHANGED answer

\* A redirect is not followed, and it is no error: its body, if any, is the answer, of a
\* send too when an object with an id is in it.
Redirected ==
  /\ Write(FALSE)
  /\ \E v \in {"ok", Unread(kind)} : ReturnVerdict(v)
  /\ answer' = "redirect"

\* 2xx with a JSON string, number or null: an error, and a definite one.
Scalar == Write(TRUE) /\ ReturnVerdict("refused") /\ answer' = "scalar"

----
(* _list_pages                                                             *)

Page == LET from == IF paging THEN offset ELSE 0 IN
  SubSeq(held, from + 1, IF from + PageSize < Len(held) THEN from + PageSize ELSE Len(held))

\* The answer to a GET.  An empty page ends the listing.
GetPage ==
  /\ at = "list"
  /\ page' = Page
  /\ full' = (Len(Page) >= PageSize)
  /\ at' = IF Page = <<>> THEN "ubl" ELSE "rows"
  /\ UNCHANGED <<provider, kind, verdict, offset, rows, seen, batch, atStart, answer,
                 carried>>

\* _as_list drops an item that is no object before the length of the page is looked at:
\* a full page is then not full any more, and the last one.
DropItem ==
  /\ at = "list"
  /\ \E i \in 1..Len(Page) :
       page' = SubSeq(Page, 1, i - 1) \o SubSeq(Page, i + 1, Len(Page))
  /\ full' = FALSE
  /\ at' = IF Len(Page) = 1 THEN "ubl" ELSE "rows"
  /\ answer' = "dropped item"
  /\ UNCHANGED <<provider, kind, verdict, offset, rows, seen, batch, atStart, carried>>

\* Mutant: a row that was on an earlier page is taken again.
TakeRowAgain ==
  /\ at = "rows" /\ page # <<>>
  /\ page' = Tail(page)
  /\ rows' = Append(rows, Head(page))
  /\ seen' = seen \cup {Head(page)}
  /\ UNCHANGED <<provider, kind, at, verdict, offset, full, batch, atStart, answer,
                 carried>>

\* A row of the page, unless it was on one before.
TakeRow ==
  LET d == Head(page) IN
  /\ at = "rows" /\ page # <<>>
  /\ page' = Tail(page)
  /\ rows' = IF d \in seen THEN rows ELSE Append(rows, d)
  /\ seen' = seen \cup {d}
  /\ UNCHANGED <<provider, kind, at, verdict, offset, full, batch, atStart, answer,
                 carried>>

\* Mutant: the offset is the number of rows so far.
OffsetOfRows == Len(rows)

NextOffset == offset + PageSize

\* A page that is not full is the last one, and none is asked for beyond LastOffset.
EndPage ==
  /\ at = "rows" /\ page = <<>>
  /\ offset' = IF full THEN NextOffset ELSE offset
  /\ at' = IF ~full \/ offset' > LastOffset THEN "ubl" ELSE "list"
  /\ UNCHANGED <<provider, kind, verdict, page, full, rows, seen, batch, atStart,
                 answer, carried>>

\* A redirect, no body, an object without a list: the listing ends, and it is no error.
NoList ==
  /\ at = "list"
  /\ at' = "ubl"
  /\ answer' = "no list"
  /\ UNCHANGED <<provider, kind, verdict, listing, carried>>

\* Any error: the whole listing is lost, also when it is the UBL that is not an object.
Failed ==
  /\ at \in {"list", "ubl"}
  /\ ReturnVerdict("failed")
  /\ UNCHANGED <<provider, kind, listing, answer, carried>>

\* _fetch_with_ubl: a row whose UBL cannot be had stays, without it.
FetchUbl ==
  /\ at = "ubl" /\ kind = "fetch"
  /\ Len(batch) < Len(rows)
  /\ \E ubl \in BOOLEAN : batch' = Append(batch, <<rows[Len(batch) + 1], ubl>>)
  /\ UNCHANGED <<provider, kind, at, verdict, offset, page, full, rows, seen, atStart,
                 answer, carried>>

\* list_outbound_statuses has no use for the UBL.
Done ==
  /\ at = "ubl"
  /\ kind = "fetch" => Len(batch) = Len(rows)
  /\ ReturnVerdict("ok")
  /\ UNCHANGED <<provider, kind, listing, answer, carried>>

Exchange ==
  \/ AcceptedWrite \/ RefusedWrite \/ SilentWrite \/ NoId \/ Redirected \/ Scalar
  \/ GetPage \/ TakeRow \/ EndPage \/ FetchUbl \/ Done

PondiNext ==
  \/ Receive
  \/ \E k \in WriteKinds \cup {"fetch", "statuses"} : Call(k)
  \/ Exchange \/ DropItem \/ NoList \/ Failed

PondiSpec == PondiInit /\ [][PondiNext]_pondiVars

\* Every request is answered or times out; no listing counts on a failure to end.
PondiFairSpec == PondiSpec /\ WF_pondiVars(Exchange)

----
(* Properties.                                                             *)

\* The listing was cut: by a page without list or with something else in it than objects,
\* or by the last offset.
Cut == answer \in {"no list", "dropped item"} \/ offset > LastOffset

\* Types; the rows are documents that the provider held, and every row of a page that
\* was looked at is among them.
PondiTypeOK ==
  /\ held \in Seq(1..MaxDocuments)
  /\ paging \in BOOLEAN
  /\ kind \in WriteKinds \cup {"fetch", "statuses", None}
  /\ at \in {"idle", "write", "list", "rows", "ubl", "done"}
  /\ verdict \in {"none", "ok", "refused", "ambiguous", "failed"}
  /\ verdict # "none" <=> at = "done"
  /\ page \in Seq(Listed(held)) /\ rows \in Seq(Listed(held))
  /\ seen = Listed(rows)
  /\ offset \in 0..(LastOffset + PageSize)
  /\ full \in BOOLEAN
  /\ answer \in {"redirect", "scalar", "no list", "dropped item", None}
  /\ carried \in BOOLEAN

\* What Dispatch relies on, and where it cannot: a success was carried out and a refusal
\* was not, but for a write that is answered by a redirect, and one that is answered by a
\* bare JSON value.
HonestVerdict ==
  /\ kind \in WriteKinds /\ verdict = "ok" => (carried <=> answer # "redirect")
  /\ kind \in WriteKinds /\ verdict = "refused" => (carried <=> answer = "scalar")

\* A listing returns no document twice, and when it ends every one that the provider
\* held when it began, wherever those that arrive meanwhile are put; or it was cut.
ListingExact ==
  /\ \A i, j \in 1..Len(rows) : rows[i] = rows[j] => i = j
  /\ kind \notin WriteKinds /\ verdict = "ok" => atStart \subseteq Listed(rows) \/ Cut

\* A call ends, also when the provider sends the same full page for every offset.
CallEnds == at # "idle" ~> at = "done"
=============================================================================
