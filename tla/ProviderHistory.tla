-------------------------- MODULE ProviderHistory --------------------------
(***************************************************************************)
(* What the outbound provider of a taxpayer promises, without threads and  *)
(* locks: its rows are a list that only grows, the last row alone counts,  *)
(* a new document is put on the last row once, with that row's account, a  *)
(* copy of an old one on any row or none, with the account it was found    *)
(* in, and whatever happens afterwards a call uses the document's account. *)
(***************************************************************************)
EXTENDS Naturals, Sequences

CONSTANTS Documents, Refs, Accounts, None

VARIABLES
  rows,      \* the rows in order, as they were written
  status,    \* the status of the last one
  position,  \* documents: the row each is on, 0 before
  account,   \* documents: the account each was given, None before or when left open
  used       \* documents: the accounts each was sent with
vars == <<rows, status, position, account, used>>

Row == [ref : Refs \cup {None}, account : Accounts \cup {None}]

Init ==
  /\ rows = <<>>
  /\ status = "ABSENT"
  /\ position = [d \in Documents |-> 0]
  /\ account = [d \in Documents |-> None]
  /\ used = [d \in Documents |-> {}]

LastAccount == IF rows = <<>> THEN None ELSE rows[Len(rows)].account

\* A provider that is in use has a reference; one that is taken out of use keeps the
\* account it had.
Put(row, s) ==
  /\ s = "CONFIGURED" => row.ref # None
  /\ s = "DISABLED" => row.account = LastAccount
  /\ rows' = Append(rows, row)
  /\ status' = s
  /\ UNCHANGED <<position, account, used>>

\* A new document; a row without an account leaves the account open.
Stamp(d) ==
  /\ status = "CONFIGURED"
  /\ position[d] = 0 /\ account[d] = None
  /\ position' = [position EXCEPT ![d] = Len(rows)]
  /\ account' = [account EXCEPT ![d] = LastAccount]
  /\ UNCHANGED <<rows, status, used>>

\* A copy: the row may be superseded, out of use or missing.
File(d, p, a) ==
  /\ position[d] = 0 /\ account[d] = None
  /\ position' = [position EXCEPT ![d] = p]
  /\ account' = [account EXCEPT ![d] = a]
  /\ UNCHANGED <<rows, status, used>>

Call(d, a) ==
  /\ position[d] # 0
  /\ account[d] \in {None, a}
  /\ used' = [used EXCEPT ![d] = @ \cup {a}]
  /\ UNCHANGED <<rows, status, position, account>>

Next ==
  \/ \E row \in Row, s \in {"CONFIGURED", "DISABLED"} : Put(row, s)
  \/ \E d \in Documents : Stamp(d) \/ \E a \in Accounts : Call(d, a)
  \/ \E d \in Documents, p \in 0..Len(rows), a \in Accounts : File(d, p, a)

Spec == Init /\ [][Next]_vars
=============================================================================
