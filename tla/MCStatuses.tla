----------------------------- MODULE MCStatuses -----------------------------
(* A small instance of Statuses.                                            *)
EXTENDS Statuses

\* For a sent invoice codes that share an axis and differ on another, one that means what
\* a document starts with (10 at Super), one that is in no table (77).
MCCodes ==
  [INBOUND  |-> [SUPER |-> {10, 77}, PONDI |-> {4}],
   OUTBOUND |-> [SUPER |-> {10, 60, 110}, PONDI |-> {6, 77}]]
=============================================================================
