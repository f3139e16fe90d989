------------------------------ MODULE Delivery ------------------------------
(***************************************************************************)
(* What the gateway promises of a provider write: the message is handed    *)
(* over at most once, and a result that is reported is the true one and    *)
(* final.  A write may be given up as UNKNOWN at any time, even while it   *)
(* is under way, and UNKNOWN is the one report that may still be replaced. *)
(***************************************************************************)
CONSTANT Attempts

VARIABLES stage, taken, report
vars == <<stage, taken, report>>

Stages  == {"none", "queued", "handed"}
Reports == {"open", "COMPLETED", "FAILED", "REQUIRES_REVIEW", "UNKNOWN"}

Init ==
  /\ stage = [a \in Attempts |-> "none"]
  /\ taken = [a \in Attempts |-> FALSE]
  /\ report = [a \in Attempts |-> "open"]

Undecided(a) == report[a] \in {"open", "UNKNOWN"}

Create(a) ==
  /\ stage[a] = "none"
  /\ stage' = [stage EXCEPT ![a] = "queued"]
  /\ UNCHANGED <<taken, report>>

Hand(a) ==
  /\ stage[a] = "queued" /\ Undecided(a)
  /\ stage' = [stage EXCEPT ![a] = "handed"]
  /\ \E took \in BOOLEAN : taken' = [taken EXCEPT ![a] = took]
  /\ UNCHANGED report

Report(a, r) ==
  /\ stage[a] # "none" /\ Undecided(a)
  /\ r = "COMPLETED" => taken[a]
  /\ r = "FAILED" => stage[a] = "handed" /\ ~taken[a]
  /\ report' = [report EXCEPT ![a] = r]
  /\ UNCHANGED <<stage, taken>>

Next ==
  \E a \in Attempts :
    Create(a) \/ Hand(a) \/ \E r \in Reports \ {"open"} : Report(a, r)

Spec == Init /\ [][Next]_vars
=============================================================================
