---------------------------- MODULE SuperClient ----------------------------
(***************************************************************************)
(* Calls to the Super API: SuperHttpClient with its retries, and the token *)
(* cache that the request threads of a process share.  One credential;     *)
(* credentials share nothing.                                              *)
(*                                                                         *)
(* What Dispatch takes for granted of a provider call is shown here, and   *)
(* where it does not hold: a refusal was not processed, a write that is    *)
(* sent again was not processed the first time, and a success was, unless  *)
(* its answer is a redirect that the client reads as a success.  It rests  *)
(* on what the client itself relies on: Super does not process a request   *)
(* whose connection was never made, or that it answers with a 4xx, a       *)
(* redirect or ErrorMessage.                                               *)
(***************************************************************************)
EXTENDS Naturals, FiniteSets

CONSTANTS
  Threads,      \* request threads, one call each
  Writes,       \* those whose call is a write (send, payment, rejection)
  MaxRetries,   \* super_read_429_max_retries
  MaxExpiries,  \* bound: times the cached token runs out
  NoThread

ASSUME ClientAssumption ==
  /\ Writes \subseteq Threads /\ IsFiniteSet(Threads)
  /\ NoThread \notin Threads
  /\ MaxRetries \in Nat /\ MaxExpiries \in Nat

VARIABLES
  cached,     \* the cache holds a token that has not run out
  lock,       \* the holder of the credential's refresh lock
  pc,
  retried,    \* the once-only retries spent on the call: "401", "connect"
  busy,       \* retried_429 of the call
  tokenRetried, tokenBusy,  \* the same for the token request under way
  result,
  requests,   \* history: requests sent for the call
  processed,  \* history: how many of them the provider carried out
  redirected, \* history: the calls that ended with an object in a redirect
  issued,     \* history: tokens issued
  dropped     \* history: times a thread cleared the cache, or the token ran out

callVars  == <<pc, retried, busy, result, requests, processed, redirected>>
tokenVars == <<cached, lock, tokenRetried, tokenBusy, issued, dropped>>
vars == <<callVars, tokenVars>>

Steps   == {"idle", "token", "fetch", "send", "done"}
Results == {"none", "ok", "refused", "ambiguous"}

MaxRequests == 3 * (MaxRetries + 1)

Init ==
  /\ cached = FALSE
  /\ lock = NoThread
  /\ pc = [t \in Threads |-> "idle"]
  /\ retried = [t \in Threads |-> {}]
  /\ busy = [t \in Threads |-> 0]
  /\ tokenRetried = FALSE
  /\ tokenBusy = 0
  /\ result = [t \in Threads |-> "none"]
  /\ requests = [t \in Threads |-> 0]
  /\ processed = [t \in Threads |-> 0]
  /\ redirected = {}
  /\ issued = 0
  /\ dropped = 0

Goto(t, step) == pc' = [pc EXCEPT ![t] = step]

Return(t, r) == Goto(t, "done") /\ result' = [result EXCEPT ![t] = r]

Post(t) ==
  /\ pc[t] = "idle"
  /\ Goto(t, "token")
  /\ UNCHANGED <<retried, busy, result, requests, processed, redirected,
                 tokenVars>>

----
(* _token: the cache is looked at, and filled, under the refresh lock.      *)

CachedToken(t) ==
  /\ pc[t] = "token"
  /\ lock = NoThread
  /\ cached
  /\ Goto(t, "send")
  /\ UNCHANGED <<retried, busy, result, requests, processed, redirected,
                 tokenVars>>

\* Mutant: whoever waited for the lock fetches without looking again.
RequestTokenAnyway(t) ==
  /\ pc[t] = "token"
  /\ lock = NoThread
  /\ lock' = t
  /\ tokenRetried' = FALSE /\ tokenBusy' = 0
  /\ Goto(t, "fetch")
  /\ UNCHANGED <<retried, busy, result, requests, processed, redirected, cached, issued,
                 dropped>>

RequestToken(t) ==
  /\ pc[t] = "token"
  /\ lock = NoThread
  /\ ~cached
  /\ lock' = t
  /\ tokenRetried' = FALSE /\ tokenBusy' = 0
  /\ Goto(t, "fetch")
  /\ UNCHANGED <<retried, busy, result, requests, processed, redirected, cached, issued,
                 dropped>>

TokenGranted(t) ==
  /\ pc[t] = "fetch"
  /\ cached' = TRUE
  /\ lock' = NoThread
  /\ issued' = issued + 1
  /\ Goto(t, "send")
  /\ UNCHANGED <<retried, busy, result, requests, processed, redirected, tokenRetried,
                 tokenBusy, dropped>>

\* A connect timeout is tried once more; a 429 up to MaxRetries times, with the lock
\* held while the thread sleeps.
TokenAgain(t) ==
  /\ pc[t] = "fetch"
  /\ \/ ~tokenRetried /\ tokenRetried' = TRUE /\ tokenBusy' = 0
     \/ tokenBusy < MaxRetries /\ tokenBusy' = tokenBusy + 1 /\ UNCHANGED tokenRetried
  /\ UNCHANGED <<callVars, cached, lock, issued, dropped>>

\* Mutant: an error leaves the refresh lock taken.
TokenErrorLocked(t) ==
  /\ pc[t] = "fetch"
  /\ Return(t, "refused")
  /\ UNCHANGED <<retried, busy, requests, processed, redirected, tokenVars>>

\* Anything else ends the call.  Without a token nothing was sent, so the error is
\* never ambiguous, for a write either.
TokenError(t) ==
  /\ pc[t] = "fetch"
  /\ lock' = NoThread
  /\ Return(t, "refused")
  /\ UNCHANGED <<retried, busy, requests, processed, redirected, cached, tokenRetried,
                 tokenBusy, issued, dropped>>

----
(* _request: the answers to the call.                                      *)

Sent(t) ==
  /\ pc[t] = "send"
  /\ requests' = [requests EXCEPT ![t] = @ + 1]

Took(t, took) ==
  /\ processed' = [processed EXCEPT ![t] = IF took THEN @ + 1 ELSE @]
  /\ UNCHANGED redirected

\* 2xx with an object (and the guid, for a send).
Accepted(t) ==
  /\ Sent(t) /\ Took(t, TRUE)
  /\ Return(t, "ok")
  /\ UNCHANGED <<retried, busy, tokenVars>>

\* A redirect to the same host, or to nowhere, is not followed and is no error: with an
\* object in it (and the guid, for a send) it is an answer like any other.
RedirectAccepted(t) ==
  /\ Sent(t) /\ UNCHANGED processed
  /\ redirected' = redirected \cup {t}
  /\ Return(t, "ok")
  /\ UNCHANGED <<retried, busy, tokenVars>>

\* 4xx, a redirect to another host, ErrorMessage in a redirect or not.
Refused(t) ==
  /\ Sent(t) /\ Took(t, FALSE)
  /\ Return(t, "refused")
  /\ UNCHANGED <<retried, busy, tokenVars>>

\* Mutant: a timeout is an error like any other.
VerdictRefused(t) == "refused"

\* What an answer that says nothing means for the call.
Verdict(t) == IF t \in Writes THEN "ambiguous" ELSE "refused"

\* Read or write timeout, disconnection, 5xx, an answer too large or not an object,
\* a send without guid, those of a redirect among them: never tried again.
Silent(t) ==
  /\ Sent(t) /\ \E took \in BOOLEAN : Took(t, took)
  /\ Return(t, Verdict(t))
  /\ UNCHANGED <<retried, busy, tokenVars>>

\* The retries of _request call it anew: only 429 keeps its own count.
Again(t, why) ==
  /\ retried' = [retried EXCEPT ![t] = @ \cup why]
  /\ busy' = [busy EXCEPT ![t] = IF why = {} THEN @ + 1 ELSE 0]
  /\ Goto(t, "token")
  /\ UNCHANGED result

\* Mutant: every timeout is tried once more, not only that of the connection.
UnconnectedOrSilent(t) ==
  /\ Sent(t) /\ \E took \in BOOLEAN : Took(t, took)
  /\ IF "connect" \notin retried[t]
     THEN Again(t, {"connect"})
     ELSE Return(t, Verdict(t)) /\ UNCHANGED <<retried, busy>>
  /\ UNCHANGED tokenVars

\* A connect timeout.
Unconnected(t) ==
  /\ Sent(t) /\ Took(t, FALSE)
  /\ IF "connect" \notin retried[t]
     THEN Again(t, {"connect"})
     ELSE Return(t, Verdict(t)) /\ UNCHANGED <<retried, busy>>
  /\ UNCHANGED tokenVars

\* Mutant: 401 is always followed by a new token and another try.
UnauthorizedAlways(t) ==
  /\ Sent(t) /\ Took(t, FALSE)
  /\ requests[t] <= MaxRequests
  /\ Again(t, {"401"})
  /\ cached' = FALSE
  /\ dropped' = dropped + (IF cached THEN 1 ELSE 0)
  /\ UNCHANGED <<lock, tokenRetried, tokenBusy, issued>>

\* The first 401 of a call clears the cache, without the lock and whatever token is in
\* it by now.  The second one is a refusal.
Unauthorized(t) ==
  /\ Sent(t) /\ Took(t, FALSE)
  /\ IF "401" \notin retried[t]
     THEN /\ Again(t, {"401"})
          /\ cached' = FALSE
          /\ dropped' = dropped + (IF cached THEN 1 ELSE 0)
     ELSE /\ Return(t, "refused")
          /\ UNCHANGED <<retried, busy, cached, dropped>>
  /\ UNCHANGED <<lock, tokenRetried, tokenBusy, issued>>

\* 429: a read sleeps and tries again, a write is given up as ambiguous.
Busy(t) ==
  /\ Sent(t) /\ \E took \in BOOLEAN : Took(t, took /\ t \in Writes)
  /\ IF t \notin Writes /\ busy[t] < MaxRetries
     THEN Again(t, {})
     ELSE Return(t, Verdict(t)) /\ UNCHANGED <<retried, busy>>
  /\ UNCHANGED tokenVars

Expire ==
  /\ cached
  /\ dropped < MaxExpiries
  /\ cached' = FALSE
  /\ dropped' = dropped + 1
  /\ UNCHANGED <<callVars, lock, tokenRetried, tokenBusy, issued>>

Request(t) ==
  \/ CachedToken(t) \/ RequestToken(t) \/ TokenGranted(t) \/ TokenAgain(t) \/ TokenError(t)
  \/ Accepted(t) \/ RedirectAccepted(t)
  \/ Refused(t) \/ Silent(t) \/ Unconnected(t) \/ Unauthorized(t) \/ Busy(t)

Next == Expire \/ \E t \in Threads : Post(t) \/ Request(t)

Spec == Init /\ [][Next]_vars

\* Every request is answered or times out.
FairSpec == Spec /\ \A t \in Threads : SF_vars(Request(t))

----
(* Properties.                                                             *)

\* Types; the refresh lock is held by the thread that fetches the token, and only by it.
TypeOK ==
  /\ cached \in BOOLEAN
  /\ lock \in Threads \cup {NoThread}
  /\ pc \in [Threads -> Steps]
  /\ \A t \in Threads : lock = t <=> pc[t] = "fetch"
  /\ retried \in [Threads -> SUBSET {"401", "connect"}]
  /\ busy \in [Threads -> 0..MaxRetries]
  /\ tokenRetried \in BOOLEAN
  /\ tokenBusy \in 0..MaxRetries
  /\ result \in [Threads -> Results]
  /\ \A t \in Threads : result[t] # "none" <=> pc[t] = "done"
  /\ requests \in [Threads -> Nat] /\ processed \in [Threads -> Nat]
  /\ redirected \subseteq Threads
  /\ issued \in Nat /\ dropped \in Nat

\* Though a write is sent up to three times, the provider carries it out at most once.
WriteOnce == \A t \in Writes : processed[t] <= 1

\* What Dispatch relies on, and where it cannot: a success was carried out exactly when
\* its answer was no redirect, a refusal was not, and where the client cannot tell, it
\* says so.
HonestResult ==
  \A t \in Writes :
    /\ result[t] = "ok" => processed[t] = IF t \in redirected THEN 0 ELSE 1
    /\ result[t] = "refused" => processed[t] = 0

\* The retries together are bounded: three requests for a write; for a read three times
\* MaxRetries + 1, since a 401 or a connect timeout starts the count of 429 again.
RequestsBounded ==
  \A t \in Threads : requests[t] <= IF t \in Writes THEN 3 ELSE MaxRequests

\* One token serves all threads: another is fetched only after one ran out or was
\* dropped because of a 401.
TokensAccounted == issued <= 1 + dropped

\* Every call returns, though a token request under the lock may sleep.
Returns == \A t \in Threads : pc[t] = "token" ~> pc[t] = "done"
=============================================================================
