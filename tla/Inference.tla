------------------------------ MODULE Inference ------------------------------
(***************************************************************************)
(* Inference.complete of review/provider.py: one call for a completion,    *)
(* tried on each configured provider in turn.  A provider that is rate     *)
(* limited for a short while is waited for, a few times; one that is       *)
(* limited for longer, or fails, is left for good, and when all are left   *)
(* the call is unavailable.  A job makes its calls one after another.      *)
(***************************************************************************)
EXTENDS Integers, Sequences

CONSTANTS
  NClients,   \* configured providers, in failover order
  MaxWaits    \* MAX_WAITS_PER_PROVIDER

ASSUME ClientsAssumption == NClients \in Nat \ {0} /\ MaxWaits \in Nat

VARIABLES
  status,     \* what the current call has come to
  client,     \* the provider being tried
  waits,      \* how often this provider was waited for
  failures,   \* how each provider left behind failed
  allLimited  \* every_failure_was_a_rate_limit

callVars == <<status, client, waits, failures, allLimited>>

CallTypeOK ==
  /\ status \in {"idle", "trying", "answered", "unavailable"}
  /\ client \in 1 .. NClients
  /\ waits \in 0 .. MaxWaits
  /\ failures \in Seq({"limited", "error"})
  /\ allLimited \in BOOLEAN

CallInit ==
  /\ status = "idle"
  /\ client = 1
  /\ waits = 0
  /\ failures = <<>>
  /\ allLimited = TRUE

-----------------------------------------------------------------------------
Complete ==
  /\ status' = "trying"
  /\ client' = 1
  /\ waits' = 0
  /\ failures' = <<>>
  /\ allLimited' = TRUE

ProviderAnswers ==
  /\ status = "trying"
  /\ status' = "answered"
  /\ UNCHANGED <<client, waits, failures, allLimited>>

(* A 429 whose Retry-After is within MAX_WAIT_SECONDS: wait and ask again. *)
WaitOut ==
  /\ status = "trying"
  /\ waits < MaxWaits
  /\ waits' = waits + 1
  /\ UNCHANGED <<status, client, failures, allLimited>>

(* Mutant: after the last provider the first is tried again.               *)
FailOverAround(kind) ==
  /\ UNCHANGED status
  /\ waits' = 0
  /\ IF client < NClients
       THEN client' = client + 1 /\ failures' = Append(failures, kind)
       ELSE client' = 1 /\ failures' = <<>>

(* The failure is noted and the next provider, if any, is tried.           *)
FailOver(kind) ==
  /\ failures' = Append(failures, kind)
  /\ IF client < NClients
       THEN client' = client + 1 /\ waits' = 0 /\ UNCHANGED status
       ELSE status' = "unavailable" /\ UNCHANGED <<client, waits>>

(* A 429 with a long wait or none named, or one wait too many.             *)
LimitedPastWaiting ==
  /\ status = "trying"
  /\ FailOver("limited")
  /\ UNCHANGED allLimited

(* ProviderError: any other status, a transport error, an unreadable body. *)
ProviderFails ==
  /\ status = "trying"
  /\ FailOver("error")
  /\ allLimited' = FALSE

CallStep == ProviderAnswers \/ WaitOut \/ LimitedPastWaiting \/ ProviderFails

-----------------------------------------------------------------------------
(* "Rate limited" is said only of a call that every configured provider    *)
(* refused with a rate limit: the replay loop stops for the day on it, so  *)
(* an outage of one provider must not read as a spent quota.               *)
RateLimitIsEveryones ==
  status = "unavailable" =>
    /\ Len(failures) = NClients
    /\ allLimited <=> \A i \in 1 .. NClients : failures[i] = "limited"
=============================================================================
