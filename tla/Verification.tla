----------------------------- MODULE Verification -----------------------------
(***************************************************************************)
(* verify() of review/verify.py: the tests near the diff at the head, and  *)
(* at the base only when some fail, each a SandboxRun; the failures of the *)
(* head the base did not have are the regressions told to the model.       *)
(***************************************************************************)
EXTENDS SandboxRun

VARIABLES
  verifyAt,     \* where verify() is
  fails,        \* the tests that fail at each commit
  rows,         \* what each run came to, once it is over
  ran,          \* whether there is evidence
  regressions   \* the failures reported

Sides == {"head", "base"}
NoRun == [outcome |-> "none", dropped |-> 0, listed |-> {}, whole |-> FALSE]
verifyVars == <<verifyAt, fails, rows, ran, regressions>>
verificationVars == <<sandboxVars, verifyVars>>

VerifyTypeOK ==
  /\ SandboxTypeOK
  /\ verifyAt \in {"start", "head", "base", "done"}
  /\ fails \in [Sides -> SUBSET Tests]
  /\ DOMAIN rows = Sides
  /\ ran \in BOOLEAN
  /\ regressions \subseteq Tests

VerifyInit ==
  /\ SandboxInit
  /\ verifyAt = "start"
  /\ fails \in [Sides -> SUBSET Tests]
  /\ rows = [s \in Sides |-> NoRun]
  /\ ran = FALSE
  /\ regressions = {}

-----------------------------------------------------------------------------
EndVerify(evidence) == verifyAt' = "done" /\ ran' = evidence

(* The row of a run that is over; whole: its list lacks no failing test.   *)
RowNow == [outcome |-> row, dropped |-> dropped, listed |-> listed,
           whole |-> listed = failing]

(* Mutant: an install that dropped something is good enough.               *)
UnusableByOutcome(r) == r.outcome \notin {"passed", "failed"}

Unusable(r) == r.outcome \notin {"passed", "failed"} \/ r.dropped > 0

Regressions(base, head) == head.listed \ base.listed

(* The head's source, or a reason there is nothing to run.                 *)
VerifyHead ==
  /\ verifyAt = "start"
  /\ \/ /\ verifyAt' = "head"
        /\ Begin(fails["head"])
        /\ UNCHANGED ran
     \/ EndVerify(FALSE) /\ UNCHANGED sandboxVars
  /\ UNCHANGED <<fails, rows, regressions>>

(* The base is fetched only when the head has a failure to explain.        *)
HeadOver ==
  /\ verifyAt = "head" /\ runAt = "over"
  /\ rows' = [rows EXCEPT !["head"] = RowNow]
  /\ \/ Unusable(RowNow) /\ EndVerify(FALSE) /\ UNCHANGED sandboxVars
     \/ ~Unusable(RowNow) /\ listed = {} /\ EndVerify(TRUE) /\ UNCHANGED sandboxVars
     \/ /\ ~Unusable(RowNow) /\ listed # {}
        /\ \/ verifyAt' = "base" /\ Begin(fails["base"]) /\ UNCHANGED ran
           \/ EndVerify(FALSE) /\ UNCHANGED sandboxVars
  /\ UNCHANGED <<fails, regressions>>

BaseOver ==
  /\ verifyAt = "base" /\ runAt = "over"
  /\ rows' = [rows EXCEPT !["base"] = RowNow]
  /\ IF Unusable(RowNow)
       THEN EndVerify(FALSE) /\ UNCHANGED regressions
       ELSE EndVerify(TRUE) /\ regressions' = Regressions(RowNow, rows["head"])
  /\ UNCHANGED <<sandboxVars, fails>>

VerifyNext ==
  \/ VerifyHead \/ HeadOver \/ BaseOver
  \/ SandboxStep /\ UNCHANGED verifyVars

VerifySpec == VerifyInit /\ [][VerifyNext]_verificationVars

-----------------------------------------------------------------------------
(***************************************************************************)
(* Safety.                                                                 *)
(***************************************************************************)

(* "Only a test that passes at the base commit and fails at the head": a   *)
(* reported test fails at the head, both suites ran to their end with all  *)
(* their dependencies, and the test did not fail at the base - as far as   *)
(* the base's run listed what failed.                                      *)
RegressionsAreReal ==
  regressions # {} =>
    /\ regressions \subseteq fails["head"]
    /\ \A s \in Sides : rows[s].outcome = "failed" \/ rows[s].outcome = "passed"
    /\ \A s \in Sides : rows[s].dropped = 0
    /\ rows["base"].whole => regressions \cap fails["base"] = {}

(***************************************************************************)
(* What the documentation says and the code does not do.                   *)
(***************************************************************************)

(* "Only a test that passes at the base commit and fails at the head is,   *)
(* and that is the only thing this module reports" (review/verify.py).     *)
RegressionsPassedBefore == regressions \cap fails["base"] = {}
=============================================================================
