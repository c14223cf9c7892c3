------------------------------ MODULE LiveReview ------------------------------
(***************************************************************************)
(* The live path of one pull request, from the webhook to the posted       *)
(* comments: the receiver (api/main.py, github/dispatch.py), the Actions   *)
(* workflow review.yml with its concurrency group, record_delivery, and    *)
(* jobs/review.py, whose last stage is the CommentLedger.                  *)
(*                                                                         *)
(* Push number d moves the head of the pull request to d and has GitHub    *)
(* send delivery d.  Deliveries may arrive in any order, be sent again by  *)
(* hand, or fail to be dispatched.  Every dispatch starts a workflow run,  *)
(* and starting one cancels the others of the same pull request.  A        *)
(* cancelled run keeps executing until its process is killed, so runs may  *)
(* overlap.  Any run may also die by itself at any step: an exception, a   *)
(* lost runner, the job's time limit.                                      *)
(***************************************************************************)
EXTENDS CommentLedger

CONSTANTS
  NPushes,      \* pushes to the pull request, and so deliveries
  MaxTries,     \* how often GitHub sends one delivery, redeliveries included
  MaxHuman,     \* review comments written by people
  NoRun         \* a delivery with no row in review_runs

Deliveries == 1 .. NPushes

ASSUME BoundsAssumption == /\ NPushes \in Nat \ {0}
                           /\ MaxTries \in Nat \ {0}
                           /\ MaxHuman \in Nat
                           /\ NoRun \notin Runs

VARIABLES
  \* GitHub and the people on the pull request
  head,         \* the newest pushed commit, 0 before the first event
  tries,        \* how often each delivery was sent so far
  pending,      \* deliveries sent and not yet handled by the receiver
  human,        \* lines that carry a person's review comment
  \* GitHub Actions
  of,           \* the delivery each workflow run was dispatched for, or 0
  cancelled,    \* runs the concurrency group asked to stop
  \* the database
  deliveries,   \* ids in the deliveries table
  claims,       \* review_runs by delivery: the run that inserted the row
  finished,     \* deliveries whose review_runs row has its result
  drafts,       \* the kept drafts each finished row holds
  \* local to each run
  stage,        \* where the job is
  seen,         \* the head fetch_pull returned
  existing,     \* the lines commented_lines returned
  result,       \* the drafts the review kept
  \* bookkeeping
  lost          \* why a review may be missing, in the repository's own terms

ledgerVars == vars
githubVars == <<head, tries, pending, human>>
dbVars == <<deliveries, claims, finished, drafts>>
jobVars == <<stage, seen, existing, result>>
liveVars == <<ledgerVars, githubVars, of, cancelled, dbVars, jobVars, lost>>

Stages == {"none", "queued", "recorded", "redelivery", "pulled", "not_reviewed",
           "claimed", "already", "fetched", "reviewed", "finished", "posting", "dead"}

LiveTypeOK ==
  /\ TypeOK
  /\ head \in 0 .. NPushes
  /\ tries \in [Deliveries -> 0 .. MaxTries]
  /\ pending \subseteq Deliveries
  /\ human \subseteq Lines
  /\ of \in [Runs -> 0 .. NPushes]
  /\ cancelled \subseteq Runs
  /\ deliveries \subseteq Deliveries
  /\ claims \in [Deliveries -> Runs \cup {NoRun}]
  /\ finished \subseteq Deliveries
  /\ drafts \in [Deliveries -> Seq(Draft)]
  /\ stage \in [Runs -> Stages]
  /\ seen \in [Runs -> 0 .. NPushes]
  /\ existing \in [Runs -> SUBSET Lines]
  /\ result \in [Runs -> Seq(Draft)]
  /\ lost \subseteq {"failed_run", "failed_dispatch", "own_redelivery", "late_redelivery"}

LiveInit ==
  /\ Init
  /\ head = 0
  /\ tries = [d \in Deliveries |-> 0]
  /\ pending = {}
  /\ human = {}
  /\ of = [r \in Runs |-> 0]
  /\ cancelled = {}
  /\ deliveries = {}
  /\ claims = [d \in Deliveries |-> NoRun]
  /\ finished = {}
  /\ drafts = [d \in Deliveries |-> <<>>]
  /\ stage = [r \in Runs |-> "none"]
  /\ seen = [r \in Runs |-> 0]
  /\ existing = [r \in Runs |-> {}]
  /\ result = [r \in Runs |-> <<>>]
  /\ lost = {}

-----------------------------------------------------------------------------
AtStage(r, where) == stage[r] = where
GotoStage(r, where) == stage' = [stage EXCEPT ![r] = where]

Over(r) ==
  \/ stage[r] \in {"none", "redelivery", "not_reviewed", "already", "dead"}
  \/ stage[r] = "posting" /\ pc[r] \in {"done", "dead"}

(***************************************************************************)
(* GitHub and people.                                                      *)
(***************************************************************************)
Push ==
  /\ head < NPushes
  /\ head' = head + 1
  /\ tries' = [tries EXCEPT ![head + 1] = 1]
  /\ pending' = pending \cup {head + 1}
  /\ UNCHANGED <<ledgerVars, human, of, cancelled, dbVars, jobVars, lost>>

(* The App's owner asks for a delivery again, whatever became of it.       *)
Redeliver(d) ==
  /\ tries[d] \in 1 .. MaxTries - 1
  /\ d \notin pending
  /\ tries' = [tries EXCEPT ![d] = @ + 1]
  /\ pending' = pending \cup {d}
  /\ UNCHANGED <<ledgerVars, head, human, of, cancelled, dbVars, jobVars, lost>>

HumanComment(l) ==
  /\ Cardinality(human) < MaxHuman
  /\ l \notin human
  /\ human' = human \cup {l}
  /\ UNCHANGED <<ledgerVars, head, tries, pending, of, cancelled, dbVars, jobVars, lost>>

(***************************************************************************)
(* The receiver holds no state: it verifies, dispatches, and forgets.      *)
(* StartRun is what the dispatch does on GitHub's side: a run of review.yml *)
(* in the group of the pull request, cancel-in-progress.                   *)
(***************************************************************************)
(* Mutants: the run in progress is kept and the new one gives way; the     *)
(* group is keyed on the delivery, so nothing is cancelled.                *)
StartRunYields(r, d) ==
  /\ of[r] = 0
  /\ of' = [of EXCEPT ![r] = d]
  /\ GotoStage(r, IF \E q \in Runs : ~Over(q) THEN "dead" ELSE "queued")
  /\ UNCHANGED cancelled

StartRun(r, d) ==
  /\ of[r] = 0
  /\ of' = [of EXCEPT ![r] = d]
  /\ GotoStage(r, "queued")
  /\ cancelled' = cancelled \cup {q \in Runs : ~Over(q)}

OwnRedelivery(d) == \E q \in Runs : of[q] = d /\ ~Over(q)

(* A delivery that had its run already, sent again while the run of        *)
(* another delivery is working: it will cancel that run and then stop.     *)
LateRedelivery(d) ==
  /\ \E q \in Runs : of[q] = d
  /\ \E q \in Runs : of[q] # d /\ ~Over(q)

(* The dispatch starts a run.  The receiver answers 202 when it reads the  *)
(* 204, and 502 when the answer does not reach it (httpx.HTTPError); it    *)
(* keeps nothing either way, and a 502 may be why a delivery is sent again. *)
Dispatched(r, d) ==
  /\ d \in pending
  /\ pending' = pending \ {d}
  /\ StartRun(r, d)
  /\ lost' = lost \cup (IF OwnRedelivery(d) THEN {"own_redelivery"} ELSE {})
                   \cup (IF LateRedelivery(d) THEN {"late_redelivery"} ELSE {})
  /\ UNCHANGED <<ledgerVars, head, tries, human, dbVars, seen, existing, result>>

(* DispatchError with no run started: 502, and nobody tries again.         *)
DispatchFails(d) ==
  /\ d \in pending
  /\ pending' = pending \ {d}
  /\ lost' = lost \cup {"failed_dispatch"}
  /\ UNCHANGED <<ledgerVars, head, tries, human, of, cancelled, dbVars, jobVars>>

(***************************************************************************)
(* The workflow.  Its first step inserts the delivery, on conflict do      *)
(* nothing, and only an inserted row lets the later steps run.             *)
(***************************************************************************)
Insert(r) ==
  /\ AtStage(r, "queued")
  /\ deliveries' = deliveries \cup {of[r]}
  /\ UNCHANGED <<ledgerVars, githubVars, of, cancelled, claims, finished, drafts,
                 seen, existing, result, lost>>

(* Mutant: the conflict is not read back, every delivery is new.           *)
RecordAlwaysNew(r) == Insert(r) /\ GotoStage(r, "recorded")

Record(r) ==
  /\ Insert(r)
  /\ GotoStage(r, IF of[r] \in deliveries THEN "redelivery" ELSE "recorded")

(* fetch_pull reads the head as it is now, whatever the delivery said; a   *)
(* draft or a bot's pull request goes no further, and leaves no row.       *)
(* Mutant first: the head comes from the delivery.                         *)
FetchPullFromPayload(r) ==
  /\ AtStage(r, "recorded")
  /\ seen' = [seen EXCEPT ![r] = of[r]]
  /\ GotoStage(r, "pulled") \/ GotoStage(r, "not_reviewed")
  /\ UNCHANGED <<ledgerVars, githubVars, of, cancelled, dbVars, existing, result, lost>>

FetchPull(r) ==
  /\ AtStage(r, "recorded")
  /\ seen' = [seen EXCEPT ![r] = head]
  /\ GotoStage(r, "pulled") \/ GotoStage(r, "not_reviewed")
  /\ UNCHANGED <<ledgerVars, githubVars, of, cancelled, dbVars, existing, result, lost>>

(* reviews.claim: one live row per delivery.                               *)
Claim(r) ==
  /\ AtStage(r, "pulled")
  /\ IF claims[of[r]] = NoRun
       THEN claims' = [claims EXCEPT ![of[r]] = r] /\ GotoStage(r, "claimed")
       ELSE claims' = claims /\ GotoStage(r, "already")
  /\ UNCHANGED <<ledgerVars, githubVars, of, cancelled, deliveries, finished, drafts,
                 seen, existing, result, lost>>

(* fetch_changes, fetch_windows, commented_lines: what the review works on. *)
Commented == human \cup {c.line : c \in comments}

FetchExisting(r) ==
  /\ AtStage(r, "claimed")
  /\ existing' = [existing EXCEPT ![r] = Commented]
  /\ GotoStage(r, "fetched")
  /\ UNCHANGED <<ledgerVars, githubVars, of, cancelled, dbVars, seen, result, lost>>

(* review() keeps at most Cap drafts, none on a line it was told of        *)
(* (ReviewPipeline models how).                                            *)
KeepBatch(r, batch) ==
  /\ AtStage(r, "fetched")
  /\ result' = [result EXCEPT ![r] = batch]
  /\ GotoStage(r, "reviewed")
  /\ UNCHANGED <<ledgerVars, githubVars, of, cancelled, dbVars, seen, existing, lost>>

(* Mutant: the gate does not look at the existing comments.                *)
RunReviewIgnoresExisting(r) == \E batch \in Batches : KeepBatch(r, batch)

RunReview(r) ==
  \E batch \in Batches :
    /\ \A i \in 1 .. Len(batch) : batch[i].line \notin existing[r]
    /\ KeepBatch(r, batch)

(* reviews.finish: the result and every draft in one transaction.          *)
Finish(r) ==
  /\ AtStage(r, "reviewed")
  /\ finished' = finished \cup {of[r]}
  /\ drafts' = [drafts EXCEPT ![of[r]] = result[r]]
  /\ GotoStage(r, "finished")
  /\ UNCHANGED <<ledgerVars, githubVars, of, cancelled, deliveries, claims,
                 seen, existing, result, lost>>

(* Mutant: post() runs on the result before it is recorded.                *)
PostUnrecorded(r) ==
  /\ stage[r] \in {"reviewed", "finished"}
  /\ Call(r, result[r])
  /\ GotoStage(r, "posting")
  /\ UNCHANGED <<githubVars, of, cancelled, dbVars, seen, existing, result, lost>>

StartPost(r) ==
  /\ AtStage(r, "finished")
  /\ Call(r, result[r])
  /\ GotoStage(r, "posting")
  /\ UNCHANGED <<githubVars, of, cancelled, dbVars, seen, existing, result, lost>>

Post(r) ==
  /\ AtStage(r, "posting")
  /\ PostStep(r)
  /\ UNCHANGED <<githubVars, of, cancelled, dbVars, jobVars, lost>>

(***************************************************************************)
(* A cancelled run is killed; any run may fail.                            *)
(***************************************************************************)
Die(r) ==
  IF AtStage(r, "posting")
    THEN Kill(r) /\ UNCHANGED stage
    ELSE GotoStage(r, "dead") /\ UNCHANGED ledgerVars

CancelKill(r) ==
  /\ r \in cancelled /\ ~Over(r)
  /\ Die(r)
  /\ UNCHANGED <<githubVars, of, cancelled, dbVars, seen, existing, result, lost>>

Fail(r) ==
  /\ ~Over(r)
  /\ Die(r)
  /\ lost' = lost \cup {"failed_run"}
  /\ UNCHANGED <<githubVars, of, cancelled, dbVars, seen, existing, result>>

GitHubAnswers ==
  /\ GitHubStep
  /\ UNCHANGED <<githubVars, of, cancelled, dbVars, jobVars, lost>>

JobStep(r) ==
  \/ Record(r) \/ FetchPull(r) \/ Claim(r) \/ FetchExisting(r) \/ RunReview(r)
  \/ Finish(r) \/ StartPost(r) \/ Post(r)

LiveNext ==
  \/ Push
  \/ \E d \in Deliveries : Redeliver(d) \/ DispatchFails(d)
  \/ \E l \in Lines : HumanComment(l)
  \/ \E d \in Deliveries, r \in Runs : Dispatched(r, d)
  \/ \E r \in Runs : JobStep(r)
  \/ \E r \in Runs : CancelKill(r)
  \/ \E r \in Runs : Fail(r)
  \/ GitHubAnswers

LiveSpec == LiveInit /\ [][LiveNext]_liveVars

(***************************************************************************)
(* GitHub hands a delivery to the receiver, which answers one way or the   *)
(* other, and Actions executes what was started.                           *)
(***************************************************************************)
Handle(d) == DispatchFails(d) \/ \E r \in Runs : Dispatched(r, d)

FairLiveSpec ==
  /\ LiveSpec
  /\ \A d \in Deliveries : WF_liveVars(Handle(d))
  /\ \A r \in Runs : WF_liveVars(JobStep(r))

-----------------------------------------------------------------------------
(***************************************************************************)
(* Safety.                                                                 *)
(***************************************************************************)
Working == {"recorded", "pulled", "not_reviewed", "claimed", "already",
            "fetched", "reviewed", "finished", "posting"}

(* However often GitHub sends a delivery and however its runs overlap, at  *)
(* most one of them reviews: the deliveries row lets one past, so the      *)
(* claim's own conflict is never met on the live path.                     *)
OneReviewPerDelivery ==
  /\ \A q, r \in Runs :
       /\ of[q] = of[r]
       /\ stage[q] \in Working
       /\ stage[r] \in Working
       => q = r
  /\ \A r \in Runs : stage[r] # "already"

(* Nothing reaches the pull request that the database cannot explain: the  *)
(* run of every request on its way and of every comment has its row in     *)
(* review_runs, with its result, and the line among the drafts it kept.    *)
FinishedBeforePosted ==
  \A m \in wire \cup comments :
    LET d == of[m.run]
    IN  /\ d \in finished
        /\ claims[d] = m.run
        /\ \E i \in 1 .. Len(drafts[d]) : drafts[d][i].line = m.line

(* A run never comments on a line it had seen commented, by a person or an *)
(* earlier run; a comment that comes later than its look is not covered.   *)
NotWhereCommented ==
  \A m \in wire \cup comments : m.line \notin existing[m.run]

(* "The newest head is the one worth reviewing, so the older run is        *)
(* cancelled" (review.yml): when everything sent has been handled and      *)
(* every run is over, a run nobody cancelled has looked at the newest head *)
(* and reviewed it or had a reason not to, unless a dispatch or a run      *)
(* failed or a delivery that had its run was sent again while a run was    *)
(* working.                                                                *)
Quiet == pending = {} /\ \A r \in Runs : Over(r)

LookedAt(d) ==
  \E r \in Runs \ cancelled :
    /\ seen[r] = d
    /\ stage[r] = "not_reviewed" \/ of[r] \in finished

NewestReviewed == Quiet /\ head > 0 /\ lost = {} => LookedAt(head)

(* The same with only the cost review.yml accepts: a redelivery that lands *)
(* while its own original run is still going.                              *)
OnlyOwnRedeliveryLoses ==
  Quiet /\ head > 0 /\ lost \subseteq {"late_redelivery"} => LookedAt(head)

(***************************************************************************)
(* Liveness, under FairLiveSpec.                                           *)
(***************************************************************************)

(* Every head is looked at by a run that is not cancelled, unless a newer  *)
(* head replaces it or one of the losses of NewestReviewed happens: in     *)
(* particular deliveries that arrive out of order cancel nothing for good. *)
HeadGetsReviewed ==
  \A d \in Deliveries : head = d ~> head # d \/ lost # {} \/ LookedAt(d)
=============================================================================
