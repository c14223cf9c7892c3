-------------------------- MODULE LiveReviewProofs --------------------------
(***************************************************************************)
(* What the live path guarantees for every number of pushes, redeliveries  *)
(* and workflow runs, proved with TLAPS.                                   *)
(*                                                                         *)
(* The argument has two layers.  LiveInv relates the database rows to the  *)
(* stages of the runs: it makes StartPost a legal Call, so every behaviour *)
(* of LiveReview is one of CommentLedger and the theorems about the ledger *)
(* hold of it.  With the ledger's own invariant in hand, every request is  *)
(* then traced back to a draft its run recorded.                           *)
(***************************************************************************)
EXTENDS LiveReview, CommentLedgerProofs

USE BoundsAssumption

(* The runs whose delivery was inserted by their own Record step, the only *)
(* ones that claim, and the ones that claimed.                             *)
Claimed == {"claimed", "fetched", "reviewed", "finished", "posting"}

StageTypes ==
  /\ of \in [Runs -> 0 .. NPushes]
  /\ stage \in [Runs -> Stages]
  /\ deliveries \subseteq Deliveries
  /\ claims \in [Deliveries -> Runs \cup {NoRun}]
  /\ finished \subseteq Deliveries
  /\ drafts \in [Deliveries -> Seq(Draft)]
  /\ result \in [Runs -> Seq(Draft)]

(* A run at work was dispatched for a delivery, and inserted its row.      *)
WorkIsRecorded ==
  \A r \in Runs :
    /\ stage[r] # "none" => of[r] \in Deliveries
    /\ stage[r] \in Working => of[r] \in deliveries

OneWorker ==
  \A q, r \in Runs :
    of[q] = of[r] /\ stage[q] \in Working /\ stage[r] \in Working => q = r

(* The claim of a delivery is open until its one worker takes it.          *)
ClaimFollowsWork ==
  /\ \A d \in Deliveries : claims[d] # NoRun => d \in deliveries
  /\ \A r \in Runs :
       /\ stage[r] \in {"recorded", "pulled"} => claims[of[r]] = NoRun
       /\ stage[r] \in Claimed => claims[of[r]] = r
       /\ stage[r] # "already"

(* What is handed to post() is one of the batches, and the recorded one.   *)
HandedOver ==
  \A r \in Runs :
    /\ stage[r] \in {"reviewed", "finished"} => result[r] \in Batches
    /\ stage[r] \in {"finished", "posting"} =>
         of[r] \in finished /\ drafts[of[r]] = result[r]
    /\ stage[r] = "posting" => kept[r] = result[r]
    /\ stage[r] # "posting" => pc[r] = "idle"

LiveInv ==
  /\ StageTypes
  /\ WorkIsRecorded
  /\ OneWorker
  /\ ClaimFollowsWork
  /\ HandedOver

LEMMA LiveInvInit == LiveInit => LiveInv
<1>. SUFFICES ASSUME LiveInit PROVE LiveInv
  OBVIOUS
<1>1. StageTypes
  BY DEF LiveInit, StageTypes, Stages, Deliveries
<1>2. WorkIsRecorded /\ OneWorker /\ ClaimFollowsWork
  BY DEF LiveInit, WorkIsRecorded, OneWorker, ClaimFollowsWork, Working, Claimed, Deliveries
<1>3. HandedOver
  BY DEF LiveInit, Init, HandedOver
<1>. QED
  BY <1>1, <1>2, <1>3 DEF LiveInv

-----------------------------------------------------------------------------
(***************************************************************************)
(* Every step of the live path is a step of the ledger, or leaves it.      *)
(***************************************************************************)
LEMMA LedgerStep ==
  ASSUME LiveInv, [LiveNext]_liveVars
  PROVE  [Next]_vars
<1>1. ASSUME NEW r \in Runs, StartPost(r)
      PROVE  Next
  <2>1. result[r] \in Batches
    BY <1>1 DEF StartPost, AtStage, LiveInv, HandedOver
  <2>. QED
    BY <1>1, <2>1 DEF StartPost, Next
<1>2. ASSUME NEW r \in Runs, Post(r)
      PROVE  Next
  BY <1>2 DEF Post, Next
<1>3. ASSUME NEW r \in Runs, Die(r)
      PROVE  Next \/ UNCHANGED vars
  BY <1>3 DEF Die, Next, ledgerVars
<1>4. GitHubAnswers => Next
  BY DEF GitHubAnswers, Next
<1>5. ASSUME NEW r \in Runs, JobStep(r), ~StartPost(r), ~Post(r)
      PROVE  UNCHANGED vars
  BY <1>5 DEF JobStep, Record, Insert, FetchPull, Claim, FetchExisting, RunReview,
              KeepBatch, Finish, ledgerVars
<1>6. ASSUME NEW d \in Deliveries, \/ Redeliver(d) \/ DispatchFails(d)
                                   \/ \E r \in Runs : Dispatched(r, d)
      PROVE  UNCHANGED vars
  BY <1>6 DEF Redeliver, DispatchFails, Dispatched, ledgerVars
<1>7. Push \/ (\E l \in Lines : HumanComment(l)) \/ UNCHANGED liveVars => UNCHANGED vars
  BY DEF Push, HumanComment, liveVars, ledgerVars
<1>. QED
  BY <1>1, <1>2, <1>3, <1>4, <1>5, <1>6, <1>7 DEF LiveNext, CancelKill, Fail

(* A step of post() moves only the program counter of its own run and      *)
(* leaves the drafts it was handed alone.                                  *)
LEMMA PostFrame ==
  ASSUME Core, NEW r \in Runs, PostStep(r) \/ Kill(r)
  PROVE  /\ kept' = kept
         /\ \A q \in Runs \ {r} : pc'[q] = pc[q]
<1>1. pc \in [Runs -> PC]
  BY DEF Core, TypeOK
<1>2. kept' = kept /\ \E where \in PC : pc' = [pc EXCEPT ![r] = where]
  BY DEF PostStep, Kill, InsertRow, InsertConflict, GiveUp, TryNextSlot, RefuseWrite,
         Send, ReadReply, HttpError, MarkPosted, MarkFailed, Mark, NextItem, Goto, PC
<1>. QED
  BY <1>1, <1>2

-----------------------------------------------------------------------------
(***************************************************************************)
(* LiveInv is inductive.                                                   *)
(***************************************************************************)

(* Steps that move no stage and touch neither the rows nor the handover.   *)
LEMMA LiveInvFrame ==
  ASSUME LiveInv,
         UNCHANGED <<of, stage, deliveries, claims, finished, drafts, result, kept>>,
         \A q \in Runs : stage[q] # "posting" => pc'[q] = pc[q]
  PROVE  LiveInv'
BY DEF LiveInv, StageTypes, WorkIsRecorded, OneWorker, ClaimFollowsWork, HandedOver

(* A run that leaves the path, by a kill, a redelivery or a draft, or that *)
(* goes from one stage to a next one with the same obligations.            *)
LEMMA LiveInvMove ==
  ASSUME LiveInv, NEW r \in Runs, NEW where \in Stages,
         GotoStage(r, where), stage[r] # "posting", stage[r] # "none",
         UNCHANGED <<ledgerVars, of, deliveries, claims, finished, drafts, result>>,
         \/ where \in {"dead", "redelivery"}
         \/ stage[r] = "recorded" /\ where \in {"pulled", "not_reviewed"}
         \/ stage[r] = "claimed" /\ where = "fetched"
  PROVE  LiveInv'
<1>1. /\ stage' = [stage EXCEPT ![r] = where]
      /\ stage \in [Runs -> Stages]
  BY DEF GotoStage, LiveInv, StageTypes
<1>2. UNCHANGED <<pc, kept>>
  BY DEF ledgerVars, vars, runVars
<1>3. StageTypes'
  BY <1>1 DEF LiveInv, StageTypes
<1>4. WorkIsRecorded'
  BY <1>1 DEF LiveInv, WorkIsRecorded, Working
<1>5. OneWorker'
  BY <1>1 DEF LiveInv, OneWorker, Working
<1>6. ClaimFollowsWork'
  BY <1>1 DEF LiveInv, ClaimFollowsWork, Claimed
<1>7. HandedOver'
  BY <1>1, <1>2 DEF LiveInv, HandedOver
<1>. QED
  BY <1>3, <1>4, <1>5, <1>6, <1>7 DEF LiveInv

LEMMA LiveInvDispatched ==
  ASSUME LiveInv, NEW r \in Runs, NEW d \in Deliveries, Dispatched(r, d)
  PROVE  LiveInv'
<1>1. /\ stage' = [stage EXCEPT ![r] = "queued"]
      /\ of' = [of EXCEPT ![r] = d]
      /\ stage \in [Runs -> Stages]
      /\ of \in [Runs -> 0 .. NPushes]
      /\ of[r] = 0
  BY DEF Dispatched, StartRun, GotoStage, LiveInv, StageTypes
<1>2. stage[r] = "none"
  BY <1>1 DEF LiveInv, WorkIsRecorded, Deliveries
<1>3. UNCHANGED <<pc, kept, deliveries, claims, finished, drafts, result>>
  BY DEF Dispatched, ledgerVars, vars, runVars, dbVars
<1>4. StageTypes'
  BY <1>1, <1>3 DEF LiveInv, StageTypes, Stages, Deliveries
<1>5. WorkIsRecorded'
  BY <1>1, <1>3 DEF LiveInv, WorkIsRecorded, Working
<1>6. OneWorker'
  BY <1>1 DEF LiveInv, OneWorker, Working
<1>7. ClaimFollowsWork'
  BY <1>1, <1>3 DEF LiveInv, ClaimFollowsWork, Claimed
<1>8. HandedOver'
  BY <1>1, <1>2, <1>3 DEF LiveInv, HandedOver
<1>. QED
  BY <1>4, <1>5, <1>6, <1>7, <1>8 DEF LiveInv

(* The inserted row lets exactly this run past: no other worker can be of  *)
(* a delivery whose row was not there.                                     *)
LEMMA LiveInvRecord ==
  ASSUME LiveInv, NEW r \in Runs, Record(r)
  PROVE  LiveInv'
<1>1. /\ stage[r] = "queued"
      /\ stage \in [Runs -> Stages]
      /\ of[r] \in Deliveries
      /\ deliveries' = deliveries \cup {of[r]}
      /\ UNCHANGED <<of, claims, finished, drafts, result, pc, kept>>
  BY DEF Record, Insert, AtStage, LiveInv, StageTypes, WorkIsRecorded,
         ledgerVars, vars, runVars
<1>2. CASE of[r] \in deliveries
  <2>1. deliveries' = deliveries /\ GotoStage(r, "redelivery")
    BY <1>1, <1>2 DEF Record
  <2>2. UNCHANGED ledgerVars
    BY DEF Record, Insert
  <2>. QED
    BY <1>1, <2>1, <2>2, LiveInvMove DEF Stages
<1>3. CASE of[r] \notin deliveries
  <2>1. stage' = [stage EXCEPT ![r] = "recorded"]
    BY <1>3 DEF Record, GotoStage
  <2>2. StageTypes'
    BY <1>1, <2>1 DEF LiveInv, StageTypes, Stages
  <2>3. WorkIsRecorded'
    BY <1>1, <2>1 DEF LiveInv, WorkIsRecorded, Working
  <2>4. OneWorker'
    BY <1>1, <1>3, <2>1 DEF LiveInv, OneWorker, WorkIsRecorded, Working
  <2>5. ClaimFollowsWork'
    BY <1>1, <1>3, <2>1 DEF LiveInv, ClaimFollowsWork, Claimed
  <2>6. HandedOver'
    BY <1>1, <2>1 DEF LiveInv, HandedOver
  <2>. QED
    BY <2>2, <2>3, <2>4, <2>5, <2>6 DEF LiveInv
<1>. QED
  BY <1>2, <1>3

LEMMA LiveInvClaim ==
  ASSUME LiveInv, NEW r \in Runs, Claim(r)
  PROVE  LiveInv'
<1>1. /\ stage[r] = "pulled"
      /\ stage \in [Runs -> Stages]
      /\ of[r] \in Deliveries
      /\ claims \in [Deliveries -> Runs \cup {NoRun}]
      /\ claims[of[r]] = NoRun
      /\ of[r] \in deliveries
      /\ UNCHANGED <<of, deliveries, finished, drafts, result, pc, kept>>
  BY DEF Claim, AtStage, LiveInv, StageTypes, WorkIsRecorded, ClaimFollowsWork, Working,
         ledgerVars, vars, runVars
<1>2. /\ stage' = [stage EXCEPT ![r] = "claimed"]
      /\ claims' = [claims EXCEPT ![of[r]] = r]
  BY <1>1 DEF Claim, GotoStage
<1>3. StageTypes'
  BY <1>1, <1>2 DEF LiveInv, StageTypes, Stages
<1>4. WorkIsRecorded' /\ OneWorker'
  BY <1>1, <1>2 DEF LiveInv, WorkIsRecorded, OneWorker, Working
<1>5. ClaimFollowsWork'
  <2>1. \A d \in Deliveries : claims'[d] # NoRun => d \in deliveries'
    BY <1>1, <1>2 DEF LiveInv, ClaimFollowsWork
  <2>2. ASSUME NEW q \in Runs, q # r, stage[q] \in Working
        PROVE  of[q] \in Deliveries /\ of[q] # of[r]
    BY <1>1, <2>2 DEF LiveInv, WorkIsRecorded, OneWorker, Working
  <2>3. ASSUME NEW q \in Runs
        PROVE  /\ stage'[q] \in {"recorded", "pulled"} => claims'[of'[q]] = NoRun
               /\ stage'[q] \in Claimed => claims'[of'[q]] = q
               /\ stage'[q] # "already"
    BY <1>1, <1>2, <2>2 DEF LiveInv, ClaimFollowsWork, Claimed, Working
  <2>. QED
    BY <2>1, <2>3 DEF ClaimFollowsWork
<1>6. HandedOver'
  BY <1>1, <1>2 DEF LiveInv, HandedOver
<1>. QED
  BY <1>3, <1>4, <1>5, <1>6 DEF LiveInv

LEMMA LiveInvRunReview ==
  ASSUME LiveInv, NEW r \in Runs, RunReview(r)
  PROVE  LiveInv'
<1>1. PICK batch \in Batches : KeepBatch(r, batch)
  BY DEF RunReview
<1>2. /\ stage[r] = "fetched"
      /\ stage \in [Runs -> Stages]
      /\ stage' = [stage EXCEPT ![r] = "reviewed"]
      /\ result' = [result EXCEPT ![r] = batch]
      /\ batch \in Seq(Draft)
      /\ UNCHANGED <<of, deliveries, claims, finished, drafts, pc, kept>>
  BY <1>1, BatchesAssumption DEF KeepBatch, AtStage, GotoStage, LiveInv, StageTypes,
         ledgerVars, vars, runVars, dbVars
<1>3. StageTypes'
  BY <1>2 DEF LiveInv, StageTypes, Stages
<1>4. WorkIsRecorded' /\ OneWorker' /\ ClaimFollowsWork'
  BY <1>2 DEF LiveInv, WorkIsRecorded, OneWorker, ClaimFollowsWork, Working, Claimed
<1>5. HandedOver'
  BY <1>2 DEF LiveInv, HandedOver, StageTypes
<1>. QED
  BY <1>3, <1>4, <1>5 DEF LiveInv

(* Finishing rewrites the drafts of one delivery, whose only worker is the *)
(* run itself.                                                             *)
LEMMA LiveInvFinish ==
  ASSUME LiveInv, NEW r \in Runs, Finish(r)
  PROVE  LiveInv'
<1>1. /\ stage[r] = "reviewed"
      /\ stage \in [Runs -> Stages]
      /\ stage' = [stage EXCEPT ![r] = "finished"]
      /\ drafts' = [drafts EXCEPT ![of[r]] = result[r]]
      /\ finished' = finished \cup {of[r]}
      /\ of[r] \in Deliveries
      /\ UNCHANGED <<of, deliveries, claims, result, pc, kept>>
  BY DEF Finish, AtStage, GotoStage, LiveInv, StageTypes, WorkIsRecorded,
         ledgerVars, vars, runVars
<1>2. StageTypes'
  BY <1>1 DEF LiveInv, StageTypes, Stages
<1>3. WorkIsRecorded' /\ OneWorker' /\ ClaimFollowsWork'
  BY <1>1 DEF LiveInv, WorkIsRecorded, OneWorker, ClaimFollowsWork, Working, Claimed
<1>4. ASSUME NEW q \in Runs, q # r, stage[q] \in {"finished", "posting"}
      PROVE  of[q] # of[r]
  BY <1>1, <1>4 DEF LiveInv, OneWorker, Working
<1>5. HandedOver'
  BY <1>1, <1>4 DEF LiveInv, HandedOver, StageTypes
<1>. QED
  BY <1>2, <1>3, <1>5 DEF LiveInv

LEMMA LiveInvStartPost ==
  ASSUME Core, LiveInv, NEW r \in Runs, StartPost(r)
  PROVE  LiveInv'
<1>1. /\ stage[r] = "finished"
      /\ stage \in [Runs -> Stages]
      /\ stage' = [stage EXCEPT ![r] = "posting"]
      /\ kept' = [kept EXCEPT ![r] = result[r]]
      /\ \E where : pc' = [pc EXCEPT ![r] = where]
      /\ UNCHANGED <<of, deliveries, claims, finished, drafts, result>>
  BY DEF StartPost, Call, Goto, AtStage, GotoStage, LiveInv, StageTypes, dbVars
<1>2. pc \in [Runs -> PC] /\ kept \in [Runs -> Seq(Draft)]
  BY DEF Core, TypeOK
<1>3. StageTypes'
  BY <1>1 DEF LiveInv, StageTypes, Stages
<1>4. WorkIsRecorded' /\ OneWorker' /\ ClaimFollowsWork'
  BY <1>1 DEF LiveInv, WorkIsRecorded, OneWorker, ClaimFollowsWork, Working, Claimed
<1>5. HandedOver'
  BY <1>1, <1>2 DEF LiveInv, HandedOver
<1>. QED
  BY <1>3, <1>4, <1>5 DEF LiveInv

LEMMA LiveInvDie ==
  ASSUME Core, LiveInv, NEW r \in Runs, ~Over(r), Die(r),
         UNCHANGED <<of, deliveries, claims, finished, drafts, result>>
  PROVE  LiveInv'
<1>1. CASE stage[r] = "posting"
  <2>1. Kill(r) /\ UNCHANGED stage
    BY <1>1 DEF Die, AtStage
  <2>. QED
    BY <1>1, <2>1, PostFrame, LiveInvFrame
<1>2. CASE stage[r] # "posting"
  BY <1>2, LiveInvMove DEF Die, AtStage, Over, Stages
<1>. QED
  BY <1>1, <1>2

LEMMA LiveInvJobStep ==
  ASSUME Core, LiveInv, NEW r \in Runs, JobStep(r)
  PROVE  LiveInv'
<1>1. CASE Record(r)
  BY <1>1, LiveInvRecord
<1>2. CASE FetchPull(r)
  BY <1>2, LiveInvMove DEF FetchPull, AtStage, dbVars, Stages
<1>3. CASE Claim(r)
  BY <1>3, LiveInvClaim
<1>4. CASE FetchExisting(r)
  BY <1>4, LiveInvMove DEF FetchExisting, AtStage, dbVars, Stages
<1>5. CASE RunReview(r)
  BY <1>5, LiveInvRunReview
<1>6. CASE Finish(r)
  BY <1>6, LiveInvFinish
<1>7. CASE StartPost(r)
  BY <1>7, LiveInvStartPost
<1>8. CASE Post(r)
  <2>1. stage[r] = "posting" /\ PostStep(r)
    BY <1>8 DEF Post, AtStage
  <2>2. UNCHANGED <<of, stage, deliveries, claims, finished, drafts, result>>
    BY <1>8 DEF Post, dbVars, jobVars
  <2>. QED
    BY <2>1, <2>2, PostFrame, LiveInvFrame
<1>. QED
  BY <1>1, <1>2, <1>3, <1>4, <1>5, <1>6, <1>7, <1>8 DEF JobStep

LEMMA LiveInvNext == Core /\ LiveInv /\ [LiveNext]_liveVars => LiveInv'
<1>. SUFFICES ASSUME Core, LiveInv, [LiveNext]_liveVars PROVE LiveInv'
  OBVIOUS
<1>1. ASSUME NEW r \in Runs, JobStep(r)
      PROVE  LiveInv'
  BY <1>1, LiveInvJobStep
<1>2. ASSUME NEW r \in Runs, CancelKill(r) \/ Fail(r)
      PROVE  LiveInv'
  <2>1. /\ ~Over(r) /\ Die(r)
        /\ UNCHANGED <<of, deliveries, claims, finished, drafts, result>>
    BY <1>2 DEF CancelKill, Fail, dbVars
  <2>. QED
    BY <2>1, LiveInvDie
<1>3. ASSUME NEW r \in Runs, NEW d \in Deliveries, Dispatched(r, d)
      PROVE  LiveInv'
  BY <1>3, LiveInvDispatched
<1>4. CASE GitHubAnswers
  <2>1. GitHubStep /\ UNCHANGED <<of, stage, deliveries, claims, finished, drafts, result>>
    BY <1>4 DEF GitHubAnswers, dbVars, jobVars
  <2>2. UNCHANGED <<pc, kept>>
    BY <2>1, CoreGitHub
  <2>. QED
    BY <2>1, <2>2, LiveInvFrame
<1>5. ASSUME \/ Push \/ UNCHANGED liveVars
             \/ \E d \in Deliveries : Redeliver(d) \/ DispatchFails(d)
             \/ \E l \in Lines : HumanComment(l)
      PROVE  LiveInv'
  <2>1. UNCHANGED <<of, stage, deliveries, claims, finished, drafts, result, pc, kept>>
    BY <1>5 DEF Push, Redeliver, DispatchFails, HumanComment, liveVars, ledgerVars,
                vars, runVars, dbVars, jobVars
  <2>. QED
    BY <2>1, LiveInvFrame
<1>. QED
  BY <1>1, <1>2, <1>3, <1>4, <1>5 DEF LiveNext

-----------------------------------------------------------------------------
(***************************************************************************)
(* The theorems.                                                           *)
(***************************************************************************)

(* The rows of deliveries and review_runs, the stages of the runs and the  *)
(* drafts handed to post() agree in every reachable state.                 *)
THEOREM LiveInvariant == LiveSpec => [](Core /\ LiveInv)
<1>1. LiveInit => Core /\ LiveInv
  BY LiveInvInit, CoreInit DEF LiveInit
<1>2. Core /\ LiveInv /\ [LiveNext]_liveVars => (Core /\ LiveInv)'
  BY LiveInvNext, LedgerStep, CoreNext
<1>. QED
  BY <1>1, <1>2, PTL DEF LiveSpec

(* The live path drives post() only as CommentLedger allows, so whatever   *)
(* holds of the ledger holds of the pull request under review.             *)
THEOREM LiveIsLedger == LiveSpec => Spec
<1>1. LiveInit => Init
  BY DEF LiveInit
<1>2. LiveInv /\ [LiveNext]_liveVars => [Next]_vars
  BY LedgerStep
<1>. QED
  BY <1>1, <1>2, LiveInvariant, PTL DEF LiveSpec, Spec

(* One delivery is reviewed by one run at most, however often GitHub sends *)
(* it and however the runs overlap, and the claim's conflict is never met. *)
THEOREM ReviewedOnce == LiveSpec => []OneReviewPerDelivery
<1>1. LiveInv => OneReviewPerDelivery
  BY DEF LiveInv, OneWorker, ClaimFollowsWork, OneReviewPerDelivery
<1>. QED
  BY <1>1, LiveInvariant, PTL

(* The pull request sees CommentPromise and nothing else: comments appear  *)
(* one at a time, never on a line twice, never more than the cap, whatever *)
(* is pushed, sent again, cancelled or killed.                             *)
THEOREM LivePromise == LiveSpec => KeepsPromise
BY LiveIsLedger, LedgerKeepsPromise, PTL

-----------------------------------------------------------------------------
(***************************************************************************)
(* Every request is one of the drafts its run recorded.                    *)
(***************************************************************************)
RequestsAreKept ==
  \A m \in wire \cup comments :
    /\ m.run \in Runs
    /\ stage[m.run] = "posting"
    /\ \E i \in 1 .. Len(kept[m.run]) : kept[m.run][i].line = m.line

(* A run in post() stays there, with the drafts it was handed.             *)
LEMMA PostingStays ==
  ASSUME Core, LiveInv, [LiveNext]_liveVars,
         NEW r \in Runs, stage[r] = "posting"
  PROVE  stage'[r] = "posting" /\ kept'[r] = kept[r]
<1>1. stage \in [Runs -> Stages] /\ kept \in [Runs -> Seq(Draft)]
  BY DEF LiveInv, StageTypes, Core, TypeOK
<1>2. ASSUME NEW q \in Runs, JobStep(q)
      PROVE  stage'[r] = "posting" /\ kept'[r] = kept[r]
  <2>1. CASE Post(q)
    BY <1>1, <2>1, PostFrame DEF Post, jobVars
  <2>2. CASE StartPost(q)
    <3>1. q # r
      BY <2>2 DEF StartPost, AtStage
    <3>. QED
      BY <1>1, <2>2, <3>1 DEF StartPost, Call, GotoStage
  <2>3. CASE ~Post(q) /\ ~StartPost(q)
    <3>1. q # r /\ UNCHANGED kept
      BY <1>2, <2>3 DEF JobStep, Record, Insert, FetchPull, Claim, FetchExisting,
           RunReview, KeepBatch, Finish, AtStage, ledgerVars, vars, runVars
    <3>2. \E where : stage' = [stage EXCEPT ![q] = where]
      BY <1>2, <2>3 DEF JobStep, Record, FetchPull, Claim, FetchExisting,
           RunReview, KeepBatch, Finish, GotoStage
    <3>. QED
      BY <1>1, <3>1, <3>2
  <2>. QED
    BY <2>1, <2>2, <2>3
<1>3. ASSUME NEW q \in Runs, Die(q)
      PROVE  stage'[r] = "posting" /\ kept'[r] = kept[r]
  <2>1. CASE stage[q] = "posting"
    BY <1>1, <1>3, <2>1, PostFrame DEF Die, AtStage
  <2>2. CASE stage[q] # "posting"
    BY <1>1, <1>3, <2>2 DEF Die, AtStage, GotoStage, ledgerVars, vars, runVars
  <2>. QED
    BY <2>1, <2>2
<1>4. ASSUME NEW q \in Runs, NEW d \in Deliveries, Dispatched(q, d)
      PROVE  stage'[r] = "posting" /\ kept'[r] = kept[r]
  <2>1. q # r
    BY <1>4 DEF Dispatched, StartRun, LiveInv, WorkIsRecorded, Deliveries
  <2>. QED
    BY <1>1, <1>4, <2>1 DEF Dispatched, StartRun, GotoStage, ledgerVars, vars, runVars
<1>5. CASE GitHubAnswers
  BY <1>5, CoreGitHub DEF GitHubAnswers, jobVars
<1>6. ASSUME \/ Push \/ UNCHANGED liveVars
             \/ \E d \in Deliveries : Redeliver(d) \/ DispatchFails(d)
             \/ \E l \in Lines : HumanComment(l)
      PROVE  stage'[r] = "posting" /\ kept'[r] = kept[r]
  BY <1>6 DEF Push, Redeliver, DispatchFails, HumanComment, liveVars, ledgerVars,
              vars, runVars, jobVars
<1>. QED
  BY <1>2, <1>3, <1>4, <1>5, <1>6 DEF LiveNext, CancelKill, Fail

(* A new request leaves a run that is in post(), on the draft it is on.    *)
LEMMA NewRequest ==
  ASSUME Core, LiveInv, [LiveNext]_liveVars,
         NEW m \in wire' \cup comments', m \notin wire \cup comments
  PROVE  /\ m.run \in Runs
         /\ stage[m.run] = "posting"
         /\ \E i \in 1 .. Len(kept[m.run]) : kept[m.run][i].line = m.line
<1>1. PICK r \in Runs : pc[r] = "send" /\ Send(r)
  BY LedgerStep, RequestStep
<1>2. m = [run |-> r, n |-> sent[r] + 1, line |-> Item(r).line, slot |-> slot[r]]
  BY <1>1 DEF Send
<1>3. stage[r] = "posting"
  BY <1>1 DEF LiveInv, HandedOver
<1>4. pos[r] \in 1 .. Len(kept[r])
  BY <1>1, LiveItem DEF Core, Live
<1>. QED
  BY <1>1, <1>2, <1>3, <1>4 DEF Item

LEMMA RequestsAreKeptNext ==
  ASSUME Core, LiveInv, RequestsAreKept, [LiveNext]_liveVars
  PROVE  RequestsAreKept'
<1>. SUFFICES ASSUME NEW m \in wire' \cup comments'
              PROVE  /\ m.run \in Runs
                     /\ stage'[m.run] = "posting"
                     /\ \E i \in 1 .. Len(kept'[m.run]) : kept'[m.run][i].line = m.line
  BY DEF RequestsAreKept
<1>1. /\ m.run \in Runs
      /\ stage[m.run] = "posting"
      /\ \E i \in 1 .. Len(kept[m.run]) : kept[m.run][i].line = m.line
  BY NewRequest DEF RequestsAreKept
<1>. QED
  BY <1>1, PostingStays

(* Whatever is on its way to the pull request, or on it, is a draft of a   *)
(* finished review_runs row, claimed by the run that sent it.              *)
THEOREM PostsAreRecorded == LiveSpec => []FinishedBeforePosted
<1>1. LiveInit => RequestsAreKept
  BY DEF LiveInit, Init, RequestsAreKept
<1>2. Core /\ LiveInv /\ RequestsAreKept /\ [LiveNext]_liveVars => RequestsAreKept'
  BY RequestsAreKeptNext
<1>3. LiveInv /\ RequestsAreKept => FinishedBeforePosted
  BY DEF LiveInv, HandedOver, ClaimFollowsWork, Claimed, RequestsAreKept,
         FinishedBeforePosted
<1>. QED
  BY <1>1, <1>2, <1>3, LiveInvariant, PTL DEF LiveSpec

-----------------------------------------------------------------------------
(***************************************************************************)
(* Types of what StageTypes leaves out: GitHub's side and what the runs    *)
(* read from it.                                                           *)
(***************************************************************************)
ReadTypes ==
  /\ head \in 0 .. NPushes
  /\ tries \in [Deliveries -> 0 .. MaxTries]
  /\ pending \subseteq Deliveries
  /\ human \subseteq Lines
  /\ cancelled \subseteq Runs
  /\ seen \in [Runs -> 0 .. NPushes]
  /\ existing \in [Runs -> SUBSET Lines]
  /\ lost \subseteq {"failed_run", "failed_dispatch", "own_redelivery", "late_redelivery"}

LEMMA ReadTypesNext ==
  ASSUME Core, ReadTypes, [LiveNext]_liveVars
  PROVE  ReadTypes'
<1>. USE DEF ReadTypes
<1>1. CASE Push
  <2>1. head + 1 \in Deliveries /\ head' = head + 1
    BY <1>1 DEF Push, Deliveries
  <2>2. tries' = [tries EXCEPT ![head + 1] = 1] /\ pending' = pending \cup {head + 1}
    BY <1>1 DEF Push
  <2>3. 1 \in 0 .. MaxTries
    OBVIOUS
  <2>4. head' \in 0 .. NPushes
    BY <2>1 DEF Deliveries
  <2>. QED
    BY <1>1, <2>1, <2>2, <2>3, <2>4 DEF Push, jobVars
<1>2. ASSUME NEW d \in Deliveries, Redeliver(d)
      PROVE  ReadTypes'
  <2>1. tries[d] + 1 \in 0 .. MaxTries /\ tries' = [tries EXCEPT ![d] = tries[d] + 1]
    BY <1>2 DEF Redeliver
  <2>. QED
    BY <1>2, <2>1 DEF Redeliver, jobVars
<1>3. ASSUME NEW d \in Deliveries, DispatchFails(d)
      PROVE  ReadTypes'
  BY <1>3 DEF DispatchFails, jobVars
<1>4. ASSUME NEW l \in Lines, HumanComment(l)
      PROVE  ReadTypes'
  BY <1>4 DEF HumanComment, jobVars
<1>5. ASSUME NEW d \in Deliveries, NEW r \in Runs, Dispatched(r, d)
      PROVE  ReadTypes'
  BY <1>5 DEF Dispatched, StartRun
<1>6. ASSUME NEW r \in Runs, FetchPull(r)
      PROVE  ReadTypes'
  BY <1>6 DEF FetchPull, githubVars
<1>7. ASSUME NEW r \in Runs, FetchExisting(r)
      PROVE  ReadTypes'
  <2>1. Commented \subseteq Lines
    BY DEF Commented, Core, TypeOK, Request
  <2>. QED
    BY <1>7, <2>1 DEF FetchExisting, githubVars
<1>8. ASSUME NEW r \in Runs, JobStep(r), ~FetchPull(r), ~FetchExisting(r)
      PROVE  ReadTypes'
  BY <1>8 DEF JobStep, Record, Insert, Claim, RunReview, KeepBatch, Finish, StartPost, Post,
       githubVars, jobVars
<1>9. ASSUME NEW r \in Runs, CancelKill(r) \/ Fail(r)
      PROVE  ReadTypes'
  BY <1>9 DEF CancelKill, Fail, githubVars
<1>10. CASE GitHubAnswers \/ UNCHANGED liveVars
  BY <1>10 DEF GitHubAnswers, liveVars, githubVars, jobVars
<1>. QED
  BY <1>1, <1>2, <1>3, <1>4, <1>5, <1>6, <1>7, <1>8, <1>9, <1>10 DEF LiveNext

(* Every variable of the live path keeps its type, for any number of       *)
(* pushes, redeliveries, people's comments and runs.                       *)
THEOREM LiveTyped == LiveSpec => []LiveTypeOK
<1>1. LiveInit => ReadTypes
  BY DEF LiveInit, ReadTypes, Deliveries
<1>2. Core /\ ReadTypes /\ [LiveNext]_liveVars => ReadTypes'
  BY ReadTypesNext
<1>3. Core /\ LiveInv /\ ReadTypes => LiveTypeOK
  BY DEF Core, LiveInv, StageTypes, ReadTypes, LiveTypeOK
<1>. QED
  BY <1>1, <1>2, <1>3, LiveInvariant, PTL DEF LiveSpec

-----------------------------------------------------------------------------
(***************************************************************************)
(* What a run keeps is off the lines it had seen commented.                *)
(***************************************************************************)
ReviewAvoids ==
  \A r \in Runs : stage[r] \in {"reviewed", "finished", "posting"} =>
    \A i \in 1 .. Len(result[r]) : result[r][i].line \notin existing[r]

LEMMA ReviewAvoidsNext ==
  ASSUME Core, LiveInv, ReadTypes, ReviewAvoids, [LiveNext]_liveVars
  PROVE  ReviewAvoids'
<1>0. /\ stage \in [Runs -> Stages]
      /\ existing \in [Runs -> SUBSET Lines]
      /\ result \in [Runs -> Seq(Draft)]
  BY DEF LiveInv, StageTypes, ReadTypes
<1>1. ASSUME NEW r \in Runs, RunReview(r)
      PROVE  ReviewAvoids'
  <2>1. PICK batch \in Batches :
          /\ \A i \in 1 .. Len(batch) : batch[i].line \notin existing[r]
          /\ KeepBatch(r, batch)
    BY <1>1 DEF RunReview
  <2>2. /\ result' = [result EXCEPT ![r] = batch]
        /\ existing' = existing
        /\ stage' = [stage EXCEPT ![r] = "reviewed"]
    BY <2>1 DEF KeepBatch, GotoStage
  <2>. QED
    BY <1>0, <2>1, <2>2 DEF ReviewAvoids
<1>2. ASSUME NEW r \in Runs, FetchExisting(r)
      PROVE  ReviewAvoids'
  BY <1>0, <1>2 DEF FetchExisting, GotoStage, ReviewAvoids
<1>3. ASSUME NEW r \in Runs, JobStep(r), ~RunReview(r), ~FetchExisting(r)
      PROVE  ReviewAvoids'
  <2>1. UNCHANGED <<result, existing>>
    BY <1>3 DEF JobStep, Record, Insert, FetchPull, Claim, Finish, StartPost, Post, jobVars
  <2>2. \A q \in Runs : stage'[q] \in {"reviewed", "finished", "posting"} =>
          stage[q] \in {"reviewed", "finished", "posting"}
    BY <1>0, <1>3 DEF JobStep, Record, Insert, FetchPull, Claim, Finish, StartPost, Post,
         AtStage, GotoStage, jobVars
  <2>. QED
    BY <2>1, <2>2 DEF ReviewAvoids
<1>4. ASSUME NEW r \in Runs, CancelKill(r) \/ Fail(r)
      PROVE  ReviewAvoids'
  <2>1. UNCHANGED <<result, existing>>
    BY <1>4 DEF CancelKill, Fail
  <2>2. stage' = stage \/ stage' = [stage EXCEPT ![r] = "dead"]
    BY <1>4 DEF CancelKill, Fail, Die, GotoStage
  <2>. QED
    BY <1>0, <2>1, <2>2 DEF ReviewAvoids
<1>5. ASSUME NEW r \in Runs, NEW d \in Deliveries, Dispatched(r, d)
      PROVE  ReviewAvoids'
  BY <1>0, <1>5 DEF Dispatched, StartRun, GotoStage, ReviewAvoids
<1>6. ASSUME \/ Push \/ GitHubAnswers \/ UNCHANGED liveVars
             \/ \E d \in Deliveries : Redeliver(d) \/ DispatchFails(d)
             \/ \E l \in Lines : HumanComment(l)
      PROVE  ReviewAvoids'
  <2>1. UNCHANGED <<stage, result, existing>>
    BY <1>6 DEF Push, GitHubAnswers, Redeliver, DispatchFails, HumanComment, liveVars, jobVars
  <2>. QED
    BY <2>1 DEF ReviewAvoids
<1>. QED
  BY <1>1, <1>2, <1>3, <1>4, <1>5, <1>6 DEF LiveNext

(* A run never asks for a comment on a line it had seen commented, by a    *)
(* person or by an earlier run.                                            *)
THEOREM NeverWhereCommented == LiveSpec => []NotWhereCommented
<1>1. LiveInit => ReadTypes /\ RequestsAreKept /\ ReviewAvoids
  BY DEF LiveInit, Init, ReadTypes, RequestsAreKept, ReviewAvoids, Deliveries
<1>2. Core /\ LiveInv /\ ReadTypes /\ RequestsAreKept /\ ReviewAvoids /\ [LiveNext]_liveVars
        => ReadTypes' /\ RequestsAreKept' /\ ReviewAvoids'
  BY ReadTypesNext, RequestsAreKeptNext, ReviewAvoidsNext
<1>3. LiveInv /\ RequestsAreKept /\ ReviewAvoids => NotWhereCommented
  BY DEF LiveInv, HandedOver, RequestsAreKept, ReviewAvoids, NotWhereCommented
<1>. QED
  BY <1>1, <1>2, <1>3, LiveInvariant, PTL DEF LiveSpec

-----------------------------------------------------------------------------
(***************************************************************************)
(* The newest head gets its review.  Three things can stand for it: its    *)
(* delivery has yet to start its first run; a run nobody cancelled will    *)
(* still look at it; or one has looked.                                    *)
(***************************************************************************)
HeadUnsent == head \in pending /\ \A r \in Runs : of[r] # head

WillLook(r) ==
  \/ stage[r] = "queued" /\ of[r] \notin deliveries
  \/ stage[r] = "recorded"
  \/ stage[r] \in {"pulled", "claimed", "fetched", "reviewed"} /\ seen[r] = head

SomeoneWillLook == \E r \in Runs \ cancelled : WillLook(r)

HeadWatched ==
  lost = {} /\ head > 0 => HeadUnsent \/ SomeoneWillLook \/ LookedAt(head)

(* A delivery has at most one run that is not over, unless a redelivery    *)
(* that landed on a working run is on record.                              *)
OneRunGoing ==
  lost = {} =>
    \A q, r \in Runs : of[q] = of[r] /\ ~Over(q) /\ ~Over(r) => q = r

(* Deliveries are sent for heads that were pushed, and runs and rows come  *)
(* from them; only a run that was started is ever cancelled.               *)
SentFirst ==
  /\ \A d \in Deliveries : tries[d] # 0 => d <= head
  /\ \A d \in pending : d <= head
  /\ \A r \in Runs : of[r] <= head
  /\ \A d \in deliveries : \E r \in Runs : of[r] = d
  /\ \A r \in cancelled : of[r] # 0

HeadInv == SentFirst /\ OneRunGoing /\ HeadWatched

LEMMA HeadInvInit == LiveInit => HeadInv
BY DEF LiveInit, HeadInv, SentFirst, OneRunGoing, HeadWatched, Over, Deliveries

(* What is over stays over, or is only now started.                        *)
LEMMA OverStays ==
  ASSUME Core, LiveInv, [LiveNext]_liveVars,
         NEW r \in Runs, Over(r), ~\E d \in Deliveries : Dispatched(r, d)
  PROVE  Over(r)'
<1>0. stage \in [Runs -> Stages] /\ pc \in [Runs -> PC]
  BY DEF LiveInv, StageTypes, Core, TypeOK
<1>1. CASE stage[r] = "posting"
  <2>1. pc[r] \in {"done", "dead"} /\ stage'[r] = "posting"
    BY <1>1, PostingStays DEF Over
  <2>2. pc'[r] = pc[r]
    <3>1. CASE UNCHANGED vars
      BY <3>1 DEF vars, runVars
    <3>2. ASSUME NEW q \in Runs, PostStep(q) \/ Kill(q)
          PROVE  pc'[r] = pc[r]
      <4>1. q # r
        BY <2>1, <3>2 DEF PostStep, InsertRow, InsertConflict, GiveUp, TryNextSlot,
             RefuseWrite, Send, ReadReply, HttpError, MarkPosted, MarkFailed, At, Kill, Live
      <4>. QED
        BY <3>2, <4>1, PostFrame
    <3>3. ASSUME NEW q \in Runs, \E batch \in Batches : Call(q, batch)
          PROVE  pc'[r] = pc[r]
      BY <1>0, <2>1, <3>3 DEF Call, At, Goto
    <3>4. CASE GitHubStep
      BY <3>4, CoreGitHub
    <3>. QED
      BY <3>1, <3>2, <3>3, <3>4, LedgerStep DEF Next
  <2>. QED
    BY <2>1, <2>2 DEF Over
<1>2. CASE stage[r] # "posting"
  <2>0. stage[r] \in {"none", "redelivery", "not_reviewed", "already", "dead"}
    BY <1>2 DEF Over
  <2>1. ASSUME NEW q \in Runs, JobStep(q)
        PROVE  stage'[r] = stage[r]
    <3>1. CASE Post(q)
      BY <3>1 DEF Post, jobVars
    <3>2. CASE ~Post(q)
      <4>1. q # r
        BY <2>0, <2>1, <3>2 DEF JobStep, Record, Insert, FetchPull, Claim, FetchExisting,
             RunReview, KeepBatch, Finish, StartPost, AtStage
      <4>2. \E where : stage' = [stage EXCEPT ![q] = where]
        BY <2>1, <3>2 DEF JobStep, Record, FetchPull, Claim, FetchExisting,
             RunReview, KeepBatch, Finish, StartPost, GotoStage
      <4>. QED
        BY <1>0, <4>1, <4>2
    <3>. QED
      BY <3>1, <3>2
  <2>2. ASSUME NEW q \in Runs, ~Over(q), Die(q)
        PROVE  stage'[r] = stage[r]
    BY <1>0, <2>2 DEF Die, GotoStage
  <2>3. ASSUME NEW q \in Runs, NEW d \in Deliveries, Dispatched(q, d)
        PROVE  stage'[r] = stage[r]
    BY <1>0, <2>0, <2>3 DEF Dispatched, StartRun, GotoStage
  <2>4. ASSUME \/ Push \/ GitHubAnswers \/ UNCHANGED liveVars
               \/ \E d \in Deliveries : Redeliver(d) \/ DispatchFails(d)
               \/ \E l \in Lines : HumanComment(l)
        PROVE  stage'[r] = stage[r]
    BY <2>4 DEF Push, GitHubAnswers, Redeliver, DispatchFails, HumanComment, liveVars, jobVars
  <2>5. stage'[r] = stage[r]
    BY <2>1, <2>2, <2>3, <2>4 DEF LiveNext, CancelKill, Fail
  <2>. QED
    BY <2>0, <2>5 DEF Over
<1>. QED
  BY <1>1, <1>2

(* Only a dispatch gives a run its delivery and cancels, and only Record   *)
(* adds a row.                                                             *)
LEMMA OnlyDispatch ==
  ASSUME [LiveNext]_liveVars,
         ~\E d \in Deliveries, r \in Runs : Dispatched(r, d)
  PROVE  UNCHANGED <<of, cancelled>> /\ lost \subseteq lost'
<1>1. ASSUME NEW r \in Runs, JobStep(r)
      PROVE  UNCHANGED <<of, cancelled, lost>>
  BY <1>1 DEF JobStep, Record, Insert, FetchPull, Claim, FetchExisting,
       RunReview, KeepBatch, Finish, StartPost, Post
<1>. QED
  BY <1>1 DEF LiveNext, Push, Redeliver, DispatchFails, HumanComment, CancelKill, Fail,
       GitHubAnswers, liveVars

LEMMA SentFirstNext ==
  ASSUME LiveInv, ReadTypes, SentFirst, [LiveNext]_liveVars
  PROVE  SentFirst'
<1>0. /\ of \in [Runs -> 0 .. NPushes]
      /\ head \in 0 .. NPushes
      /\ tries \in [Deliveries -> 0 .. MaxTries]
      /\ pending \subseteq Deliveries
  BY DEF LiveInv, StageTypes, ReadTypes
<1>1. ASSUME NEW r \in Runs, NEW d \in Deliveries, Dispatched(r, d)
      PROVE  SentFirst'
  <2>1. /\ of' = [of EXCEPT ![r] = d]
        /\ of[r] = 0
        /\ pending' = pending \ {d}
        /\ d \in pending
        /\ UNCHANGED <<head, tries, deliveries>>
        /\ cancelled' = cancelled \cup {q \in Runs : ~Over(q)}
    BY <1>1 DEF Dispatched, StartRun, dbVars
  <2>2. d <= head /\ d # 0
    BY <2>1 DEF SentFirst, Deliveries
  <2>3. \A e \in deliveries : e # 0
    BY DEF LiveInv, StageTypes, Deliveries
  <2>4. \A q \in cancelled' : of'[q] # 0
    <3>1. ASSUME NEW q \in Runs, ~Over(q)
          PROVE  of[q] # 0
      BY <3>1 DEF Over, LiveInv, WorkIsRecorded, Deliveries
    <3>2. cancelled \subseteq Runs
      BY DEF ReadTypes
    <3>. QED
      BY <1>0, <2>1, <2>2, <3>1, <3>2 DEF SentFirst
  <2>5. \A q \in Runs : of'[q] <= head
    BY <1>0, <2>1, <2>2 DEF SentFirst
  <2>6. \A e \in deliveries : \E q \in Runs : of'[q] = e
    BY <1>0, <2>1, <2>3 DEF SentFirst
  <2>. QED
    BY <2>1, <2>4, <2>5, <2>6 DEF SentFirst
<1>2. CASE Push
  BY <1>0, <1>2 DEF Push, SentFirst, Deliveries, dbVars
<1>3. ASSUME NEW d \in Deliveries, Redeliver(d)
      PROVE  SentFirst'
  <2>1. d <= head
    <3>1. tries[d] # 0
      BY <1>3 DEF Redeliver
    <3>. QED
      BY <3>1 DEF SentFirst
  <2>. QED
    BY <1>0, <1>3, <2>1 DEF Redeliver, SentFirst, dbVars
<1>4. ASSUME NEW r \in Runs, Record(r)
      PROVE  SentFirst'
  BY <1>4 DEF Record, Insert, SentFirst, githubVars
<1>5. ASSUME NEW r \in Runs, JobStep(r), ~Record(r)
      PROVE  UNCHANGED <<head, tries, pending, of, deliveries, cancelled>>
  BY <1>5 DEF JobStep, FetchPull, Claim, FetchExisting, RunReview, KeepBatch, Finish,
       StartPost, Post, githubVars, dbVars
<1>6. ASSUME \/ GitHubAnswers \/ UNCHANGED liveVars
             \/ \E l \in Lines : HumanComment(l)
             \/ \E r \in Runs : CancelKill(r) \/ Fail(r)
      PROVE  UNCHANGED <<head, tries, pending, of, deliveries, cancelled>>
  BY <1>6 DEF GitHubAnswers, HumanComment, CancelKill, Fail, liveVars, githubVars, dbVars
<1>7. ASSUME NEW d \in Deliveries, DispatchFails(d)
      PROVE  SentFirst'
  BY <1>7 DEF DispatchFails, SentFirst, dbVars
<1>8. UNCHANGED <<head, tries, pending, of, deliveries, cancelled>> => SentFirst'
  BY DEF SentFirst
<1>. QED
  BY <1>1, <1>2, <1>3, <1>4, <1>5, <1>6, <1>7, <1>8 DEF LiveNext

LEMMA OneRunGoingNext ==
  ASSUME Core, LiveInv, OneRunGoing, [LiveNext]_liveVars
  PROVE  OneRunGoing'
<1>. SUFFICES ASSUME lost' = {}, NEW q \in Runs, NEW r \in Runs, q # r,
                     of'[q] = of'[r], ~Over(q)', ~Over(r)'
              PROVE  FALSE
  BY DEF OneRunGoing
<1>1. CASE ~\E d \in Deliveries, s \in Runs : Dispatched(s, d)
  <2>1. of' = of /\ lost = {}
    BY <1>1, OnlyDispatch
  <2>2. ~Over(q) /\ ~Over(r)
    BY <1>1, OverStays
  <2>. QED
    BY <2>1, <2>2 DEF OneRunGoing
<1>2. ASSUME NEW d \in Deliveries, NEW s \in Runs, Dispatched(s, d)
      PROVE  FALSE
  <2>1. /\ of' = [of EXCEPT ![s] = d]
        /\ stage' = [stage EXCEPT ![s] = "queued"]
        /\ lost = {}
        /\ ~OwnRedelivery(d)
        /\ UNCHANGED pc
    BY <1>2 DEF Dispatched, StartRun, GotoStage, ledgerVars, vars, runVars
  <2>2. of \in [Runs -> 0 .. NPushes] /\ stage \in [Runs -> Stages]
    BY DEF LiveInv, StageTypes
  <2>3. \A t \in Runs \ {s} : of'[t] = of[t] /\ (Over(t) => Over(t)')
    BY <2>1, <2>2 DEF Over
  <2>4. of'[s] = d
    BY <2>1, <2>2
  <2>5. CASE q # s /\ r # s
    BY <2>1, <2>3, <2>5 DEF OneRunGoing
  <2>6. CASE q = s \/ r = s
    BY <2>1, <2>3, <2>4, <2>6 DEF OwnRedelivery
  <2>. QED
    BY <2>5, <2>6
<1>. QED
  BY <1>1, <1>2

(* The steps that decide HeadWatched: a dispatch cancels the runs at work, *)
(* and starts one that will look, unless everything was over.              *)
LEMMA WatchedDispatched ==
  ASSUME LiveInv, ReadTypes, SentFirst, HeadWatched,
         NEW r \in Runs, NEW d \in Deliveries, Dispatched(r, d)
  PROVE  HeadWatched'
<1>. SUFFICES ASSUME lost' = {}, head' > 0
              PROVE  HeadUnsent' \/ SomeoneWillLook' \/ LookedAt(head)'
  BY DEF HeadWatched
<1>1. /\ of' = [of EXCEPT ![r] = d]
      /\ of[r] = 0
      /\ stage' = [stage EXCEPT ![r] = "queued"]
      /\ pending' = pending \ {d}
      /\ cancelled' = cancelled \cup {q \in Runs : ~Over(q)}
      /\ lost = {}
      /\ ~OwnRedelivery(d) /\ ~LateRedelivery(d)
      /\ UNCHANGED <<head, deliveries, finished, seen>>
  BY DEF Dispatched, StartRun, GotoStage, dbVars
<1>2. /\ of \in [Runs -> 0 .. NPushes]
      /\ stage \in [Runs -> Stages]
      /\ finished \subseteq Deliveries
      /\ cancelled \subseteq Runs
  BY DEF LiveInv, StageTypes, ReadTypes
<1>3. stage[r] = "none"
  BY <1>1 DEF LiveInv, WorkIsRecorded, Deliveries
<1>4. CASE \A q \in Runs : of[q] # d
  <2>1. d \notin deliveries
    BY <1>4 DEF SentFirst
  <2>2. r \notin cancelled'
    BY <1>1, <1>3 DEF SentFirst, Over
  <2>3. stage'[r] = "queued" /\ of'[r] = d
    BY <1>1, <1>2
  <2>4. WillLook(r)'
    BY <1>1, <2>1, <2>3 DEF WillLook
  <2>. QED
    BY <2>2, <2>4 DEF SomeoneWillLook
<1>5. CASE \E q \in Runs : of[q] = d
  <2>1. \A q \in Runs : Over(q)
    BY <1>1, <1>5 DEF OwnRedelivery, LateRedelivery
  <2>2. cancelled' = cancelled
    BY <1>1, <2>1
  <2>3. ~SomeoneWillLook
    BY <2>1 DEF SomeoneWillLook, WillLook, Over
  <2>4. CASE HeadUnsent
    <3>1. d # head
      BY <1>5, <2>4 DEF HeadUnsent
    <3>2. \A q \in Runs : of'[q] # head
      BY <1>1, <1>2, <2>4, <3>1 DEF HeadUnsent
    <3>. QED
      BY <1>1, <2>4, <3>1, <3>2 DEF HeadUnsent
  <2>5. CASE LookedAt(head)
    <3>1. PICK q \in Runs \ cancelled :
            seen[q] = head /\ (stage[q] = "not_reviewed" \/ of[q] \in finished)
      BY <2>5 DEF LookedAt
    <3>2. q # r
      BY <1>1, <1>2, <1>3, <3>1 DEF Deliveries
    <3>3. stage'[q] = stage[q] /\ of'[q] = of[q]
      BY <1>1, <1>2, <3>2
    <3>. QED
      BY <1>1, <2>2, <3>1, <3>3 DEF LookedAt
  <2>. QED
    BY <1>1, <2>3, <2>4, <2>5 DEF HeadWatched
<1>. QED
  BY <1>4, <1>5

(* A step of a run keeps the watch: what it was to look at, it looks at    *)
(* next, and no other run's claim to look is touched.                      *)
LEMMA WatchedJobStep ==
  ASSUME LiveInv, ReadTypes, OneRunGoing, HeadWatched, NEW r \in Runs, JobStep(r)
  PROVE  HeadWatched'
<1>0. /\ of \in [Runs -> 0 .. NPushes]
      /\ stage \in [Runs -> Stages]
      /\ seen \in [Runs -> 0 .. NPushes]
  BY DEF LiveInv, StageTypes, ReadTypes
<1>1. UNCHANGED <<head, pending, of, cancelled, lost>>
  BY DEF JobStep, Record, Insert, FetchPull, Claim, FetchExisting, RunReview, KeepBatch,
     Finish, StartPost, Post, githubVars
<1>2. /\ \A q \in Runs \ {r} : stage'[q] = stage[q] /\ seen'[q] = seen[q]
      /\ finished \subseteq finished'
  <2>1. stage' = stage \/ \E where : stage' = [stage EXCEPT ![r] = where]
    BY DEF JobStep, Record, Insert, FetchPull, Claim, FetchExisting, RunReview, KeepBatch,
       Finish, StartPost, Post, GotoStage, jobVars
  <2>2. seen' = seen \/ seen' = [seen EXCEPT ![r] = head]
    BY DEF JobStep, Record, Insert, FetchPull, Claim, FetchExisting, RunReview, KeepBatch,
       Finish, StartPost, Post, jobVars
  <2>3. finished \subseteq finished'
    BY DEF JobStep, Record, Insert, FetchPull, Claim, FetchExisting, RunReview, KeepBatch,
       Finish, StartPost, Post, dbVars
  <2>. QED
    BY <1>0, <2>1, <2>2, <2>3
<1>3. HeadUnsent => HeadUnsent'
  BY <1>1 DEF HeadUnsent
<1>4. seen[r] = head => seen'[r] = head
  BY <1>0 DEF JobStep, Record, Insert, FetchPull, Claim, FetchExisting, RunReview, KeepBatch,
     Finish, StartPost, Post, jobVars
<1>5. stage[r] # "not_reviewed"
  BY DEF JobStep, Record, Insert, FetchPull, Claim, FetchExisting, RunReview, KeepBatch,
     Finish, StartPost, Post, AtStage
<1>6. LookedAt(head) => LookedAt(head)'
  BY <1>1, <1>2, <1>4, <1>5 DEF LookedAt
<1>7. ASSUME lost = {}, NEW q \in Runs \ cancelled, q # r, WillLook(q)
      PROVE  WillLook(q)'
  <2>1. CASE Record(r)
    <3>1. /\ deliveries' = deliveries \cup {of[r]}
          /\ stage[r] = "queued"
      BY <2>1 DEF Record, Insert, AtStage
    <3>2. stage[q] = "queued" => of[q] # of[r]
      BY <1>7, <3>1 DEF OneRunGoing, Over
    <3>. QED
      BY <1>1, <1>2, <1>7, <3>1, <3>2 DEF WillLook
  <2>2. CASE ~Record(r)
    <3>1. deliveries' = deliveries
      BY <2>2 DEF JobStep, FetchPull, Claim, FetchExisting, RunReview, KeepBatch,
         Finish, StartPost, Post, dbVars
    <3>. QED
      BY <1>1, <1>2, <1>7, <3>1 DEF WillLook
  <2>. QED
    BY <2>1, <2>2
<1>8. ASSUME r \notin cancelled, WillLook(r)
      PROVE  WillLook(r)' \/ LookedAt(head)'
  <2>1. CASE Record(r)
    <3>1. stage'[r] = "recorded"
      BY <1>0, <1>8, <2>1 DEF Record, Insert, AtStage, GotoStage, WillLook
    <3>. QED
      BY <3>1 DEF WillLook
  <2>2. CASE FetchPull(r)
    <3>1. seen'[r] = head /\ stage'[r] \in {"pulled", "not_reviewed"}
      BY <1>0, <2>2 DEF FetchPull, GotoStage
    <3>. QED
      BY <1>1, <1>8, <3>1 DEF WillLook, LookedAt
  <2>3. CASE Claim(r)
    <3>1. stage[r] = "pulled" /\ stage'[r] = "claimed" /\ seen' = seen
      BY <1>0, <2>3 DEF Claim, AtStage, GotoStage, LiveInv, ClaimFollowsWork
    <3>. QED
      BY <1>1, <1>8, <3>1 DEF WillLook
  <2>4. CASE FetchExisting(r) \/ RunReview(r)
    <3>1. /\ stage[r] \in {"claimed", "fetched"}
          /\ stage'[r] \in {"fetched", "reviewed"}
          /\ seen' = seen
      BY <1>0, <2>4 DEF FetchExisting, RunReview, KeepBatch, AtStage, GotoStage
    <3>. QED
      BY <1>1, <1>8, <3>1 DEF WillLook
  <2>5. CASE Finish(r)
    <3>1. stage[r] = "reviewed" /\ seen' = seen /\ of[r] \in finished'
      BY <2>5 DEF Finish, AtStage
    <3>2. seen'[r] = head
      BY <1>8, <3>1 DEF WillLook
    <3>. QED
      BY <1>1, <1>8, <3>1, <3>2 DEF LookedAt
  <2>6. CASE StartPost(r) \/ Post(r)
    BY <1>8, <2>6 DEF StartPost, Post, AtStage, WillLook
  <2>. QED
    BY <2>1, <2>2, <2>3, <2>4, <2>5, <2>6 DEF JobStep
<1>9. lost = {} /\ SomeoneWillLook => SomeoneWillLook' \/ LookedAt(head)'
  <2>. SUFFICES ASSUME lost = {}, NEW q \in Runs \ cancelled, WillLook(q)
                PROVE  SomeoneWillLook' \/ LookedAt(head)'
    BY DEF SomeoneWillLook
  <2>1. WillLook(q)' \/ LookedAt(head)'
    BY <1>7, <1>8
  <2>. QED
    BY <1>1, <2>1 DEF SomeoneWillLook
<1>. QED
  BY <1>1, <1>3, <1>6, <1>9 DEF HeadWatched

LEMMA HeadWatchedNext ==
  ASSUME Core, LiveInv, ReadTypes, HeadInv, [LiveNext]_liveVars
  PROVE  HeadWatched'
<1>. USE DEF HeadInv
<1>1. ASSUME NEW r \in Runs, NEW d \in Deliveries, Dispatched(r, d)
      PROVE  HeadWatched'
  BY <1>1, WatchedDispatched
<1>2. ASSUME NEW r \in Runs, JobStep(r)
      PROVE  HeadWatched'
  BY <1>2, WatchedJobStep
<1>3. CASE Push
  <2>1. head' = head + 1 /\ pending' = pending \cup {head + 1} /\ of' = of
    BY <1>3 DEF Push
  <2>2. \A r \in Runs : of[r] <= head
    BY DEF SentFirst
  <2>3. head \in Nat /\ \A r \in Runs : of[r] \in Nat
    BY DEF ReadTypes, LiveInv, StageTypes
  <2>4. \A r \in Runs : of'[r] # head'
    BY <2>1, <2>2, <2>3
  <2>. QED
    BY <2>1, <2>4 DEF HeadWatched, HeadUnsent
<1>4. ASSUME NEW d \in Deliveries, Redeliver(d)
      PROVE  HeadWatched'
  <2>1. /\ UNCHANGED <<head, of, cancelled, deliveries, finished, stage, seen, lost>>
        /\ pending \subseteq pending'
    BY <1>4 DEF Redeliver, dbVars, jobVars
  <2>. QED
    BY <2>1 DEF HeadWatched, HeadUnsent, SomeoneWillLook, WillLook, LookedAt
<1>5. ASSUME \/ \E d \in Deliveries : DispatchFails(d)
             \/ \E r \in Runs : Fail(r)
      PROVE  HeadWatched'
  <2>1. lost' # {}
    BY <1>5 DEF DispatchFails, Fail
  <2>. QED
    BY <2>1 DEF HeadWatched
<1>6. ASSUME NEW r \in Runs, CancelKill(r)
      PROVE  HeadWatched'
  <2>1. /\ UNCHANGED <<head, pending, of, cancelled, deliveries, finished, seen, lost>>
        /\ r \in cancelled
    BY <1>6 DEF CancelKill, githubVars, dbVars
  <2>2. stage' = stage \/ stage' = [stage EXCEPT ![r] = "dead"]
    BY <1>6 DEF CancelKill, Die, GotoStage
  <2>3. \A q \in Runs \ cancelled : stage'[q] = stage[q]
    BY <2>1, <2>2 DEF LiveInv, StageTypes
  <2>. QED
    BY <2>1, <2>3 DEF HeadWatched, HeadUnsent, SomeoneWillLook, WillLook, LookedAt
<1>7. ASSUME \/ GitHubAnswers \/ UNCHANGED liveVars
             \/ \E l \in Lines : HumanComment(l)
      PROVE  HeadWatched'
  <2>1. UNCHANGED <<head, pending, of, cancelled, deliveries, finished, stage, seen, lost>>
    BY <1>7 DEF GitHubAnswers, HumanComment, liveVars, githubVars, dbVars, jobVars
  <2>. QED
    BY <2>1 DEF HeadWatched, HeadUnsent, SomeoneWillLook, WillLook, LookedAt
<1>. QED
  BY <1>1, <1>2, <1>3, <1>4, <1>5, <1>6, <1>7 DEF LiveNext

(* When nothing is pending and no run is working, the newest head has been *)
(* looked at by a run nobody cancelled, unless a dispatch or a run failed  *)
(* or a redelivery landed on a working run: deliveries out of order, and   *)
(* cancels, lose no review.  HeadInv is the inductive form of it.          *)
THEOREM NewestAlwaysReviewed == LiveSpec => []NewestReviewed
<1>1. LiveInit => ReadTypes /\ HeadInv
  BY HeadInvInit DEF LiveInit, ReadTypes, Deliveries
<1>2. Core /\ LiveInv /\ ReadTypes /\ HeadInv /\ [LiveNext]_liveVars => ReadTypes' /\ HeadInv'
  BY ReadTypesNext, SentFirstNext, OneRunGoingNext, HeadWatchedNext DEF HeadInv
<1>3. HeadInv => NewestReviewed
  BY DEF HeadInv, HeadWatched, HeadUnsent, SomeoneWillLook, WillLook, NewestReviewed, Quiet, Over
<1>. QED
  BY <1>1, <1>2, <1>3, LiveInvariant, PTL DEF LiveSpec
==============================================================================
