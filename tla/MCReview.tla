------------------------------- MODULE MCReview -------------------------------
(***************************************************************************)
(* The two loops of a review job that must end, checked in one run: the    *)
(* review itself, with two places, a cap of one, two providers and two     *)
(* research turns; and the walk of a listing through the HTTP cache.  They *)
(* share no state: a behaviour belongs to one of them and the variables of *)
(* the other rest.                                                         *)
(***************************************************************************)
EXTENDS ReviewPipeline, MCPageCache

CONSTANTS a, b

(* Every list of at most three drafts.                                     *)
ShortAnswers == UNION {[1 .. n -> Item] : n \in 0 .. 3}

VARIABLE loop

vars == <<reviewVars, cacheVars, loop>>

Init ==
  /\ loop \in {"review", "walk"}
  /\ PipelineInit /\ (loop # "review" => commentable = {} /\ existing = {})
  /\ CacheInit /\ (loop # "walk" => site = [u \in Urls |-> CHOOSE v \in Versions : TRUE])

Next ==
  \/ loop = "review" /\ PipelineNext /\ UNCHANGED <<cacheVars, loop>>
  \/ loop = "walk" /\ CacheNext /\ UNCHANGED <<reviewVars, loop>>

(* The coroutine of the review is resumed, and a walk goes on.             *)
ReviewStep == loop = "review" /\ PipelineNext /\ UNCHANGED <<cacheVars, loop>>
CacheStep == loop = "walk" /\ WalkStep /\ UNCHANGED <<reviewVars, loop>>

Spec == Init /\ [][Next]_vars /\ WF_vars(ReviewStep) /\ WF_vars(CacheStep)

LoopsTypeOK == PipelineTypeOK /\ CacheTypeOK
=============================================================================
