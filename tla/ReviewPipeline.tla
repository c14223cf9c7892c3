--------------------------- MODULE ReviewPipeline ---------------------------
(***************************************************************************)
(* review() of review/pipeline.py: from the hunks of a pull request to the *)
(* drafts that may be posted.  An optional research loop with tools, one   *)
(* drafting call, the deterministic gates, one filter call, and the cap.   *)
(* Every inference call may fail, and every answer may be malformed.       *)
(*                                                                         *)
(* A draft is a place and whether the model's own critique passed it; a    *)
(* filter answer is the verdicts by position, the last one given winning,  *)
(* so a partial function from positions to keep or not.                    *)
(***************************************************************************)
EXTENDS Inference, FiniteSets

CONSTANTS
  Places,       \* (path, line) pairs
  Cap,          \* MAX_COMMENTS_PER_PR
  Answers,      \* the lists of drafts a drafting call may return
  MaxTurns,     \* MAX_TOOL_TURNS
  MaxAsked,     \* tools one turn asks for, at most
  Ceiling       \* TOOL_CONVERSATION_CEILING, in messages

Item == [place : Places, sound : BOOLEAN]

ASSUME PipelineAssumption ==
  /\ Cap \in Nat \ {0}
  /\ Answers \subseteq Seq(Item)
  /\ MaxTurns \in Nat /\ MaxAsked \in Nat /\ Ceiling \in Nat

VARIABLES
  commentable,  \* places in the diff of the shown hunks
  existing,     \* places that carry a comment already
  phase,        \* where review() is
  turn,         \* research turns begun
  convo,        \* messages in the research conversation
  calls,        \* the calls recorded
  grounding,    \* the research turns the review records
  items,        \* the drafts the model answered with
  fates,        \* the fate of each draft gated so far
  standing,     \* indices of the drafts the filter is asked about
  seen,         \* their places
  decided,      \* the filter's verdicts
  judged,       \* how many of the standing drafts are judged
  kept,         \* how many of them are kept
  outcome       \* no_comment, "commented" for None, "none" before the end

inputVars == <<commentable, existing>>
researchVars == <<turn, convo, grounding>>
gateVars == <<items, fates, standing, seen>>
judgeVars == <<decided, judged, kept>>
pipelineVars == <<inputVars, phase, researchVars, calls, gateVars, judgeVars, outcome>>
reviewVars == <<callVars, pipelineVars>>

Phases == {"fit", "research", "researching", "draft", "drafting", "gate",
           "filter", "filtering", "judge", "done"}
Fates == {"self_critique", "not_commentable", "duplicate", "already_commented",
          "unjudged", "filtered", "over_cap", "kept"}
NoComment == {"nothing_reviewable", "too_large", "model_silent", "filtered_all",
              "rate_limited", "unavailable", "malformed"}

PipelineTypeOK ==
  /\ CallTypeOK
  /\ commentable \subseteq Places
  /\ existing \subseteq Places
  /\ phase \in Phases
  /\ turn \in 0 .. MaxTurns
  /\ convo \in Nat
  /\ calls \in Seq({"tools", "draft", "filter"})
  /\ grounding \in 0 .. MaxTurns
  /\ items \in Seq(Item)
  /\ fates \in Seq(Fates)
  /\ Len(fates) <= Len(items)
  /\ standing \in Seq(Nat)
  /\ seen \subseteq Places
  /\ decided \in [1 .. Len(standing) -> {"keep", "drop", "missing"}]
  /\ judged \in 0 .. Len(standing)
  /\ kept \in 0 .. Cap
  /\ outcome \in NoComment \cup {"none", "commented"}

PipelineInit ==
  /\ CallInit
  /\ commentable \in SUBSET Places
  /\ existing \in SUBSET Places
  /\ phase = "fit"
  /\ turn = 0
  /\ convo = 2
  /\ calls = <<>>
  /\ grounding = 0
  /\ items = <<>>
  /\ fates = <<>>
  /\ standing = <<>>
  /\ seen = {}
  /\ decided = <<>>
  /\ judged = 0
  /\ kept = 0
  /\ outcome = "none"

-----------------------------------------------------------------------------
At(where) == phase = where
End(why) == phase' = "done" /\ outcome' = why

(***************************************************************************)
(* Nothing to review, nothing that fits the call, or on to the call: with  *)
(* a toolbox (PR_LENS_TOOLS) after the research loop, else at once.        *)
(***************************************************************************)
Fit ==
  /\ At("fit")
  /\ \/ /\ End("nothing_reviewable") \/ End("too_large")
     \/ /\ phase' \in {"research", "draft"}
        /\ UNCHANGED outcome
  /\ UNCHANGED <<callVars, inputVars, researchVars, calls, gateVars, judgeVars>>

(***************************************************************************)
(* The research loop.                                                      *)
(***************************************************************************)
StartTurn ==
  /\ At("research")
  /\ turn < MaxTurns
  /\ convo <= Ceiling
  /\ Complete
  /\ turn' = turn + 1
  /\ phase' = "researching"
  /\ UNCHANGED <<inputVars, convo, calls, grounding, gateVars, judgeVars, outcome>>

(* What the loop did is on the record before the drafting call is made.    *)
EndResearch(made) ==
  /\ phase' = "draft"
  /\ grounding' = Len(made)

NoTurnLeft ==
  /\ At("research")
  /\ turn = MaxTurns \/ convo > Ceiling
  /\ EndResearch(calls)
  /\ UNCHANGED <<callVars, inputVars, turn, convo, calls, gateVars, judgeVars, outcome>>

(* A turn that asks for tools adds the model's message and one per answer. *)
LookUp ==
  /\ At("researching")
  /\ status = "answered"
  /\ calls' = Append(calls, "tools")
  /\ \E asked \in 0 .. MaxAsked :
       IF asked = 0
         THEN EndResearch(calls') /\ UNCHANGED convo
         ELSE /\ convo' = convo + 1 + asked
              /\ phase' = "research"
              /\ UNCHANGED grounding
  /\ UNCHANGED <<callVars, inputVars, turn, gateVars, judgeVars, outcome>>

(* "Failing to enrich is not failing to review": the drafting call follows. *)
ResearchUnavailable ==
  /\ At("researching")
  /\ status = "unavailable"
  /\ EndResearch(calls)
  /\ UNCHANGED <<callVars, inputVars, turn, convo, calls, gateVars, judgeVars, outcome>>

(***************************************************************************)
(* The drafting call and the filter call.                                  *)
(***************************************************************************)
Ask ==
  /\ phase \in {"draft", "filter"}
  /\ Complete
  /\ phase' = IF At("draft") THEN "drafting" ELSE "filtering"
  /\ UNCHANGED <<inputVars, researchVars, calls, gateVars, judgeVars, outcome>>

Unavailable ==
  /\ phase \in {"drafting", "filtering"}
  /\ status = "unavailable"
  /\ End(IF allLimited THEN "rate_limited" ELSE "unavailable")
  /\ UNCHANGED <<callVars, inputVars, researchVars, calls, gateVars, judgeVars>>

(* _parse: cut off, not JSON, or not the schema.                           *)
Malformed ==
  /\ phase \in {"drafting", "filtering"}
  /\ status = "answered"
  /\ calls' = Append(calls, IF At("drafting") THEN "draft" ELSE "filter")
  /\ End("malformed")
  /\ UNCHANGED <<callVars, inputVars, researchVars, gateVars, judgeVars>>

Drafted ==
  /\ At("drafting")
  /\ status = "answered"
  /\ calls' = Append(calls, "draft")
  /\ items' \in Answers
  /\ IF items' = <<>> THEN End("model_silent")
                      ELSE phase' = "gate" /\ UNCHANGED outcome
  /\ UNCHANGED <<callVars, inputVars, researchVars, fates, standing, seen, judgeVars>>

(***************************************************************************)
(* _gate, one draft a step.                                                *)
(***************************************************************************)
Gated == Len(fates) + 1

(* Mutant: the existing comments are not looked at.                        *)
FateIgnoresExisting(item) ==
  IF ~item.sound THEN "self_critique"
  ELSE IF item.place \notin commentable THEN "not_commentable"
  ELSE IF item.place \in seen THEN "duplicate"
  ELSE "unjudged"

Fate(item) ==
  IF ~item.sound THEN "self_critique"
  ELSE IF item.place \notin commentable THEN "not_commentable"
  ELSE IF item.place \in seen THEN "duplicate"
  ELSE IF item.place \in existing THEN "already_commented"
  ELSE "unjudged"

(* Mutant: any draft of a place hides the later ones.                      *)
GateMarksAll ==
  /\ At("gate")
  /\ Len(fates) < Len(items)
  /\ LET fate == Fate(items[Gated])
     IN  /\ fates' = Append(fates, fate)
         /\ standing' = IF fate = "unjudged" THEN Append(standing, Gated) ELSE standing
         /\ seen' = seen \cup {items[Gated].place}
  /\ decided' = [i \in 1 .. Len(standing') |-> "missing"]
  /\ UNCHANGED <<callVars, inputVars, phase, researchVars, calls, items, judged, kept, outcome>>

Gate ==
  /\ At("gate")
  /\ Len(fates) < Len(items)
  /\ LET fate == Fate(items[Gated])
     IN  /\ fates' = Append(fates, fate)
         /\ IF fate = "unjudged"
              THEN /\ standing' = Append(standing, Gated)
                   /\ seen' = seen \cup {items[Gated].place}
              ELSE UNCHANGED <<standing, seen>>
  /\ decided' = [i \in 1 .. Len(standing') |-> "missing"]
  /\ UNCHANGED <<callVars, inputVars, phase, researchVars, calls, items, judged, kept, outcome>>

GateDone ==
  /\ At("gate")
  /\ Len(fates) = Len(items)
  /\ IF standing = <<>> THEN End("filtered_all")
                        ELSE phase' = "filter" /\ UNCHANGED outcome
  /\ UNCHANGED <<callVars, inputVars, researchVars, calls, gateVars, judgeVars>>

(***************************************************************************)
(* The filter's verdicts, and the cap, one standing draft a step.          *)
(***************************************************************************)
Filtered ==
  /\ At("filtering")
  /\ status = "answered"
  /\ calls' = Append(calls, "filter")
  /\ decided' \in [1 .. Len(standing) -> {"keep", "drop", "missing"}]
  /\ phase' = "judge"
  /\ UNCHANGED <<callVars, inputVars, researchVars, gateVars, judged, kept, outcome>>

(* Mutants: the cap is off by one; the cap counts the drafts judged.       *)
VerdictFateOneMore(verdict) ==
  IF verdict # "keep" THEN "filtered"
  ELSE IF kept > Cap THEN "over_cap"
  ELSE "kept"

VerdictFateByPosition(verdict) ==
  IF verdict # "keep" THEN "filtered"
  ELSE IF judged >= Cap THEN "over_cap"
  ELSE "kept"

(* A draft the filter did not mention is dropped like a refused one.       *)
VerdictFate(verdict) ==
  IF verdict # "keep" THEN "filtered"
  ELSE IF kept >= Cap THEN "over_cap"
  ELSE "kept"

Judge ==
  /\ At("judge")
  /\ judged < Len(standing)
  /\ LET fate == VerdictFate(decided[judged + 1])
     IN  /\ fates' = [fates EXCEPT ![standing[judged + 1]] = fate]
         /\ kept' = IF fate = "kept" THEN kept + 1 ELSE kept
  /\ judged' = judged + 1
  /\ UNCHANGED <<callVars, inputVars, phase, researchVars, calls, items, standing, seen,
                 decided, outcome>>

(* Mutant: the outcome goes by the drafts that stood, not the ones kept.   *)
JudgeDoneByStanding ==
  /\ At("judge")
  /\ judged = Len(standing)
  /\ End(IF standing # <<>> THEN "commented" ELSE "filtered_all")
  /\ UNCHANGED <<callVars, inputVars, researchVars, calls, gateVars, judgeVars>>

JudgeDone ==
  /\ At("judge")
  /\ judged = Len(standing)
  /\ End(IF kept > 0 THEN "commented" ELSE "filtered_all")
  /\ UNCHANGED <<callVars, inputVars, researchVars, calls, gateVars, judgeVars>>

Calling ==
  /\ phase \in {"researching", "drafting", "filtering"}
  /\ CallStep
  /\ UNCHANGED pipelineVars

PipelineNext ==
  \/ Fit
  \/ StartTurn \/ NoTurnLeft \/ LookUp \/ ResearchUnavailable
  \/ Ask \/ Calling \/ Unavailable \/ Malformed
  \/ Drafted \/ Gate \/ GateDone
  \/ Filtered \/ Judge \/ JudgeDone

PipelineSpec == PipelineInit /\ [][PipelineNext]_reviewVars

(* One coroutine, which the event loop resumes; each HTTP call times out.  *)
FairPipelineSpec == PipelineSpec /\ WF_reviewVars(PipelineNext)

-----------------------------------------------------------------------------
(***************************************************************************)
(* Safety.                                                                 *)
(***************************************************************************)
KeptAt == {i \in 1 .. Len(fates) : fates[i] = "kept"}

(* What leaves review() for post() passed every gate: the model's own      *)
(* critique, a place GitHub accepts, no comment there yet, no second draft *)
(* of one place, a keep verdict of the filter, and the cap.                *)
KeptIsSafe ==
  At("done") =>
    /\ Cardinality(KeptAt) <= Cap
    /\ \A i \in KeptAt :
         /\ items[i].sound
         /\ items[i].place \in commentable \ existing
         /\ \E j \in 1 .. Len(standing) : standing[j] = i /\ decided[j] = "keep"
         /\ \A k \in KeptAt : items[k].place = items[i].place => k = i

(* A place with a sound draft is not lost to an unsound one before it: the *)
(* filter is asked about the first draft of each open place that passes.   *)
(* And a keep verdict is only lost to the cap: the cap is full of earlier  *)
(* drafts whenever one is turned away.                                     *)
NothingSoundIsLost ==
  /\ phase \in {"filter", "filtering", "judge"} =>
       \A i \in 1 .. Len(items) :
         items[i].sound /\ items[i].place \in commentable \ existing =>
           \E j \in 1 .. Len(standing) :
             /\ standing[j] <= i
             /\ items[standing[j]].place = items[i].place
  /\ \A i \in 1 .. Len(fates) :
       fates[i] = "over_cap" => Cardinality({k \in KeptAt : k < i}) = Cap

(* The result tells what happened.  A review commented exactly when it     *)
(* kept something, and a draft is left unjudged only by a filter call that *)
(* failed.  "Rate limited" is what every provider said to its last call.   *)
(* The record of the research agrees with the calls made, also when the    *)
(* drafting call fails ("the runs that failed were exactly the runs with   *)
(* no record of what the loop had done").                                  *)
ResultIsTrue ==
  /\ outcome = "rate_limited" => RateLimitIsEveryones /\ allLimited
  /\ At("done") =>
       /\ outcome = "commented" <=> KeptAt # {}
       /\ (\E i \in 1 .. Len(fates) : fates[i] = "unjudged") =>
            outcome \in {"rate_limited", "unavailable", "malformed"}
       /\ grounding = Cardinality({i \in 1 .. Len(calls) : calls[i] = "tools"})

(***************************************************************************)
(* Liveness, under FairPipelineSpec.                                       *)
(***************************************************************************)

(* A review that found something to review ends, however often providers   *)
(* ask to be waited for and whatever the model asks to look up.            *)
ReviewEnds == phase # "fit" ~> At("done")
=============================================================================
