------------------------ MODULE ReviewPipelineProofs ------------------------
(***************************************************************************)
(* For all drafts, caps, providers and bounds of the research loop: what   *)
(* review() hands to post() passed every gate, what it turns away it turns *)
(* away for a reason, and what it reports is what happened                 *)
(* (review/pipeline.py, review/provider.py).                               *)
(***************************************************************************)
EXTENDS ReviewPipeline, FiniteSetTheorems, TLAPS

(* A call: the providers behind the one being tried are the ones that      *)
(* failed, and the flag says how.                                          *)
CallInv ==
  /\ CallTypeOK
  /\ status \in {"trying", "answered"} => Len(failures) = client - 1
  /\ status = "unavailable" => Len(failures) = NClients
  /\ allLimited <=> \A i \in 1 .. Len(failures) : failures[i] = "limited"

(* The calls recorded are the research turns, and then the others.         *)
ResearchInv ==
  /\ turn \in 0 .. MaxTurns
  /\ convo \in Nat
  /\ calls \in Seq({"tools", "draft", "filter"})
  /\ grounding \in 0 .. MaxTurns
  /\ phase = "fit" => Len(calls) = 0 /\ grounding = 0 /\ turn = 0
  /\ phase = "research" => Len(calls) <= turn
  /\ phase = "researching" => Len(calls) < turn
  /\ phase \in {"research", "researching"} =>
       \A i \in 1 .. Len(calls) : calls[i] = "tools"
  /\ phase \notin {"research", "researching"} =>
       /\ grounding <= Len(calls)
       /\ \A i \in 1 .. Len(calls) : calls[i] = "tools" <=> i <= grounding

Early == {"fit", "research", "researching", "draft", "drafting"}
Asking == {"filter", "filtering"}

Stood == {"unjudged", "filtered", "over_cap", "kept"}

GateTypeOK ==
  /\ commentable \subseteq Places /\ existing \subseteq Places /\ seen \subseteq Places
  /\ items \in Seq(Item) /\ fates \in Seq(Fates) /\ standing \in Seq(Nat)
  /\ Len(fates) <= Len(items)

(* What stands passed the gates, one draft a place, in the order of the    *)
(* answer; of each open place that was drafted soundly the first stands.   *)
GateInv ==
  /\ GateTypeOK
  /\ phase \in Early => Len(fates) = 0 /\ Len(standing) = 0 /\ seen = {} /\ Len(items) = 0
  /\ phase \in Asking \cup {"judge"} => Len(fates) = Len(items)
  /\ \A i \in 1 .. Len(standing) :
       /\ standing[i] \in 1 .. Len(fates)
       /\ items[standing[i]].sound
       /\ items[standing[i]].place \in (commentable \ existing) \cap seen
  /\ \A i, j \in 1 .. Len(standing) : i < j =>
       /\ standing[i] < standing[j]
       /\ items[standing[i]].place # items[standing[j]].place
  /\ \A p \in seen : \E j \in 1 .. Len(standing) : items[standing[j]].place = p
  /\ \A i \in 1 .. Len(fates) :
       items[i].sound /\ items[i].place \in commentable \ existing =>
         \E j \in 1 .. Len(standing) :
           standing[j] <= i /\ items[standing[j]].place = items[i].place
  /\ \A i \in 1 .. Len(fates) : fates[i] \in Stood =>
       \E j \in 1 .. Len(standing) : standing[j] = i

(* The first of the standing drafts are judged, by their own verdicts; and *)
(* one is turned away at the cap only when the cap is full of earlier ones. *)
JudgeInv ==
  /\ decided \in [1 .. Len(standing) -> {"keep", "drop", "missing"}]
  /\ judged \in 0 .. Len(standing) /\ kept \in 0 .. Cap
  /\ phase \notin {"judge", "done"} => judged = 0
  /\ judged = 0 => kept = 0
  /\ IsFiniteSet(KeptAt) /\ kept = Cardinality(KeptAt)
  /\ \A j \in 1 .. Len(standing) :
       /\ j > judged <=> fates[standing[j]] = "unjudged"
       /\ fates[standing[j]] = "kept" => decided[j] = "keep"
       /\ fates[standing[j]] = "over_cap" =>
            kept = Cap /\ \A k \in KeptAt : k < standing[j]

(* How it ended.                                                           *)
OutcomeInv ==
  /\ phase \in Phases
  /\ outcome \in NoComment \cup {"none", "commented"}
  /\ outcome = "rate_limited" => phase = "done" /\ allLimited
  /\ phase = "done" =>
       /\ outcome = "commented" <=> kept > 0
       /\ judged < Len(standing) => outcome \in {"rate_limited", "unavailable", "malformed"}

PipelineInv == CallInv /\ ResearchInv /\ GateInv /\ JudgeInv /\ OutcomeInv

-----------------------------------------------------------------------------
LEMMA InitHolds == PipelineInit => PipelineInv
<1> SUFFICES ASSUME PipelineInit  PROVE PipelineInv
  OBVIOUS
<1> USE DEF PipelineInit
<1>1. CallInv
  BY ClientsAssumption DEF CallInit, CallInv, CallTypeOK
<1>2. ResearchInv  BY PipelineAssumption DEF ResearchInv
<1>3. GateInv  BY DEF GateInv, GateTypeOK, Early, Asking
<1>4. JudgeInv
  <2>1. KeptAt = {}  BY DEF KeptAt
  <2>2. decided \in [1 .. Len(standing) -> {"keep", "drop", "missing"}]
    BY DEF PipelineInit
  <2> QED  BY <2>1, <2>2, FS_EmptySet, PipelineAssumption DEF JudgeInv
<1>5. OutcomeInv  BY DEF OutcomeInv, Phases, At
<1> QED  BY <1>1, <1>2, <1>3, <1>4, <1>5 DEF PipelineInv

-----------------------------------------------------------------------------
(***************************************************************************)
(* The calls.                                                              *)
(***************************************************************************)
LEMMA CompleteKeepsCall == ASSUME CallInv, Complete PROVE CallInv'
BY ClientsAssumption DEF CallInv, CallTypeOK, Complete

LEMMA FailOverKeepsCall ==
  ASSUME CallInv, status = "trying", NEW kind \in {"limited", "error"}, FailOver(kind),
         allLimited' \in BOOLEAN, allLimited' <=> (allLimited /\ kind = "limited")
  PROVE  CallInv'
<1> USE DEF CallInv, CallTypeOK, FailOver
<1>1. /\ failures' = Append(failures, kind) /\ failures' \in Seq({"limited", "error"})
      /\ Len(failures') = Len(failures) + 1
      /\ \A i \in 1 .. Len(failures) : failures'[i] = failures[i]
      /\ failures'[Len(failures) + 1] = kind
  OBVIOUS
<1>2. allLimited' <=> \A i \in 1 .. Len(failures') : failures'[i] = "limited"
  BY <1>1
<1>3. CASE client < NClients
  BY <1>1, <1>2, <1>3, ClientsAssumption
<1>4. CASE ~(client < NClients)
  BY <1>1, <1>2, <1>4, ClientsAssumption
<1> QED  BY <1>3, <1>4

LEMMA StepKeepsCall == ASSUME CallInv, CallStep PROVE CallInv'
<1>1. CASE ProviderAnswers
  BY <1>1 DEF CallInv, CallTypeOK, ProviderAnswers
<1>2. CASE WaitOut
  BY <1>2, ClientsAssumption DEF CallInv, CallTypeOK, WaitOut
<1>3. CASE LimitedPastWaiting
  <2>1. allLimited' \in BOOLEAN /\ (allLimited' <=> (allLimited /\ "limited" = "limited"))
    BY <1>3 DEF LimitedPastWaiting, CallInv, CallTypeOK
  <2> QED  BY <1>3, <2>1, FailOverKeepsCall DEF LimitedPastWaiting
<1>4. CASE ProviderFails
  <2>1. allLimited' \in BOOLEAN /\ (allLimited' <=> (allLimited /\ "error" = "limited"))
    BY <1>4 DEF ProviderFails
  <2> QED  BY <1>4, <2>1, FailOverKeepsCall DEF ProviderFails
<1> QED  BY <1>1, <1>2, <1>3, <1>4 DEF CallStep

LEMMA CallInvNext == ASSUME CallInv, [PipelineNext]_reviewVars PROVE CallInv'
<1>1. UNCHANGED callVars => CallInv'
  BY DEF callVars, CallInv, CallTypeOK
<1>2. CASE StartTurn \/ Ask
  BY <1>2, CompleteKeepsCall DEF StartTurn, Ask
<1>3. CASE Calling
  BY <1>3, StepKeepsCall DEF Calling
<1>4. CASE UNCHANGED reviewVars \/ Fit \/ NoTurnLeft \/ LookUp \/ ResearchUnavailable
  BY <1>1, <1>4 DEF reviewVars, Fit, NoTurnLeft, LookUp, ResearchUnavailable
<1>5. CASE Unavailable \/ Malformed \/ Drafted \/ Gate \/ GateDone \/ Filtered \/ Judge \/ JudgeDone
  BY <1>1, <1>5 DEF Unavailable, Malformed, Drafted, Gate, GateDone, Filtered, Judge, JudgeDone
<1> QED  BY <1>2, <1>3, <1>4, <1>5 DEF PipelineNext

-----------------------------------------------------------------------------
(***************************************************************************)
(* The record of the research.                                             *)
(***************************************************************************)
LEMMA ResearchInvNext == ASSUME ResearchInv, [PipelineNext]_reviewVars PROVE ResearchInv'
<1> USE PipelineAssumption DEF At, researchVars
<1>1. ASSUME UNCHANGED <<researchVars, calls>>, phase' = phase  PROVE ResearchInv'
  BY <1>1 DEF ResearchInv
<1>2. ASSUME UNCHANGED <<turn, convo, grounding>>, phase \notin {"research", "researching"},
             phase' \notin {"fit", "research", "researching"},
             calls' = calls \/ (\E c \in {"draft", "filter"} : calls' = Append(calls, c))
      PROVE  ResearchInv'
  <2>1. CASE calls' = calls  BY <1>2, <2>1 DEF ResearchInv
  <2>2. ASSUME NEW c \in {"draft", "filter"}, calls' = Append(calls, c)  PROVE ResearchInv'
    <3>1. /\ calls' \in Seq({"tools", "draft", "filter"}) /\ Len(calls') = Len(calls) + 1
          /\ \A i \in 1 .. Len(calls) : calls'[i] = calls[i]
          /\ calls'[Len(calls) + 1] # "tools"
      BY <2>2 DEF ResearchInv
    <3>2. \A i \in 1 .. Len(calls') : i \in 1 .. Len(calls) \/ i = Len(calls) + 1
      BY <3>1 DEF ResearchInv
    <3> QED  BY <1>2, <3>1, <3>2 DEF ResearchInv
  <2> QED  BY <1>2, <2>1, <2>2
<1>3. ASSUME Fit  PROVE ResearchInv'
  BY <1>3 DEF Fit, End, ResearchInv
<1>4. ASSUME StartTurn  PROVE ResearchInv'
  BY <1>4 DEF StartTurn, ResearchInv
<1>5. ASSUME NoTurnLeft \/ ResearchUnavailable  PROVE ResearchInv'
  BY <1>5 DEF NoTurnLeft, ResearchUnavailable, EndResearch, ResearchInv
<1>6. ASSUME LookUp  PROVE ResearchInv'
  <2>1. /\ phase = "researching" /\ turn' = turn /\ calls' = Append(calls, "tools")
        /\ \E asked \in 0 .. MaxAsked :
             \/ phase' = "draft" /\ grounding' = Len(calls') /\ convo' = convo
             \/ phase' = "research" /\ grounding' = grounding /\ convo' = convo + 1 + asked
    BY <1>6 DEF LookUp, EndResearch
  <2>2. /\ calls' \in Seq({"tools", "draft", "filter"}) /\ Len(calls') = Len(calls) + 1
        /\ \A i \in 1 .. Len(calls') : calls'[i] = "tools"
    BY <2>1 DEF ResearchInv
  <2> QED  BY <2>1, <2>2 DEF ResearchInv
<1>7. ASSUME Ask \/ Unavailable \/ Malformed \/ Drafted \/ GateDone \/ Filtered \/ JudgeDone
      PROVE  ResearchInv'
  <2> USE DEF End
  <2>1. CASE Ask \/ Unavailable  BY <2>1, <1>2 DEF Ask, Unavailable
  <2>2. CASE Malformed  BY <2>2, <1>2 DEF Malformed
  <2>3. CASE Drafted  BY <2>3, <1>2 DEF Drafted
  <2>4. CASE Filtered  BY <2>4, <1>2 DEF Filtered
  <2>5. CASE GateDone \/ JudgeDone  BY <2>5, <1>2 DEF GateDone, JudgeDone
  <2> QED  BY <1>7, <2>1, <2>2, <2>3, <2>4, <2>5
<1>8. CASE UNCHANGED reviewVars \/ Calling \/ Gate \/ Judge
  BY <1>1, <1>8 DEF reviewVars, pipelineVars, Calling, Gate, Judge
<1> QED  BY <1>3, <1>4, <1>5, <1>6, <1>7, <1>8 DEF PipelineNext

-----------------------------------------------------------------------------
(***************************************************************************)
(* The gates.                                                              *)
(***************************************************************************)
(* A draft that does not stand leaves what stands as it was.               *)
LEMMA TurnsAway ==
  ASSUME GateInv, Gate, Fate(items[Gated]) # "unjudged"
  PROVE  GateInv'
<1> DEFINE n == Len(fates)
           g == n + 1
           fate == Fate(items[g])
<1>1. /\ phase = "gate" /\ n < Len(items) /\ phase' = phase
      /\ fates' = Append(fates, fate)
      /\ UNCHANGED <<commentable, existing, items, standing, seen>>
  BY DEF Gate, Gated, At, inputVars
<1>2. n \in Nat /\ g \in 1 .. Len(items) /\ items[g] \in Item
  BY <1>1 DEF GateInv, GateTypeOK
<1>3. fate \in Fates \ Stood
  BY DEF Fate, Fates, Stood, Gated
<1>4. items[g].sound /\ items[g].place \in commentable \ existing => items[g].place \in seen
  BY DEF Fate, Gated
<1>5. /\ fates' \in Seq(Fates) /\ Len(fates') = g
      /\ \A i \in 1 .. n : fates'[i] = fates[i]
      /\ fates'[g] = fate
  <2> HIDE DEF fate
  <2> QED  BY <1>1, <1>3 DEF GateInv, GateTypeOK
<1> HIDE DEF fate
<1>6. GateTypeOK'  BY <1>1, <1>2, <1>5 DEF GateInv, GateTypeOK
<1>7. \A i \in 1 .. Len(standing) : standing[i] \in 1 .. n
  BY DEF GateInv
<1>8. \A i \in 1 .. g :
        items[i].sound /\ items[i].place \in commentable \ existing =>
          \E j \in 1 .. Len(standing) :
            standing[j] <= i /\ items[standing[j]].place = items[i].place
  <2>1. ASSUME items[g].sound, items[g].place \in commentable \ existing
        PROVE  \E j \in 1 .. Len(standing) :
                 standing[j] <= g /\ items[standing[j]].place = items[g].place
    <3>1. PICK j \in 1 .. Len(standing) : items[standing[j]].place = items[g].place
      BY <1>4, <2>1 DEF GateInv
    <3> QED  BY <1>2, <1>7, <3>1
  <2>2. \A i \in 1 .. g : i = g \/ i \in 1 .. n  BY <1>2
  <2> HIDE DEF g, n
  <2> QED  BY <2>1, <2>2 DEF GateInv, n
<1>9. \A i \in 1 .. g : fates'[i] \in Stood => \E j \in 1 .. Len(standing) : standing[j] = i
  BY <1>2, <1>3, <1>5 DEF GateInv
<1> QED  BY <1>1, <1>2, <1>5, <1>6, <1>7, <1>8, <1>9 DEF GateInv, Early, Asking

(* One that stands is the first of its place, and later than the others.   *)
LEMMA LetsStand ==
  ASSUME GateInv, Gate, Fate(items[Gated]) = "unjudged"
  PROVE  GateInv'
<1> DEFINE n == Len(fates)
           g == n + 1
           m == Len(standing)
           place == items[g].place
<1>1. /\ phase = "gate" /\ n < Len(items) /\ phase' = phase
      /\ fates' = Append(fates, "unjudged")
      /\ standing' = Append(standing, g)
      /\ seen' = seen \cup {place}
      /\ UNCHANGED <<commentable, existing, items>>
  BY DEF Gate, Gated, At, inputVars
<1>2. n \in Nat /\ g \in 1 .. Len(items) /\ items[g] \in Item /\ m \in Nat
  BY <1>1 DEF GateInv, GateTypeOK
<1>3. items[g].sound /\ place \in commentable \ existing /\ place \notin seen
  BY DEF Fate, Gated
<1>4. /\ fates' \in Seq(Fates) /\ Len(fates') = g
      /\ \A i \in 1 .. n : fates'[i] = fates[i]
      /\ fates'[g] = "unjudged"
  BY <1>1 DEF GateInv, GateTypeOK, Fates
<1>5. /\ standing' \in Seq(Nat) /\ Len(standing') = m + 1
      /\ \A i \in 1 .. m : standing'[i] = standing[i]
      /\ standing'[m + 1] = g
  BY <1>1, <1>2 DEF GateInv, GateTypeOK
<1>6. GateTypeOK'  BY <1>1, <1>2, <1>3, <1>4, <1>5 DEF GateInv, GateTypeOK
<1>7. \A i \in 1 .. m :
        /\ standing[i] \in 1 .. n
        /\ items[standing[i]].sound
        /\ items[standing[i]].place \in (commentable \ existing) \cap seen
  BY DEF GateInv
<1> HIDE DEF n, m, place
<1>8. \A i \in 1 .. m + 1 :
        /\ standing'[i] \in 1 .. g
        /\ items[standing'[i]].sound
        /\ items[standing'[i]].place \in (commentable \ existing) \cap seen'
  <2>1. \A i \in 1 .. m + 1 : i \in 1 .. m \/ i = m + 1  BY <1>2
  <2>2. ASSUME NEW i \in 1 .. m  PROVE standing'[i] \in 1 .. g
    <3>1. standing'[i] = standing[i] /\ standing[i] \in 1 .. n  BY <1>5, <1>7
    <3> QED  BY <1>2, <3>1
  <2>3. standing'[m + 1] \in 1 .. g  BY <1>2, <1>5
  <2>4. items[standing'[m + 1]].place \in seen'  BY <1>1, <1>5 DEF place
  <2> QED  BY <1>1, <1>3, <1>5, <1>7, <2>1, <2>2, <2>3, <2>4 DEF place
<1>9. \A i, j \in 1 .. m + 1 : i < j =>
        /\ standing'[i] < standing'[j]
        /\ items[standing'[i]].place # items[standing'[j]].place
  <2>1. \A i, j \in 1 .. m : i < j =>
          standing[i] < standing[j] /\ items[standing[i]].place # items[standing[j]].place
    BY DEF GateInv, m
  <2> SUFFICES ASSUME NEW i \in 1 .. m + 1, NEW j \in 1 .. m + 1, i < j
               PROVE  /\ standing'[i] < standing'[j]
                      /\ items[standing'[i]].place # items[standing'[j]].place
    OBVIOUS
  <2>2. i \in 1 .. m /\ standing'[i] = standing[i]  BY <1>2, <1>5
  <2>3. CASE j \in 1 .. m  BY <1>5, <2>1, <2>2, <2>3
  <2>4. CASE j = m + 1
    <3>1. standing'[j] = g /\ standing[i] < g  BY <1>2, <1>5, <1>7, <2>2, <2>4
    <3>2. items[standing[i]].place \in seen  BY <1>7, <2>2
    <3> QED  BY <1>3, <2>2, <3>1, <3>2 DEF place
  <2> QED  BY <1>2, <2>3, <2>4
<1>10. \A p \in seen' : \E j \in 1 .. m + 1 : items[standing'[j]].place = p
  <2>1. \A p \in seen : \E j \in 1 .. m : items[standing[j]].place = p
    BY DEF GateInv, m
  <2>2. items[standing'[m + 1]].place = place /\ m + 1 \in 1 .. m + 1
    BY <1>2, <1>5 DEF place
  <2>3. \A j \in 1 .. m : j \in 1 .. m + 1 /\ standing'[j] = standing[j]  BY <1>2, <1>5
  <2> SUFFICES ASSUME NEW p \in seen'
               PROVE  \E j \in 1 .. m + 1 : items[standing'[j]].place = p
    OBVIOUS
  <2>4. CASE p = place  BY <2>2, <2>4
  <2>5. CASE p \in seen
    <3>1. PICK j \in 1 .. m : items[standing[j]].place = p  BY <2>1, <2>5
    <3> QED  BY <2>3, <3>1
  <2> QED  BY <1>1, <2>4, <2>5
<1>11. \A i \in 1 .. g :
         items[i].sound /\ items[i].place \in commentable \ existing =>
           \E j \in 1 .. m + 1 :
             standing'[j] <= i /\ items[standing'[j]].place = items[i].place
  <2>1. \A i \in 1 .. n :
          items[i].sound /\ items[i].place \in commentable \ existing =>
            \E j \in 1 .. m : standing[j] <= i /\ items[standing[j]].place = items[i].place
    BY DEF GateInv, n, m
  <2>2. \A j \in 1 .. m : j \in 1 .. m + 1 /\ standing'[j] = standing[j]  BY <1>2, <1>5
  <2>3. m + 1 \in 1 .. m + 1 /\ standing'[m + 1] = g /\ g <= g  BY <1>2, <1>5
  <2> SUFFICES ASSUME NEW i \in 1 .. g, items[i].sound, items[i].place \in commentable \ existing
               PROVE  \E j \in 1 .. m + 1 :
                        standing'[j] <= i /\ items[standing'[j]].place = items[i].place
    OBVIOUS
  <2>4. CASE i = g  BY <2>3, <2>4
  <2>5. CASE i \in 1 .. n
    <3>1. PICK j \in 1 .. m : standing[j] <= i /\ items[standing[j]].place = items[i].place
      BY <2>1, <2>5
    <3> QED  BY <2>2, <3>1
  <2> QED  BY <1>2, <2>4, <2>5
<1>12. \A i \in 1 .. g : fates'[i] \in Stood => \E j \in 1 .. m + 1 : standing'[j] = i
  <2>1. \A i \in 1 .. n : fates[i] \in Stood => \E j \in 1 .. m : standing[j] = i
    BY DEF GateInv, n, m
  <2> QED  BY <1>2, <1>4, <1>5, <2>1
<1>13. /\ phase' = "gate" /\ Len(fates') = g /\ Len(standing') = m + 1
       /\ UNCHANGED <<commentable, existing, items>>
  BY <1>1, <1>4, <1>5
<1>14. phase' \notin Early /\ phase' \notin Asking \cup {"judge"}
  BY <1>13 DEF Early, Asking
<1> HIDE DEF g
<1> QED  BY <1>6, <1>8, <1>9, <1>10, <1>11, <1>12, <1>13, <1>14 DEF GateInv

(* The judgement changes fates of drafts that stand only.                  *)
LEMMA JudgeKeepsGate == ASSUME GateInv, JudgeInv, Judge PROVE GateInv'
<1> DEFINE s == standing[judged + 1]
           fate == VerdictFate(decided[judged + 1])
<1>1. /\ judged + 1 \in 1 .. Len(standing) /\ s \in 1 .. Len(fates)
      /\ fates' = [fates EXCEPT ![s] = fate]
      /\ UNCHANGED <<commentable, existing, items, standing, seen, phase>>
  BY DEF Judge, JudgeInv, GateInv, inputVars
<1>2. fate \in Fates  BY DEF VerdictFate, Fates
<1>3. \E j \in 1 .. Len(standing) : standing[j] = s  BY <1>1
<1> HIDE DEF s, fate
<1>4. fates' \in Seq(Fates) /\ Len(fates') = Len(fates)
      /\ \A i \in 1 .. Len(fates) : i # s => fates'[i] = fates[i]
  BY <1>1, <1>2 DEF GateInv, GateTypeOK
<1>5. GateTypeOK'  BY <1>1, <1>4 DEF GateInv, GateTypeOK
<1>6. \A i \in 1 .. Len(fates) : fates'[i] \in Stood => \E j \in 1 .. Len(standing) : standing[j] = i
  BY <1>3, <1>4 DEF GateInv
<1> QED  BY <1>1, <1>4, <1>5, <1>6 DEF GateInv

LEMMA GateInvNext ==
  ASSUME GateInv, JudgeInv, [PipelineNext]_reviewVars  PROVE GateInv'
<1>1. ASSUME UNCHANGED <<inputVars, gateVars>>,
             phase' \in Early => phase \in Early,
             phase' \in Asking \cup {"judge"} => Len(fates) = Len(items)
      PROVE  GateInv'
  BY <1>1 DEF GateInv, GateTypeOK, inputVars, gateVars
<1>2. phase \in Asking \cup {"judge"} => Len(fates) = Len(items)  BY DEF GateInv
<1> USE DEF At, End, Early, Asking
<1>3. CASE Fit  BY <1>1, <1>3 DEF Fit
<1>4. CASE StartTurn \/ NoTurnLeft \/ ResearchUnavailable
  BY <1>1, <1>4 DEF StartTurn, NoTurnLeft, ResearchUnavailable, EndResearch
<1>5. CASE LookUp  BY <1>1, <1>5 DEF LookUp, EndResearch
<1>6. CASE Ask  BY <1>1, <1>2, <1>6 DEF Ask
<1>7. CASE Unavailable \/ Malformed  BY <1>1, <1>7 DEF Unavailable, Malformed
<1>8. CASE Drafted
  <2>1. /\ items' \in Seq(Item) /\ phase = "drafting"
        /\ UNCHANGED <<commentable, existing, fates, standing, seen>>
        /\ (items' = <<>> /\ phase' = "done") \/ phase' = "gate"
    BY <1>8, PipelineAssumption DEF Drafted, inputVars
  <2>2. Len(fates) = 0 /\ Len(standing) = 0 /\ seen = {}
    BY <2>1 DEF GateInv
  <2> QED  BY <2>1, <2>2 DEF GateInv, GateTypeOK
<1>9. CASE Gate  BY <1>9, TurnsAway, LetsStand
<1>10. CASE GateDone  BY <1>1, <1>10 DEF GateDone
<1>11. CASE Filtered  BY <1>1, <1>2, <1>11 DEF Filtered
<1>12. CASE Judge  BY <1>12, JudgeKeepsGate
<1>13. CASE JudgeDone  BY <1>1, <1>13 DEF JudgeDone
<1>14. CASE UNCHANGED reviewVars \/ Calling
  BY <1>1, <1>2, <1>14 DEF reviewVars, pipelineVars, Calling
<1> QED  BY <1>3, <1>4, <1>5, <1>6, <1>7, <1>8, <1>9, <1>10, <1>11, <1>12, <1>13, <1>14
  DEF PipelineNext

-----------------------------------------------------------------------------
(***************************************************************************)
(* The verdicts and the cap.                                               *)
(***************************************************************************)
LEMMA GateKeepsJudge == ASSUME GateInv, JudgeInv, Gate PROVE JudgeInv'
<1> DEFINE n == Len(fates)
           m == Len(standing)
           fate == Fate(items[Gated])
<1>1. /\ phase = "gate" /\ phase' = "gate" /\ n < Len(items)
      /\ fates' = Append(fates, fate)
      /\ \/ fate = "unjudged" /\ standing' = Append(standing, n + 1)
         \/ fate # "unjudged" /\ standing' = standing
      /\ decided' = [i \in 1 .. Len(standing') |-> "missing"]
      /\ judged' = judged /\ kept' = kept
  BY DEF Gate, Gated, At
<1>2. judged = 0 /\ kept = 0  BY <1>1 DEF JudgeInv
<1>3. fate \in Fates /\ fate # "kept"  BY DEF Fate, Fates
<1>4. n \in Nat /\ m \in Nat /\ fates \in Seq(Fates) /\ standing \in Seq(Nat)
      /\ \A j \in 1 .. m : standing[j] \in 1 .. n
  BY DEF GateInv, GateTypeOK
<1> HIDE DEF fate
<1>5. Len(fates') = n + 1 /\ (\A i \in 1 .. n : fates'[i] = fates[i]) /\ fates'[n + 1] = fate
  BY <1>1, <1>3, <1>4
<1>6. KeptAt' = KeptAt  BY <1>3, <1>4, <1>5 DEF KeptAt
<1>7. \A j \in 1 .. m : fates[standing[j]] = "unjudged"
  BY <1>2, <1>4 DEF JudgeInv
<1>8. Len(standing') \in Nat /\ \A j \in 1 .. Len(standing') : fates'[standing'[j]] = "unjudged"
  <2>1. CASE standing' = standing  BY <2>1, <1>4, <1>5, <1>7
  <2>2. CASE fate = "unjudged" /\ standing' = Append(standing, n + 1)
    <3>1. /\ Len(standing') = m + 1 /\ \A j \in 1 .. m : standing'[j] = standing[j]
          /\ standing'[m + 1] = n + 1
      BY <2>2, <1>4
    <3>2. ASSUME NEW j \in 1 .. m + 1  PROVE fates'[standing'[j]] = "unjudged"
      <4>1. CASE j = m + 1  BY <2>2, <1>5, <3>1, <4>1
      <4>2. CASE j \in 1 .. m  BY <1>4, <1>5, <1>7, <3>1, <4>2
      <4> QED  BY <1>4, <4>1, <4>2
    <3> QED  BY <1>4, <3>1, <3>2
  <2> QED  BY <1>1, <2>1, <2>2
<1> HIDE DEF n, m
<1>9. decided' \in [1 .. Len(standing') -> {"keep", "drop", "missing"}]
  BY <1>1
<1>10. judged' = 0 /\ kept' = 0  BY <1>1, <1>2
<1>11. judged' \in 0 .. Len(standing') /\ \A j \in 1 .. Len(standing') : j > judged'
  BY <1>8, <1>10
<1>12. kept' \in 0 .. Cap /\ IsFiniteSet(KeptAt') /\ kept' = Cardinality(KeptAt')
  <2>1. kept' = kept  BY <1>1
  <2> QED  BY <1>6, <2>1 DEF JudgeInv
<1>13. phase' \notin {"judge", "done"}  BY <1>1
<1> QED  BY <1>8, <1>9, <1>10, <1>11, <1>12, <1>13 DEF JudgeInv

LEMMA JudgeKeepsJudge == ASSUME GateInv, JudgeInv, Judge PROVE JudgeInv'
<1> DEFINE m == Len(standing)
           jj == judged + 1
           s == standing[jj]
           fate == VerdictFate(decided[jj])
<1>1. /\ jj \in 1 .. m /\ s \in 1 .. Len(fates) /\ judged \in Nat /\ m \in Nat
      /\ fates' = [fates EXCEPT ![s] = fate]
      /\ kept' = IF fate = "kept" THEN kept + 1 ELSE kept
      /\ judged' = jj
      /\ UNCHANGED <<standing, decided>>
      /\ phase = "judge" /\ phase' = "judge"
  BY DEF Judge, JudgeInv, GateInv, GateTypeOK, At
<1>2. /\ fate \in {"filtered", "over_cap", "kept"}
      /\ fate = "kept" => decided[jj] = "keep" /\ kept < Cap
      /\ fate = "over_cap" => kept >= Cap
  BY PipelineAssumption DEF VerdictFate, JudgeInv
<1>3. fates \in Seq(Fates) /\ \A i \in 1 .. m : standing[i] \in 1 .. Len(fates)
  BY DEF GateInv, GateTypeOK
<1>4. \A i \in 1 .. m : i # jj => standing[i] # s
  <2>1. \A i, j \in 1 .. m : i < j => standing[i] < standing[j]  BY DEF GateInv
  <2> QED  BY <1>1, <1>3, <2>1
<1>5. fates[s] = "unjudged"  BY <1>1 DEF JudgeInv
<1>6. \A k \in KeptAt : k < s
  <2> SUFFICES ASSUME NEW k \in KeptAt  PROVE k < s
    OBVIOUS
  <2>1. k \in 1 .. Len(fates) /\ fates[k] = "kept"  BY DEF KeptAt
  <2>2. PICK i \in 1 .. m : standing[i] = k  BY <2>1 DEF GateInv, Stood
  <2>3. i <= judged  BY <1>1, <2>1, <2>2 DEF JudgeInv
  <2> QED  BY <1>1, <2>2, <2>3 DEF GateInv
<1> HIDE DEF fate, s, m
<1>7. /\ Len(fates') = Len(fates) /\ fates'[s] = fate
      /\ \A i \in 1 .. Len(fates) : i # s => fates'[i] = fates[i]
  BY <1>1, <1>3
<1>8. KeptAt' = IF fate = "kept" THEN KeptAt \cup {s} ELSE KeptAt
  BY <1>1, <1>5, <1>7 DEF KeptAt
<1>9. IsFiniteSet(KeptAt) /\ kept = Cardinality(KeptAt) /\ s \notin KeptAt
  BY <1>5 DEF JudgeInv, KeptAt
<1>10. IsFiniteSet(KeptAt') /\ kept' = Cardinality(KeptAt')
  BY <1>1, <1>8, <1>9, FS_AddElement
<1>11. kept \in 0 .. Cap /\ kept' \in 0 .. Cap
  BY <1>1, <1>2, PipelineAssumption DEF JudgeInv
<1>12. \A j \in 1 .. m :
         /\ j > jj <=> fates'[standing[j]] = "unjudged"
         /\ fates'[standing[j]] = "kept" => decided[j] = "keep"
         /\ fates'[standing[j]] = "over_cap" =>
              kept' = Cap /\ \A k \in KeptAt' : k < standing[j]
  <2> SUFFICES ASSUME NEW j \in 1 .. m
               PROVE  /\ j > jj <=> fates'[standing[j]] = "unjudged"
                      /\ fates'[standing[j]] = "kept" => decided[j] = "keep"
                      /\ fates'[standing[j]] = "over_cap" =>
                           kept' = Cap /\ \A k \in KeptAt' : k < standing[j]
    OBVIOUS
  <2>1. CASE j = jj
    <3>1. standing[j] = s  BY <2>1 DEF s
    <3>2. fate = "over_cap" => kept' = Cap /\ KeptAt' = KeptAt
      BY <1>1, <1>2, <1>8, <1>11, PipelineAssumption
    <3> QED  BY <1>1, <1>2, <1>6, <1>7, <2>1, <3>1, <3>2
  <2>2. CASE j # jj
    <3>1. fates'[standing[j]] = fates[standing[j]]  BY <1>3, <1>4, <1>7, <2>2
    <3>2. /\ j > judged <=> fates[standing[j]] = "unjudged"
          /\ fates[standing[j]] = "kept" => decided[j] = "keep"
          /\ fates[standing[j]] = "over_cap" =>
               kept = Cap /\ \A k \in KeptAt : k < standing[j]
      BY DEF JudgeInv, m
    <3>3. kept = Cap => kept' = kept /\ KeptAt' = KeptAt
      BY <1>1, <1>2, <1>8, PipelineAssumption
    <3> QED  BY <1>1, <2>2, <3>1, <3>2, <3>3
  <2> QED  BY <2>1, <2>2
<1>13. decided' \in [1 .. Len(standing') -> {"keep", "drop", "missing"}]
  BY <1>1 DEF JudgeInv
<1>14. judged' \in 0 .. Len(standing') /\ judged' # 0  BY <1>1 DEF m
<1> QED  BY <1>1, <1>10, <1>11, <1>12, <1>13, <1>14 DEF JudgeInv, m

LEMMA JudgeInvNext ==
  ASSUME GateInv, JudgeInv, [PipelineNext]_reviewVars  PROVE JudgeInv'
<1>1. ASSUME UNCHANGED <<fates, standing, judgeVars>>,
             phase \in {"judge", "done"} => phase' \in {"judge", "done"}
      PROVE  JudgeInv'
  BY <1>1 DEF JudgeInv, KeptAt, judgeVars
<1> USE DEF At, End, gateVars
<1>2. CASE Fit  BY <1>1, <1>2 DEF Fit
<1>3. CASE StartTurn \/ NoTurnLeft \/ ResearchUnavailable
  BY <1>1, <1>3 DEF StartTurn, NoTurnLeft, ResearchUnavailable, EndResearch
<1>4. CASE LookUp  BY <1>1, <1>4 DEF LookUp, EndResearch
<1>5. CASE Ask  BY <1>1, <1>5 DEF Ask
<1>6. CASE Unavailable \/ Malformed  BY <1>1, <1>6 DEF Unavailable, Malformed
<1>7. CASE Drafted  BY <1>1, <1>7 DEF Drafted
<1>8. CASE Gate  BY <1>8, GateKeepsJudge
<1>9. CASE GateDone  BY <1>1, <1>9 DEF GateDone
<1>10. CASE Filtered
  <2>1. judged = 0  BY <1>10 DEF Filtered, JudgeInv
  <2> QED  BY <1>10, <2>1 DEF Filtered, JudgeInv, KeptAt
<1>11. CASE Judge  BY <1>11, JudgeKeepsJudge
<1>12. CASE JudgeDone  BY <1>1, <1>12 DEF JudgeDone
<1>13. CASE UNCHANGED reviewVars \/ Calling
  BY <1>1, <1>13 DEF reviewVars, pipelineVars, Calling
<1> QED  BY <1>2, <1>3, <1>4, <1>5, <1>6, <1>7, <1>8, <1>9, <1>10, <1>11, <1>12, <1>13
  DEF PipelineNext

LEMMA OutcomeInvNext ==
  ASSUME JudgeInv, GateInv, CallInv, OutcomeInv, [PipelineNext]_reviewVars  PROVE OutcomeInv'
<1> USE DEF At, End, OutcomeInv, judgeVars, gateVars, callVars
<1>1. phase \notin {"judge", "done"} => kept = 0 /\ judged = 0  BY DEF JudgeInv
<1>2. judged \in 0 .. Len(standing) /\ kept \in Nat /\ Len(standing) \in Nat
  BY PipelineAssumption DEF JudgeInv, GateInv, GateTypeOK
<1>3. CASE Fit
  BY <1>1, <1>3, PipelineAssumption DEF Fit, Phases, NoComment, GateInv, Early
<1>4. CASE StartTurn \/ NoTurnLeft \/ ResearchUnavailable \/ LookUp
  BY <1>4 DEF StartTurn, NoTurnLeft, ResearchUnavailable, LookUp, EndResearch, Phases
<1>5. CASE Ask  BY <1>5 DEF Ask, Phases
<1>6. CASE Unavailable
  BY <1>1, <1>6 DEF Unavailable, Phases, NoComment
<1>7. CASE Malformed  BY <1>1, <1>7 DEF Malformed, Phases, NoComment
<1>8. CASE Drafted
  <2>1. Len(standing) = 0  BY <1>8 DEF Drafted, GateInv, Early
  <2> QED  BY <1>1, <1>2, <1>8, <2>1 DEF Drafted, Phases, NoComment
<1>9. CASE GateDone
  <2>1. standing = <<>> => Len(standing) = 0  OBVIOUS
  <2> QED  BY <1>1, <1>2, <1>9, <2>1 DEF GateDone, Phases, NoComment
<1>10. CASE JudgeDone  BY <1>2, <1>10 DEF JudgeDone, Phases, NoComment
<1>11. CASE Gate \/ Filtered \/ Judge
  BY <1>11 DEF Gate, Filtered, Judge, Phases
<1>12. CASE UNCHANGED reviewVars \/ Calling
  BY <1>12 DEF reviewVars, pipelineVars, Calling
<1> QED  BY <1>3, <1>4, <1>5, <1>6, <1>7, <1>8, <1>9, <1>10, <1>11, <1>12
  DEF PipelineNext

-----------------------------------------------------------------------------
(* The parts of the review hold together: the invariant of the theorems    *)
(* below.                                                                  *)
THEOREM PipelineInvariant == PipelineSpec => []PipelineInv
<1>1. PipelineInit => PipelineInv  BY InitHolds
<1>2. PipelineInv /\ [PipelineNext]_reviewVars => PipelineInv'
  BY CallInvNext, ResearchInvNext, GateInvNext, JudgeInvNext, OutcomeInvNext DEF PipelineInv
<1> QED  BY <1>1, <1>2, PTL DEF PipelineSpec

(* Every variable of the review stays in its type: the fates, the verdicts *)
(* and the counts have the lengths and the bounds the code gives them.     *)
THEOREM PipelineTyped == PipelineSpec => []PipelineTypeOK
<1>1. PipelineInv => PipelineTypeOK
  BY DEF PipelineInv, PipelineTypeOK, CallInv, ResearchInv, GateInv, GateTypeOK, JudgeInv, OutcomeInv
<1> QED  BY <1>1, PipelineInvariant, PTL

(* What review() hands to post() is at most the cap, each draft sound, at  *)
(* an open place of the diff, with a keep verdict of its own, and no two   *)
(* at one place.                                                           *)
THEOREM KeptIsAlwaysSafe == PipelineSpec => []KeptIsSafe
<1>1. PipelineInv => KeptIsSafe
  <2> SUFFICES ASSUME PipelineInv  PROVE KeptIsSafe
    OBVIOUS
  <2> USE DEF PipelineInv
  <2>1. Cardinality(KeptAt) <= Cap  BY PipelineAssumption DEF JudgeInv
  <2>2. ASSUME NEW i \in KeptAt
        PROVE  \E j \in 1 .. Len(standing) : standing[j] = i /\ decided[j] = "keep"
    <3>1. i \in 1 .. Len(fates) /\ fates[i] = "kept"  BY DEF KeptAt
    <3>2. PICK j \in 1 .. Len(standing) : standing[j] = i
      BY <3>1 DEF GateInv, Stood
    <3> QED  BY <3>1, <3>2 DEF JudgeInv
  <2>3. ASSUME NEW i \in KeptAt
        PROVE  items[i].sound /\ items[i].place \in commentable \ existing
    BY <2>2 DEF GateInv
  <2>4. ASSUME NEW i \in KeptAt, NEW k \in KeptAt, items[k].place = items[i].place
        PROVE  k = i
    <3>1. PICK j \in 1 .. Len(standing) : standing[j] = i  BY <2>2
    <3>2. PICK l \in 1 .. Len(standing) : standing[l] = k  BY <2>2
    <3>3. ~(j < l) /\ ~(l < j)  BY <2>4, <3>1, <3>2 DEF GateInv
    <3> QED  BY <3>1, <3>2, <3>3
  <2> QED  BY <2>1, <2>2, <2>3, <2>4 DEF KeptIsSafe
<1> QED  BY <1>1, PipelineInvariant, PTL

(* The filter is asked about the first sound draft of each open place, and *)
(* a keep verdict is lost only to a cap that is full of earlier drafts.    *)
THEOREM NothingSoundIsEverLost == PipelineSpec => []NothingSoundIsLost
<1>1. PipelineInv => NothingSoundIsLost
  <2> SUFFICES ASSUME PipelineInv  PROVE NothingSoundIsLost
    OBVIOUS
  <2> USE DEF PipelineInv
  <2>1. ASSUME phase \in {"filter", "filtering", "judge"}, NEW i \in 1 .. Len(items),
               items[i].sound, items[i].place \in commentable \ existing
        PROVE  \E j \in 1 .. Len(standing) :
                 standing[j] <= i /\ items[standing[j]].place = items[i].place
    BY <2>1 DEF GateInv, Asking
  <2>2. ASSUME NEW i \in 1 .. Len(fates), fates[i] = "over_cap"
        PROVE  Cardinality({k \in KeptAt : k < i}) = Cap
    <3>1. PICK j \in 1 .. Len(standing) : standing[j] = i
      BY <2>2 DEF GateInv, Stood
    <3>2. kept = Cap /\ \A k \in KeptAt : k < i  BY <2>2, <3>1 DEF JudgeInv
    <3>3. {k \in KeptAt : k < i} = KeptAt  BY <3>2
    <3> QED  BY <3>2, <3>3 DEF JudgeInv
  <2> QED  BY <2>1, <2>2 DEF NothingSoundIsLost
<1> QED  BY <1>1, PipelineInvariant, PTL

(* The result tells what happened: whether it commented, why a draft was   *)
(* left unjudged, that "rate limited" is what every provider said, and how *)
(* many research turns were made.                                          *)
THEOREM ResultIsAlwaysTrue == PipelineSpec => []ResultIsTrue
<1>1. PipelineInv => ResultIsTrue
  <2> SUFFICES ASSUME PipelineInv  PROVE ResultIsTrue
    OBVIOUS
  <2> USE DEF PipelineInv
  <2>1. RateLimitIsEveryones
    BY ClientsAssumption DEF RateLimitIsEveryones, CallInv
  <2>2. outcome = "rate_limited" => allLimited  BY DEF OutcomeInv
  <2>3. KeptAt # {} <=> kept > 0
    <3>1. IsFiniteSet(KeptAt) /\ kept = Cardinality(KeptAt) /\ kept \in Nat
      BY PipelineAssumption DEF JudgeInv
    <3> QED  BY <3>1, FS_EmptySet
  <2>4. ASSUME At("done"), NEW i \in 1 .. Len(fates), fates[i] = "unjudged"
        PROVE  outcome \in {"rate_limited", "unavailable", "malformed"}
    <3>1. PICK j \in 1 .. Len(standing) : standing[j] = i
      BY <2>4 DEF GateInv, Stood
    <3>2. judged < j  BY <2>4, <3>1 DEF JudgeInv
    <3>3. judged < Len(standing)  BY <3>2 DEF JudgeInv, GateInv, GateTypeOK
    <3> QED  BY <2>4, <3>3 DEF At, OutcomeInv
  <2>5. At("done") => grounding = Cardinality({i \in 1 .. Len(calls) : calls[i] = "tools"})
    <3> SUFFICES ASSUME At("done")
                 PROVE  grounding = Cardinality({i \in 1 .. Len(calls) : calls[i] = "tools"})
      OBVIOUS
    <3>1. /\ grounding \in Nat /\ grounding <= Len(calls) /\ Len(calls) \in Nat
          /\ \A i \in 1 .. Len(calls) : calls[i] = "tools" <=> i <= grounding
      BY PipelineAssumption DEF At, ResearchInv
    <3>2. {i \in 1 .. Len(calls) : calls[i] = "tools"} = 1 .. grounding
      BY <3>1
    <3>3. Cardinality(1 .. grounding) = grounding
      BY <3>1, FS_Interval
    <3> QED  BY <3>2, <3>3
  <2> QED  BY <2>1, <2>2, <2>3, <2>4, <2>5 DEF ResultIsTrue, At, OutcomeInv
<1> QED  BY <1>1, PipelineInvariant, PTL
==============================================================================
