----------------------------- MODULE SandboxProofs -----------------------------
(***************************************************************************)
(* What a test suite is run for is true, for every value of the constants. *)
(*                                                                         *)
(* Verification: whatever tests fail and whatever docker, the wall clock   *)
(* and a cancel do, a sandbox leaves nothing behind, and a regression that *)
(* is reported is one (sandbox/runner.py, review/verify.py).               *)
(*                                                                         *)
(* SuiteOutput: whatever a suite prints, the evidence of it is what it     *)
(* said (sandbox/evidence.py, the runner's capture and fetch).             *)
(*                                                                         *)
(* Detection: whatever a repository holds, the suite that is run is one    *)
(* that can be, with the requirements its metadata names (sandbox/         *)
(* detect.py).                                                             *)
(***************************************************************************)
EXTENDS Verification, SuiteOutput, Detection, CountingLemmas, FiniteSetTheorems,
        SequenceTheorems, TLAPS

-----------------------------------------------------------------------------
(***************************************************************************)
(* One run of the sandbox, whatever docker and the cancel do.              *)
(***************************************************************************)

(* A run that begins has nothing of its own yet.                           *)
Clean == client = "none" /\ ~container /\ ~volume

(* A client runs, and with it a container may still start, only while the  *)
(* run waits for it or is about to kill it; a container may outlive its    *)
(* client until the removal; a volume until its own.                       *)
Watched ==
  /\ runAt \in {"idle", "pull", "create_volume"} => Clean
  /\ ~spoiled =>
       /\ client = "running" => runAt \in {"wait", "kill", "kill_wait"}
       /\ container => runAt \in {"wait", "kill", "kill_wait", "remove"}
       /\ volume => runAt # "over"

(* What is printed and listed are failures of this commit.                 *)
ListedFails == printed \subseteq failing /\ listed \subseteq failing

(***************************************************************************)
(* The two runs of verify().                                               *)
(***************************************************************************)
RunningSide == verifyAt \in Sides => failing = fails[verifyAt]

HeadUsable ==
  verifyAt = "base" => /\ rows["head"].outcome \in {"passed", "failed"}
                       /\ rows["head"].dropped = 0
                       /\ rows["head"].listed \subseteq fails["head"]

Reported == regressions # {} => verifyAt = "done" /\ RegressionsAreReal

SandboxInv == SandboxTypeOK /\ Watched /\ ListedFails

VerifyInv ==
  /\ VerifyTypeOK
  /\ SandboxInv
  /\ RunningSide
  /\ HeadUsable
  /\ Reported

LEMMA OutcomeTyped ==
  ASSUME SandboxTypeOK
  PROVE  Outcome \in Outcomes
<1>1. CASE timedOut
  BY <1>1 DEF Outcome, Outcomes
<1>2. CASE ~timedOut /\ OomKilled
  BY <1>2 DEF Outcome, Outcomes
<1>3. CASE ~timedOut /\ ~OomKilled /\ report = NoReport
  BY <1>3 DEF Outcome, Outcomes
<1>4. CASE ~timedOut /\ ~OomKilled /\ report # NoReport
  BY <1>4 DEF Outcome, Outcomes
<1>. QED
  BY <1>1, <1>2, <1>3, <1>4

LEMMA SandboxBegins ==
  ASSUME NEW S \in SUBSET Tests, Begin(S)
  PROVE  SandboxInv' /\ failing' = S
<1>1. SandboxTypeOK'
  <2>1. dropped' \in 0 .. MaxDropped
    BY SandboxAssumption DEF Begin
  <2>2. report' \in Report \cup {NoReport}
    BY DEF Begin
  <2>3. container' \in BOOLEAN /\ volume' \in BOOLEAN /\ timedOut' \in BOOLEAN
        /\ cancelled' \in BOOLEAN /\ spoiled' \in BOOLEAN
    BY DEF Begin
  <2>. QED
    BY <2>1, <2>2, <2>3 DEF Begin, SandboxTypeOK, Stages
<1>2. Watched' /\ ListedFails'
  BY DEF Begin, Watched, Clean, ListedFails
<1>. QED
  BY <1>1, <1>2 DEF SandboxInv, Begin

(* The coroutine's own steps.                                              *)
LEMMA RunStepInv ==
  ASSUME SandboxInv, RunStep
  PROVE  SandboxInv' /\ failing' = failing
<1>. USE DEF SandboxInv
<1>1. CASE Pull
  <2>1. SandboxTypeOK'
    BY <1>1 DEF Pull, SandboxTypeOK, Stages, dockerVars
  <2>. QED
    BY <1>1, <2>1 DEF Pull, Watched, Clean, ListedFails, dockerVars
<1>2. CASE CreateVolume
  <2>1. SandboxTypeOK'
    BY <1>2 DEF CreateVolume, SandboxTypeOK, Stages
  <2>. QED
    BY <1>2, <2>1 DEF CreateVolume, Watched, Clean, ListedFails
<1>3. CASE Start
  <2>1. SandboxTypeOK'
    BY <1>3 DEF Start, SandboxTypeOK, Stages, commitVars
  <2>. QED
    BY <1>3, <2>1 DEF Start, Watched, Clean, ListedFails, commitVars
<1>4. CASE Waited
  <2>1. SandboxTypeOK'
    BY <1>4 DEF Waited, SandboxTypeOK, Stages, commitVars, dockerVars
  <2>. QED
    BY <1>4, <2>1 DEF Waited, Exited, Watched, Clean, ListedFails, commitVars, dockerVars
<1>5. CASE WallClock
  <2>1. SandboxTypeOK'
    BY <1>5 DEF WallClock, SandboxTypeOK, Stages, commitVars, dockerVars
  <2>. QED
    BY <1>5, <2>1 DEF WallClock, Watched, Clean, ListedFails, commitVars, dockerVars
<1>6. CASE KillContainer
  <2>1. SandboxTypeOK'
    <3>1. CASE container
      BY <1>6, <3>1 DEF KillContainer, SandboxTypeOK, Stages, commitVars
    <3>2. CASE ~container
      BY <1>6, <3>2 DEF KillContainer, SandboxTypeOK, Stages, commitVars
    <3> QED  BY <3>1, <3>2
  <2>. QED
    BY <1>6, <2>1 DEF KillContainer, Watched, Clean, ListedFails, commitVars
<1>7. CASE KillClient
  <2>1. SandboxTypeOK'
    BY <1>7 DEF KillClient, SandboxTypeOK, Stages, commitVars
  <2>. QED
    BY <1>7, <2>1 DEF KillClient, Watched, Clean, ListedFails, commitVars
<1>8. CASE RemoveContainer
  <2>1. SandboxTypeOK'
    <3>1. CASE container
      BY <1>8, <3>1 DEF RemoveContainer, SandboxTypeOK, Stages, commitVars
    <3>2. CASE ~container
      BY <1>8, <3>2 DEF RemoveContainer, SandboxTypeOK, Stages, commitVars
    <3> QED  BY <3>1, <3>2
  <2>. QED
    BY <1>8, <2>1 DEF RemoveContainer, Watched, Clean, ListedFails, commitVars
<1>9. CASE Read
  <2>1. Outcome \in Outcomes /\ Shown(printed) \subseteq printed
    BY OutcomeTyped DEF Shown
  <2>2. SandboxTypeOK'
    BY <1>9, <2>1, SandboxAssumption DEF Read, SandboxTypeOK, Stages, dockerVars
  <2>3. ListedFails'
    BY <1>9, <2>1 DEF Read, ListedFails, dockerVars
  <2>4. Watched'
    BY <1>9 DEF Read, Watched, Clean, dockerVars
  <2>. QED
    BY <1>9, <2>2, <2>3, <2>4 DEF Read
<1>10. CASE RemoveVolume
  <2>1. SandboxTypeOK'
    BY <1>10 DEF RemoveVolume, SandboxTypeOK, Stages
  <2>. QED
    BY <1>10, <2>1 DEF RemoveVolume, Watched, Clean, ListedFails
<1>. QED
  BY <1>1, <1>2, <1>3, <1>4, <1>5, <1>6, <1>7, <1>8, <1>9, <1>10 DEF RunStep

(* Docker's steps, and the cancel at any await.                            *)
LEMMA DockerStepInv ==
  ASSUME SandboxInv, DockerStep
  PROVE  SandboxInv' /\ failing' = failing
<1>. USE DEF SandboxInv
<1>1. client = "running" /\ UNCHANGED <<runAt, step, volume, commitVars, timedOut, cancelled, spoiled>>
  BY DEF DockerStep, ContainerStarts, SuiteEnds, ContainerDies
<1>2. Watched'
  BY <1>1 DEF DockerStep, ContainerStarts, SuiteEnds, ContainerDies, Watched, Clean
<1>3. CASE ContainerStarts \/ ContainerDies
  <2>1. SandboxTypeOK'
    BY <1>1, <1>3 DEF ContainerStarts, ContainerDies, SandboxTypeOK, commitVars
  <2>. QED
    BY <1>1, <1>2, <1>3, <2>1 DEF ContainerStarts, ContainerDies, ListedFails, commitVars
<1>4. CASE SuiteEnds
  <2>1. report' \in Report /\ printed' \subseteq failing /\ container' = FALSE /\ client' = "exited"
    BY <1>4 DEF SuiteEnds, Report
  <2>2. SandboxTypeOK'
    BY <1>1, <2>1 DEF SandboxTypeOK, commitVars
  <2>. QED
    BY <1>1, <1>2, <2>1, <2>2 DEF ListedFails, commitVars
<1>. QED
  BY <1>3, <1>4 DEF DockerStep

LEMMA CancelInv ==
  ASSUME SandboxInv, Cancel
  PROVE  SandboxInv' /\ failing' = failing
<1>. USE DEF SandboxInv
<1>1. /\ UNCHANGED <<step, client, report, printed, failing, timedOut, dropped, listed>>
      /\ cancelled' = TRUE
      /\ row' = IF runAt' = "over" THEN "raised" ELSE row
  BY DEF Cancel
<1>2. CASE CancelWaiting
  <2>1. SandboxTypeOK'
    BY <1>1, <1>2 DEF CancelWaiting, SandboxTypeOK, Stages
  <2>2. Watched'
    BY <1>1, <1>2 DEF CancelWaiting, Exited, Watched, Clean
  <2>. QED
    BY <1>1, <2>1, <2>2 DEF ListedFails
<1>3. CASE CancelElsewhere
  <2>1. SandboxTypeOK'
    BY <1>1, <1>3 DEF CancelElsewhere, SandboxTypeOK, Stages
  <2>2. ASSUME runAt \in {"pull", "create_volume"}
        PROVE  Watched'
    <3>1. /\ runAt' = "over" /\ Clean /\ UNCHANGED <<client, container>>
          /\ spoiled' = (runAt = "create_volume")
          /\ volume' \in {volume, runAt = "create_volume"}
      BY <1>1, <1>3, <2>2 DEF CancelElsewhere, Watched
    <3>2. CASE runAt = "pull"
      <4>1. volume = FALSE /\ (runAt = "create_volume") = FALSE
        BY <3>1, <3>2 DEF Clean, SandboxTypeOK
      <4>2. volume' = FALSE
        BY <3>1, <4>1, Zenon
      <4>. QED
        BY <3>1, <4>2 DEF Watched, Clean
    <3>3. CASE runAt = "create_volume"
      <4>1. spoiled' = TRUE
        BY <3>1, <3>3
      <4>. QED
        BY <3>1, <4>1 DEF Watched
    <3>. QED
      BY <2>2, <3>2, <3>3
  <2>3. ASSUME runAt \in {"start", "read"}
        PROVE  Watched'
    <3>1. runAt' = "remove_volume" /\ UNCHANGED <<client, container, volume, spoiled>>
      BY <1>1, <1>3, <2>3 DEF CancelElsewhere
    <3>. QED
      BY <2>3, <3>1 DEF Watched
  <2>4. ASSUME runAt \in {"kill", "kill_wait", "remove"}
        PROVE  Watched'
    <3>1. runAt' = "remove_volume" /\ spoiled' = TRUE
      BY <1>1, <1>3, <2>4 DEF CancelElsewhere
    <3>. QED
      BY <3>1 DEF Watched
  <2>. QED
    BY <1>1, <1>3, <2>1, <2>2, <2>3, <2>4 DEF CancelElsewhere, ListedFails
<1>. QED
  BY <1>2, <1>3 DEF Cancel

LEMMA SandboxStepInv ==
  ASSUME SandboxInv, SandboxStep \/ UNCHANGED sandboxVars
  PROVE  SandboxInv' /\ failing' = failing
<1>1. CASE UNCHANGED sandboxVars
  BY <1>1 DEF sandboxVars, SandboxInv, SandboxTypeOK, Watched, Clean, ListedFails
<1>. QED
  BY <1>1, RunStepInv, DockerStepInv, CancelInv DEF SandboxStep

-----------------------------------------------------------------------------
(***************************************************************************)
(* The comparison of the two runs.                                         *)
(***************************************************************************)
LEMMA VerifyInvInit == VerifyInit => VerifyInv
<1>. SUFFICES ASSUME VerifyInit PROVE VerifyInv
  OBVIOUS
<1>1. SandboxInv
  <2>1. dropped \in 0 .. MaxDropped
    BY SandboxAssumption DEF VerifyInit, SandboxInit
  <2>2. report \in Report \cup {NoReport}
    BY DEF VerifyInit, SandboxInit
  <2>3. SandboxTypeOK
    BY <2>1, <2>2 DEF VerifyInit, SandboxInit, SandboxTypeOK, Stages
  <2>. QED
    BY <2>3 DEF VerifyInit, SandboxInit, SandboxInv, Watched, Clean, ListedFails
<1>2. VerifyTypeOK
  BY <1>1 DEF VerifyInit, VerifyTypeOK, SandboxInv
<1>. QED
  BY <1>1, <1>2 DEF VerifyInit, VerifyInv, RunningSide, HeadUsable, Reported, Sides

LEMMA VerifyHeadInv ==
  ASSUME VerifyInv, VerifyHead
  PROVE  VerifyInv'
<1>. USE DEF VerifyInv
<1>1. /\ verifyAt = "start" /\ regressions = {}
      /\ UNCHANGED <<fails, rows, regressions>>
  BY DEF VerifyHead, Reported
<1>2. CASE verifyAt' = "head" /\ Begin(fails["head"]) /\ UNCHANGED ran
  <2>1. SandboxInv' /\ failing' = fails["head"]
    BY <1>2, SandboxBegins DEF VerifyTypeOK, Sides
  <2>2. VerifyTypeOK'
    BY <1>1, <1>2, <2>1 DEF VerifyTypeOK, SandboxInv
  <2>. QED
    BY <1>1, <1>2, <2>1, <2>2 DEF RunningSide, HeadUsable, Reported
<1>3. CASE EndVerify(FALSE) /\ UNCHANGED sandboxVars
  <2>1. SandboxInv'
    BY <1>3, SandboxStepInv
  <2>2. VerifyTypeOK'
    BY <1>1, <1>3, <2>1 DEF VerifyTypeOK, SandboxInv, EndVerify
  <2>. QED
    BY <1>1, <1>3, <2>1, <2>2 DEF RunningSide, HeadUsable, Reported, EndVerify, Sides
<1>. QED
  BY <1>2, <1>3 DEF VerifyHead

LEMMA HeadOverInv ==
  ASSUME VerifyInv, HeadOver
  PROVE  VerifyInv'
<1>. USE DEF VerifyInv
<1>1. /\ verifyAt = "head" /\ regressions = {}
      /\ rows' = [rows EXCEPT !["head"] = RowNow]
      /\ UNCHANGED <<fails, regressions>>
  BY DEF HeadOver, Reported
<1>2. /\ DOMAIN rows' = Sides
      /\ rows'["head"] = RowNow
  BY <1>1 DEF VerifyTypeOK, Sides
<1>3. ASSUME EndVerify(TRUE) \/ EndVerify(FALSE), UNCHANGED sandboxVars
      PROVE  VerifyInv'
  <2>1. SandboxInv'
    BY <1>3, SandboxStepInv
  <2>2. VerifyTypeOK'
    BY <1>1, <1>2, <1>3, <2>1 DEF VerifyTypeOK, SandboxInv, EndVerify
  <2>. QED
    BY <1>1, <1>3, <2>1, <2>2 DEF RunningSide, HeadUsable, Reported, EndVerify, Sides
<1>4. ASSUME ~Unusable(RowNow), verifyAt' = "base", Begin(fails["base"]), UNCHANGED ran
      PROVE  VerifyInv'
  <2>1. SandboxInv' /\ failing' = fails["base"]
    BY <1>4, SandboxBegins DEF VerifyTypeOK, Sides
  <2>2. VerifyTypeOK'
    BY <1>1, <1>2, <1>4, <2>1 DEF VerifyTypeOK, SandboxInv
  <2>3. listed \subseteq fails["head"]
    BY <1>1 DEF SandboxInv, ListedFails, RunningSide, Sides
  <2>4. HeadUsable'
    <3>1. rows'["head"].outcome \in {"passed", "failed"} /\ rows'["head"].dropped = 0
      BY <1>2, <1>4 DEF RowNow, Unusable, SandboxInv, SandboxTypeOK
    <3>2. rows'["head"].listed \subseteq fails'["head"]
      BY <1>1, <1>2, <2>3 DEF RowNow
    <3>. QED
      BY <3>1, <3>2 DEF HeadUsable
  <2>. QED
    BY <1>1, <1>4, <2>1, <2>2, <2>4 DEF RunningSide, Reported
<1>. QED
  BY <1>3, <1>4 DEF HeadOver

(* A regression is in the head's list and not in the base's; the base's    *)
(* list is of what fails at the base, and all of it if it is whole.        *)
LEMMA BaseOverInv ==
  ASSUME VerifyInv, BaseOver
  PROVE  VerifyInv'
<1>. USE DEF VerifyInv
<1>1. /\ verifyAt = "base" /\ regressions = {}
      /\ rows' = [rows EXCEPT !["base"] = RowNow]
      /\ UNCHANGED <<fails, sandboxVars>>
      /\ verifyAt' = "done" /\ ran' \in BOOLEAN
  BY DEF BaseOver, Reported, EndVerify
<1>2. /\ DOMAIN rows' = Sides
      /\ rows'["base"] = RowNow
      /\ rows'["head"] = rows["head"]
  BY <1>1 DEF VerifyTypeOK, Sides
<1>3. SandboxInv'
  BY <1>1, SandboxStepInv
<1>4. /\ rows["head"].listed \subseteq fails["head"]
      /\ rows["head"].outcome \in {"passed", "failed"}
      /\ rows["head"].dropped = 0
  BY <1>1 DEF HeadUsable
<1>5. /\ RowNow.listed = listed /\ RowNow.outcome = row /\ RowNow.dropped = dropped
      /\ RowNow.whole <=> listed = failing
  BY DEF RowNow
<1>6. failing = fails["base"]
  BY <1>1 DEF RunningSide, Sides
<1>7. regressions' = {} \/ (~Unusable(RowNow) /\ regressions' = rows["head"].listed \ listed)
  BY <1>1, <1>5 DEF BaseOver, Regressions
<1>8. regressions' \subseteq Tests
  BY <1>4, <1>7 DEF VerifyTypeOK, Sides
<1>9. VerifyTypeOK'
  BY <1>1, <1>2, <1>3, <1>8 DEF VerifyTypeOK, SandboxInv
<1>10. Reported'
  <2>. SUFFICES ASSUME regressions' # {} PROVE RegressionsAreReal'
    BY <1>1 DEF Reported
  <2>1. ~Unusable(RowNow) /\ regressions' = rows["head"].listed \ listed
    BY <1>7
  <2>2. regressions' \subseteq fails'["head"]
    BY <1>1, <1>4, <2>1
  <2>3. row \in {"passed", "failed"} /\ dropped = 0
    BY <1>5, <2>1 DEF Unusable, SandboxInv, SandboxTypeOK
  <2>5. \A s \in Sides : rows'[s].outcome \in {"passed", "failed"} /\ rows'[s].dropped = 0
    BY <1>2, <1>4, <1>5, <2>3 DEF Sides
  <2>4. rows'["base"].whole => regressions' \cap fails'["base"] = {}
    BY <1>1, <1>2, <1>5, <1>6, <2>1
  <2>. QED
    BY <2>2, <2>4, <2>5 DEF RegressionsAreReal
<1>. QED
  BY <1>1, <1>3, <1>9, <1>10 DEF RunningSide, HeadUsable, Sides

LEMMA VerifyInvNext ==
  ASSUME VerifyInv, [VerifyNext]_verificationVars
  PROVE  VerifyInv'
<1>1. ASSUME SandboxStep \/ UNCHANGED sandboxVars, UNCHANGED verifyVars
      PROVE  VerifyInv'
  <2>1. SandboxInv' /\ failing' = failing
    BY <1>1, SandboxStepInv DEF VerifyInv
  <2>2. UNCHANGED <<verifyAt, fails, rows, ran, regressions>>
    BY <1>1 DEF verifyVars
  <2>3. VerifyTypeOK'
    BY <2>1, <2>2 DEF VerifyInv, VerifyTypeOK, SandboxInv
  <2>. QED
    BY <2>1, <2>2, <2>3 DEF VerifyInv, RunningSide, HeadUsable, Reported, RegressionsAreReal
<1>. QED
  BY <1>1, VerifyHeadInv, HeadOverInv, BaseOverInv DEF VerifyNext, verificationVars

(* The inductive invariant of the two runs and of what is told of them.    *)
THEOREM VerifyInvariant == VerifySpec => []VerifyInv
BY VerifyInvInit, VerifyInvNext, PTL DEF VerifySpec

(* Every variable of the sandbox and of the comparison keeps its type, for *)
(* any tests, cap on the list and bound on the drops.                      *)
THEOREM VerifyTyped == VerifySpec => []VerifyTypeOK
BY VerifyInvariant, PTL DEF VerifyInv

(* However a run in the sandbox ends, no container of it runs and no       *)
(* volume of it is left, unless docker refused a removal or the cancel     *)
(* came inside the cleaning up (sandbox/runner.py).                        *)
THEOREM SandboxLeavesNothing == VerifySpec => []LeavesNothing
<1>1. VerifyInv => LeavesNothing
  BY DEF VerifyInv, SandboxInv, Watched, LeavesNothing
<1>. QED
  BY <1>1, VerifyInvariant, PTL

(* What verify() tells the model is a failure of the head, from two suites *)
(* that ran to their end with all their dependencies, and not a failure of *)
(* the base as far as the base's run listed what failed.                   *)
THEOREM ReportedIsReal == VerifySpec => []RegressionsAreReal
<1>1. VerifyInv => RegressionsAreReal
  BY DEF VerifyInv, Reported, RegressionsAreReal
<1>. QED
  BY <1>1, VerifyInvariant, PTL

-----------------------------------------------------------------------------
(* Evidence.  The larger and the smaller of two numbers.                   *)
LEMMA GreaterOf ==
  ASSUME NEW a \in Int, NEW b \in Int
  PROVE  Max({a, b}) = IF a < b THEN b ELSE a
<1>1. \E x \in {a, b} : \A y \in {a, b} : x >= y
  OBVIOUS
<1>2. Max({a, b}) \in {a, b} /\ \A y \in {a, b} : Max({a, b}) >= y
  BY <1>1 DEF Max
<1> HIDE DEF Max
<1> QED  BY <1>2

LEMMA SmallerOf ==
  ASSUME NEW a \in Int, NEW b \in Int
  PROVE  Min({a, b}) = IF a < b THEN a ELSE b
<1>1. \E x \in {a, b} : \A y \in {a, b} : x =< y
  OBVIOUS
<1>2. Min({a, b}) \in {a, b} /\ \A y \in {a, b} : Min({a, b}) =< y
  BY <1>1 DEF Min
<1> HIDE DEF Min
<1> QED  BY <1>2

SaidLines == OutLines \cup ErrLines \cup {StatusLine}

(* What a stream holds of all that was written to it: its first lines and  *)
(* its last, and how many there are between; it gives up lines only when   *)
(* the tail is full, and has a tail only when the head is full.            *)
Split(all, first, last, missing) ==
  \E mid \in Seq(SaidLines) :
    /\ all = (first \o mid) \o last /\ missing = Len(mid)
    /\ Len(first) <= HeadCap /\ Len(last) <= TailCap
    /\ Len(first) < HeadCap => mid = <<>> /\ last = <<>>
    /\ missing > 0 => Len(last) = TailCap

(* The caps of the head and of the tail.                                   *)
LEMMA Caps == HeadCap \in Nat /\ TailCap \in Nat /\ TailCap > 0 /\ HeadCap + TailCap = OUTPUT_CAP
BY OutputAssumption DEF HeadCap, TailCap

(* What the proofs use of concatenation.                                   *)
Regroup(s, t, u) == (s \o t) \o u = s \o (t \o u)

LEMMA Regrouping == \A s, t, u \in Seq(SaidLines) : Regroup(s, t, u)
BY ConcatAssociative DEF Regroup

LEMMA WithNothing == \A s \in Seq(SaidLines) : s \o <<>> = s /\ <<>> \o s = s
BY ConcatEmptySeq

LEMMA Joined == \A s, t \in Seq(SaidLines) : s \o t \in Seq(SaidLines) /\ Len(s \o t) = Len(s) + Len(t)
BY ConcatProperties

LEMMA NoLines == \A s \in Seq(SaidLines) : Len(s) \in Nat /\ (Len(s) = 0 <=> s = <<>>)
<1>1. Len(<<>>) = 0 /\ \A s \in Seq(SaidLines) : s # <<>> => Len(s) \in Nat \ {0}
  BY EmptySeq
<1> QED  BY <1>1

(* A sequence cut in two.                                                  *)
LEMMA CutInTwo ==
  ASSUME NEW S, NEW s \in Seq(S), NEW n \in 0 .. Len(s)
  PROVE  /\ SubSeq(s, 1, n) \in Seq(S) /\ Len(SubSeq(s, 1, n)) = n
         /\ SubSeq(s, n + 1, Len(s)) \in Seq(S) /\ Len(SubSeq(s, n + 1, Len(s))) = Len(s) - n
         /\ s = SubSeq(s, 1, n) \o SubSeq(s, n + 1, Len(s))
<1>1. Len(s) \in Nat /\ n \in Nat /\ n <= Len(s)
  OBVIOUS
<1>2. \A i \in 1 .. n : s[i] \in S
  BY <1>1, ElementOfSeq
<1>3. \A i \in n + 1 .. Len(s) : s[i] \in S
  BY <1>1, ElementOfSeq
<1>4. SubSeq(s, 1, n) \in Seq(S) /\ Len(SubSeq(s, 1, n)) = IF 1 <= n THEN n - 1 + 1 ELSE 0
  BY <1>1, <1>2, SubSeqProperties
<1>5. /\ SubSeq(s, n + 1, Len(s)) \in Seq(S)
      /\ Len(SubSeq(s, n + 1, Len(s))) = IF n + 1 <= Len(s) THEN Len(s) - (n + 1) + 1 ELSE 0
  <2>1. n + 1 \in Int /\ Len(s) \in Int
    BY <1>1
  <2> QED  BY <1>3, <2>1, SubSeqProperties
<1>6. SubSeq(s, 1, n) \o SubSeq(s, n + 1, Len(s)) = s
  <2>1. 1 \in 1 .. Len(s) + 1 /\ n \in 1 - 1 .. Len(s) /\ Len(s) \in n .. Len(s)
    BY <1>1
  <2>2. SubSeq(s, 1, n) \o SubSeq(s, n + 1, Len(s)) = SubSeq(s, 1, Len(s))
    BY ONLY <2>1, s \in Seq(S), ConcatAdjacentSubSeq, Zenon
  <2>3. SubSeq(s, 1, Len(s)) = s
    BY SubSeqFull
  <2> QED  BY ONLY <2>2, <2>3, Zenon
<1>7. Len(SubSeq(s, 1, n)) = n
  BY ONLY <1>1, <1>4
<1>8. Len(SubSeq(s, n + 1, Len(s))) = Len(s) - n
  BY ONLY <1>1, <1>5
<1> QED  BY ONLY <1>4, <1>5, <1>6, <1>7, <1>8, Zenon

(* What the head has room for, and the rest of a chunk.                    *)
Room(first) == Max({0, HeadCap - Len(first)})
NowOf(first, chunk) == SubSeq(chunk, 1, Min({Room(first), Len(chunk)}))
RestOf(first, chunk) == SubSeq(chunk, Room(first) + 1, Len(chunk))

HeadSplits(first, chunk, now, rest) ==
  /\ now \in Seq(SaidLines) /\ rest \in Seq(SaidLines) /\ chunk = now \o rest
  /\ Len(first) + Len(now) <= HeadCap
  /\ Len(first) + Len(now) < HeadCap => rest = <<>>
  /\ Len(first) = HeadCap => now = <<>>

LEMMA ChunkInTwo ==
  ASSUME NEW chunk \in Seq(SaidLines), NEW first \in Seq(SaidLines), Len(first) <= HeadCap
  PROVE  HeadSplits(first, chunk, NowOf(first, chunk), RestOf(first, chunk))
<1>. SUFFICES ASSUME NEW now, NEW rest, now = NowOf(first, chunk), rest = RestOf(first, chunk)
              PROVE  /\ now \in Seq(SaidLines) /\ rest \in Seq(SaidLines) /\ chunk = now \o rest
                     /\ Len(first) + Len(now) <= HeadCap
                     /\ Len(first) + Len(now) < HeadCap => rest = <<>>
                     /\ Len(first) = HeadCap => now = <<>>
  BY Zenon DEF HeadSplits
<1>1. Len(chunk) \in Nat /\ Len(first) \in Nat
  OBVIOUS
<1>0. PICK room : /\ room = Max({0, HeadCap - Len(first)})
                  /\ now = SubSeq(chunk, 1, Min({room, Len(chunk)}))
                  /\ rest = SubSeq(chunk, room + 1, Len(chunk))
  BY Zenon DEF NowOf, RestOf, Room
<1>2. room \in Nat /\ room = HeadCap - Len(first)
  <2>1. PICK n \in Nat : n = HeadCap - Len(first)
    BY <1>1, Caps
  <2>2. Max({0, n}) = n
    BY <2>1, GreaterOf
  <2> QED  BY ONLY <1>0, <2>1, <2>2, Zenon
<1>3. Min({room, Len(chunk)}) = IF room < Len(chunk) THEN room ELSE Len(chunk)
  <2>1. room \in Int /\ Len(chunk) \in Int
    BY <1>1, <1>2
  <2> QED  BY ONLY <2>1, SmallerOf, Zenon
<1>4. CASE room <= Len(chunk)
  <2>1. Min({room, Len(chunk)}) = room /\ room \in 0 .. Len(chunk)
    BY <1>1, <1>2, <1>3, <1>4
  <2>2. now = SubSeq(chunk, 1, room)
    BY <1>0, <2>1
  <2>3. /\ now \in Seq(SaidLines) /\ Len(now) = room /\ rest \in Seq(SaidLines)
        /\ Len(rest) = Len(chunk) - room
        /\ chunk = now \o rest
    <3>1. rest = SubSeq(chunk, room + 1, Len(chunk))
      BY <1>0
    <3> QED  BY ONLY <2>1, <2>2, <3>1, CutInTwo, chunk \in Seq(SaidLines), Zenon
  <2>4. Len(first) = HeadCap => now = <<>>
    BY ONLY <1>1, <1>2, <2>3, Caps, NoLines
  <2>5. Len(first) + Len(now) <= HeadCap /\ (Len(first) + Len(now) < HeadCap => Len(rest) = 0)
    BY ONLY <1>1, <1>2, <1>4, <2>3, Caps
  <2>6. Len(first) + Len(now) < HeadCap => rest = <<>>
    BY <2>3, <2>5, NoLines, Zenon
  <2> QED  BY ONLY <2>3, <2>4, <2>5, <2>6, Zenon
<1>5. CASE ~(room <= Len(chunk))
  <2>1. Min({room, Len(chunk)}) = Len(chunk) /\ Len(chunk) < room + 1 /\ room + 1 \in Int
    BY <1>1, <1>2, <1>3, <1>5
  <2>2. now = chunk
    BY <1>0, <2>1, SubSeqFull
  <2>3. rest = <<>>
    <3>1. rest = SubSeq(chunk, room + 1, Len(chunk)) /\ Len(chunk) \in Int
      BY <1>0, <1>1
    <3> QED  BY ONLY <2>1, <3>1, SubSeqEmpty, Zenon
  <2>4. rest \in Seq(SaidLines) /\ chunk = now \o rest
    BY <2>2, <2>3, WithNothing, EmptySeq, Zenon
  <2>5. Len(first) + Len(now) <= HeadCap
    BY ONLY <1>1, <1>2, <1>5, <2>2, Caps
  <2>6. Len(first) # HeadCap
    BY ONLY <1>1, <1>2, <1>5, Caps
  <2> QED  BY ONLY <2>2, <2>3, <2>4, <2>5, <2>6, chunk \in Seq(SaidLines), Zenon
<1> QED  BY <1>4, <1>5

(* What the tail gives up, and what it keeps.                              *)
TailOf(last, rest) == IF rest = <<>> THEN last ELSE KeptTail(last, rest)
Over(last, rest) == Max({0, Len(last) + Len(rest) - TailCap})

TailSplits(last, rest, kept, more) ==
  /\ kept \in Seq(SaidLines) /\ Len(kept) <= TailCap /\ more \in Nat
  /\ rest = <<>> => kept = last
  /\ \E cut \in Seq(SaidLines) :
       last \o rest = cut \o kept /\ Len(cut) = more /\ (more > 0 => Len(kept) = TailCap)

LEMMA TailInTwo ==
  ASSUME NEW last \in Seq(SaidLines), NEW rest \in Seq(SaidLines), Len(last) <= TailCap
  PROVE  TailSplits(last, rest, TailOf(last, rest), Over(last, rest))
<1>. SUFFICES ASSUME NEW kept, kept = TailOf(last, rest)
              PROVE  /\ kept \in Seq(SaidLines) /\ Len(kept) <= TailCap /\ Over(last, rest) \in Nat
                     /\ rest = <<>> => kept = last
                     /\ \E cut \in Seq(SaidLines) :
                          /\ last \o rest = cut \o kept
                          /\ Len(cut) = Over(last, rest)
                          /\ Over(last, rest) > 0 => Len(kept) = TailCap
  BY Zenon DEF TailSplits
<1>1. /\ last \o rest \in Seq(SaidLines) /\ Len(last \o rest) = Len(last) + Len(rest)
      /\ Len(last) \in Nat /\ Len(rest) \in Nat
  BY ConcatProperties
<1>2. PICK n \in Nat : n = Len(last) + Len(rest) /\ n = Len(last \o rest)
  BY <1>1
<1>3. /\ Max({0, n - TailCap}) = IF n > TailCap THEN n - TailCap ELSE 0
      /\ Max({1, n - TailCap + 1}) = IF n > TailCap THEN n - TailCap + 1 ELSE 1
  <2>1. n - TailCap \in Int /\ n - TailCap + 1 \in Int
    BY Caps
  <2>2. /\ Max({0, n - TailCap}) = IF 0 < n - TailCap THEN n - TailCap ELSE 0
        /\ Max({1, n - TailCap + 1}) = IF 1 < n - TailCap + 1 THEN n - TailCap + 1 ELSE 1
    BY <2>1, GreaterOf
  <2> QED  BY <2>2, Caps
<1>4. PICK over \in Nat : over = Over(last, rest) /\ Max({1, n - TailCap + 1}) = over + 1
                          /\ over = (IF n > TailCap THEN n - TailCap ELSE 0)
  BY <1>2, <1>3, Caps DEF Over
<1>5. CASE rest = <<>>
  <2>1. kept = last /\ over = 0 /\ last \o rest = <<>> \o kept
    <3>1. kept = last /\ Len(rest) = 0
      BY <1>5, NoLines, Zenon DEF TailOf
    <3>2. last \o <<>> = last /\ <<>> \o last = last
      BY WithNothing, Zenon
    <3>3. ~(n > TailCap)
      <4>1. Len(last) \in Nat /\ Len(last) <= TailCap /\ n = Len(last) + Len(rest) /\ Len(rest) = 0
        BY <1>1, <1>2, <3>1
      <4> QED  BY ONLY <4>1, Caps
    <3>4. over = 0
      BY ONLY <1>4, <3>3, Zenon
    <3> QED  BY <1>5, <3>1, <3>2, <3>4, Zenon
  <2>2. <<>> \in Seq(SaidLines) /\ Len(<<>>) = 0
    BY EmptySeq
  <2>3. kept \in Seq(SaidLines) /\ Len(kept) <= TailCap
    BY <2>1
  <2>4. last \o rest = <<>> \o kept
    BY <2>1, Zenon
  <2>5. Len(<<>>) = Over(last, rest) /\ Over(last, rest) = 0
    BY ONLY <1>4, <2>1, <2>2, Zenon
  <2> QED  BY <1>4, <2>1, <2>2, <2>3, <2>4, <2>5
<1>6. CASE rest # <<>>
  <2>1. kept = SubSeq(last \o rest, over + 1, Len(last \o rest))
    BY <1>2, <1>4, <1>6 DEF KeptTail, TailOf
  <2>2. over \in 0 .. Len(last \o rest)
    BY <1>2, <1>4, Caps
  <2> DEFINE cut == SubSeq(last \o rest, 1, over)
  <2>3. /\ cut \in Seq(SaidLines) /\ Len(cut) = over /\ kept \in Seq(SaidLines)
        /\ Len(kept) = Len(last \o rest) - over /\ last \o rest = cut \o kept
    <3>1. last \o rest \in Seq(SaidLines)
      BY <1>1
    <3> QED  BY ONLY <2>1, <2>2, <3>1, CutInTwo, Zenon DEF cut
  <2>4. Len(kept) <= TailCap /\ (over > 0 => Len(kept) = TailCap)
    BY <1>2, <1>4, <2>3, Caps
  <2> HIDE DEF cut
  <2>5. Len(cut) = Over(last, rest) /\ (Over(last, rest) > 0 => Len(kept) = TailCap) /\ Over(last, rest) \in Nat
    BY ONLY <1>4, <2>3, <2>4, Zenon
  <2> QED  BY ONLY <1>6, <2>3, <2>4, <2>5, Zenon
<1> QED  BY <1>5, <1>6

(* _Capture.feed keeps a stream so.                                        *)
LEMMA FeedJoins ==
  ASSUME NEW all \in Seq(SaidLines), NEW first \in Seq(SaidLines), NEW last \in Seq(SaidLines), NEW missing,
         NEW chunk \in Seq(SaidLines), Split(all, first, last, missing),
         NEW now \in Seq(SaidLines), NEW rest \in Seq(SaidLines), chunk = now \o rest,
         Len(first) + Len(now) <= HeadCap,
         Len(first) + Len(now) < HeadCap => rest = <<>>,
         Len(first) = HeadCap => now = <<>>,
         NEW kept \in Seq(SaidLines), Len(kept) <= TailCap,
         NEW cut \in Seq(SaidLines), last \o rest = cut \o kept,
         Len(cut) > 0 => Len(kept) = TailCap,
         rest = <<>> => kept = last
  PROVE  Split(all \o chunk, first \o now, kept, missing + Len(cut))
<1>1. PICK mid \in Seq(SaidLines) :
        /\ all = (first \o mid) \o last /\ missing = Len(mid)
        /\ Len(first) <= HeadCap /\ Len(last) <= TailCap
        /\ Len(first) < HeadCap => mid = <<>> /\ last = <<>>
        /\ missing > 0 => Len(last) = TailCap
  BY DEF Split
<1>2. /\ Len(first \o now) = Len(first) + Len(now) /\ first \o now \in Seq(SaidLines)
      /\ mid \o cut \in Seq(SaidLines) /\ Len(mid \o cut) = Len(mid) + Len(cut)
  BY ConcatProperties
<1>3. all \o chunk = ((first \o now) \o (mid \o cut)) \o kept
  <2>1. CASE Len(first) < HeadCap
    <3>1. mid = <<>> /\ last = <<>>
      BY <1>1, <2>1
    <3>2. all = first /\ rest = cut \o kept /\ mid \o cut = cut
      BY <1>1, <3>1, ConcatEmptySeq
    <3>3. first \o (now \o rest) = ((first \o now) \o cut) \o kept
      <4>1. Regroup(first, now, rest) /\ Regroup(first \o now, cut, kept)
        BY <1>2, Regrouping, Zenon
      <4> QED  BY ONLY <3>2, <4>1, Zenon DEF Regroup
    <3> QED  BY ONLY <3>2, <3>3, chunk = now \o rest, Zenon
  <2>2. CASE ~(Len(first) < HeadCap)
    <3>1. now = <<>> /\ chunk = rest /\ first \o now = first
      <4>1. Len(first) = HeadCap
        BY <1>1, <2>2, Caps
      <4> QED  BY <4>1, ConcatEmptySeq
    <3>2. ((first \o mid) \o last) \o rest = (first \o (mid \o cut)) \o kept
      <4>1. first \o mid \in Seq(SaidLines)
        BY Joined, Zenon
      <4>2. /\ Regroup(first \o mid, last, rest)
            /\ Regroup(first \o mid, cut, kept)
            /\ Regroup(first, mid, cut)
        BY <4>1, Regrouping, Zenon
      <4> QED  BY ONLY <4>2, last \o rest = cut \o kept, Zenon DEF Regroup
    <3> QED  BY ONLY <1>1, <3>1, <3>2, Zenon
  <2> QED  BY <2>1, <2>2
<1>4. Len(first \o now) < HeadCap => mid \o cut = <<>> /\ kept = <<>>
  <2>1. SUFFICES ASSUME Len(first \o now) < HeadCap PROVE mid \o cut = <<>> /\ kept = <<>>
    OBVIOUS
  <2>2. rest = <<>> /\ Len(first) < HeadCap
    BY <1>2, <2>1, Caps
  <2>3. mid = <<>> /\ last = <<>> /\ kept = <<>>
    BY <1>1, <2>2
  <2>4. cut = <<>>
    <3>1. cut \o kept = <<>>
      BY <2>2, <2>3, ConcatEmptySeq
    <3> QED  BY <3>1, ConcatEqualIffEmpty
  <2> QED  BY <2>3, <2>4, ConcatEmptySeq
<1>5. Len(mid) + Len(cut) > 0 => Len(kept) = TailCap
  <2>1. SUFFICES ASSUME Len(mid) > 0, ~(Len(cut) > 0) PROVE Len(kept) = TailCap
    OBVIOUS
  <2>2. cut = <<>> /\ Len(last) = TailCap
    BY <1>1, <2>1, EmptySeq
  <2>3. last \o rest = kept /\ Len(last \o rest) = Len(last) + Len(rest) /\ Len(rest) \in Nat
    BY <2>2, ConcatEmptySeq, ConcatProperties
  <2> QED  BY <2>2, <2>3, Caps
<1> QED  BY <1>1, <1>2, <1>3, <1>4, <1>5 DEF Split
LEMMA FeedSplits ==
  ASSUME NEW all \in Seq(SaidLines), NEW first \in Seq(SaidLines), NEW last \in Seq(SaidLines), NEW missing,
         NEW chunk \in Seq(SaidLines), Split(all, first, last, missing),
         NEW now, NEW rest, HeadSplits(first, chunk, now, rest),
         NEW kept, NEW more, TailSplits(last, rest, kept, more)
  PROVE  Split(all \o chunk, first \o now, kept, missing + more)
<1>1. PICK cut \in Seq(SaidLines) :
        last \o rest = cut \o kept /\ Len(cut) = more /\ (more > 0 => Len(kept) = TailCap)
  BY DEF TailSplits
<1>2. /\ now \in Seq(SaidLines) /\ rest \in Seq(SaidLines) /\ chunk = now \o rest
      /\ Len(first) + Len(now) <= HeadCap
      /\ Len(first) + Len(now) < HeadCap => rest = <<>>
      /\ Len(first) = HeadCap => now = <<>>
      /\ kept \in Seq(SaidLines) /\ Len(kept) <= TailCap
      /\ rest = <<>> => kept = last
  BY DEF HeadSplits, TailSplits
<1>3. Split(all \o chunk, first \o now, kept, missing + Len(cut))
  BY <1>1, <1>2, FeedJoins
<1> QED  BY ONLY <1>1, <1>3, Zenon

LEMMA FirstOfConcat ==
  ASSUME NEW S, NEW s \in Seq(S), NEW t \in Seq(S)
  PROVE  IsPrefix(s, s \o t)
<1>1. /\ Len(s \o t) = Len(s) + Len(t) /\ Len(s) \in Nat /\ Len(t) \in Nat
      /\ s \o t \in Seq(S)
  BY ConcatProperties
<1>2. CASE Len(s) = 0
  <2>1. 1 \in Int /\ 0 \in Int /\ 0 < 1
    OBVIOUS
  <2>2. SubSeq(s, 1, 0) = <<>> /\ SubSeq(s \o t, 1, 0) = <<>>
    BY ONLY <2>1, SubSeqEmpty
  <2> QED  BY <1>1, <1>2, <2>2 DEF IsPrefix
<1>3. CASE Len(s) # 0
  <2>1. 1 \in 1 .. Len(s) /\ Len(s) \in 1 .. Len(s)
    BY <1>1, <1>3
  <2>2. SubSeq(s \o t, 1, Len(s)) = SubSeq(s, 1, Len(s))
    BY <2>1, SubSeqOfConcat1
  <2> QED  BY <1>1, <2>2 DEF IsPrefix
<1> QED  BY <1>2, <1>3

LEMMA Reversed ==
  ASSUME NEW S, NEW s \in Seq(S)
  PROVE  /\ Reverse(s) \in Seq(S) /\ Len(Reverse(s)) = Len(s)
         /\ \A i \in 1 .. Len(s) : Reverse(s)[i] = s[(Len(s) - i) + 1]
<1>1. Len(s) \in Nat /\ \A i \in 1 .. Len(s) : s[(Len(s) - i) + 1] \in S
  BY ElementOfSeq
<1>2. Reverse(s) \in Seq(S)
  BY <1>1, IsASeq DEF Reverse
<1> QED  BY <1>1, <1>2 DEF Reverse

LEMMA LastOfConcat ==
  ASSUME NEW S, NEW s \in Seq(S), NEW t \in Seq(S)
  PROVE  IsSuffix(t, s \o t)
<1>1. /\ Len(s \o t) = Len(s) + Len(t) /\ Len(s) \in Nat /\ Len(t) \in Nat
      /\ s \o t \in Seq(S)
  BY ConcatProperties
<1>2. PICK u : u = Reverse(s \o t) /\ u \in Seq(S) /\ Len(u) = Len(s) + Len(t)
               /\ \A i \in 1 .. Len(s) + Len(t) : u[i] = (s \o t)[(Len(s) + Len(t) - i) + 1]
  <2>1. PICK w \in Seq(S) : w = s \o t
    BY <1>1
  <2>2. /\ Reverse(w) \in Seq(S) /\ Len(Reverse(w)) = Len(w)
        /\ \A i \in 1 .. Len(w) : Reverse(w)[i] = w[(Len(w) - i) + 1]
    BY Reversed
  <2>3. Len(w) = Len(s) + Len(t)
    BY <1>1, <2>1
  <2> HIDE DEF Reverse
  <2>4. \A i \in 1 .. Len(s) + Len(t) : Reverse(w)[i] = w[(Len(s) + Len(t) - i) + 1]
    BY ONLY <2>2, <2>3
  <2> QED  BY ONLY <2>1, <2>2, <2>3, <2>4
<1>3. PICK v : v = Reverse(t) \o Reverse(s) /\ v \in Seq(S) /\ Len(v) = Len(t) + Len(s)
               /\ \A i \in 1 .. Len(t) + Len(s) :
                    v[i] = IF i <= Len(t) THEN t[(Len(t) - i) + 1] ELSE s[(Len(s) - (i - Len(t))) + 1]
  <2>1. /\ Reverse(t) \in Seq(S) /\ Len(Reverse(t)) = Len(t)
        /\ Reverse(s) \in Seq(S) /\ Len(Reverse(s)) = Len(s)
    BY Reversed
  <2>2. /\ Reverse(t) \o Reverse(s) \in Seq(S) /\ Len(Reverse(t) \o Reverse(s)) = Len(t) + Len(s)
        /\ \A i \in 1 .. Len(t) + Len(s) : (Reverse(t) \o Reverse(s))[i] =
             IF i <= Len(t) THEN Reverse(t)[i] ELSE Reverse(s)[i - Len(t)]
    <3>1. PICK p \in Seq(S) : p = Reverse(t) /\ Len(p) = Len(t)
      BY <2>1
    <3>2. PICK q \in Seq(S) : q = Reverse(s) /\ Len(q) = Len(s)
      BY <2>1
    <3>3. /\ p \o q \in Seq(S) /\ Len(p \o q) = Len(p) + Len(q)
          /\ \A i \in 1 .. Len(p) + Len(q) : (p \o q)[i] = IF i <= Len(p) THEN p[i] ELSE q[i - Len(p)]
      BY ConcatProperties
    <3> QED  BY ONLY <3>1, <3>2, <3>3, Zenon
  <2>3. ASSUME NEW i \in 1 .. Len(t) + Len(s)
        PROVE  (Reverse(t) \o Reverse(s))[i]
                 = IF i <= Len(t) THEN t[(Len(t) - i) + 1] ELSE s[(Len(s) - (i - Len(t))) + 1]
    <3>1. i <= Len(t) => Reverse(t)[i] = t[(Len(t) - i) + 1]
      BY <1>1, Reversed
    <3>2. ~(i <= Len(t)) => Reverse(s)[i - Len(t)] = s[(Len(s) - (i - Len(t))) + 1]
      <4>1. ~(i <= Len(t)) => i - Len(t) \in 1 .. Len(s)
        BY <1>1
      <4> QED  BY <4>1, Reversed
    <3> QED  BY ONLY <2>2, <3>1, <3>2, i \in 1 .. Len(t) + Len(s)
  <2> QED  BY ONLY <2>2, <2>3, Zenon
<1>4. ASSUME NEW i \in 1 .. Len(s) + Len(t) PROVE u[i] = v[i]
  <2>1. (Len(s) + Len(t) - i) + 1 \in 1 .. Len(s) + Len(t)
    BY <1>1
  <2>2. u[i] = IF (Len(s) + Len(t) - i) + 1 <= Len(s) THEN s[(Len(s) + Len(t) - i) + 1]
               ELSE t[(Len(s) + Len(t) - i) + 1 - Len(s)]
    BY <1>2, <2>1, ConcatProperties
  <2>3. v[i] = IF i <= Len(t) THEN t[(Len(t) - i) + 1] ELSE s[(Len(s) - (i - Len(t))) + 1]
    BY <1>1, <1>3
  <2>4. /\ (Len(s) + Len(t) - i) + 1 <= Len(s) <=> ~(i <= Len(t))
        /\ (Len(s) + Len(t) - i) + 1 - Len(s) = (Len(t) - i) + 1
        /\ (Len(s) + Len(t) - i) + 1 = (Len(s) - (i - Len(t))) + 1
    BY <1>1
  <2> QED  BY ONLY <2>2, <2>3, <2>4
<1>5. u = v
  <2>1. Len(u) = Len(v) /\ \A i \in 1 .. Len(u) : u[i] = v[i]
    BY <1>1, <1>2, <1>3, <1>4
  <2> QED  BY <1>2, <1>3, <2>1, SeqEqual
<1>6. Reverse(t) \in Seq(S) /\ Reverse(s) \in Seq(S)
  BY Reversed
<1> QED  BY <1>2, <1>3, <1>5, <1>6, FirstOfConcat DEF IsSuffix

(* What _Capture promises of a stream.                                     *)
LEMMA SplitIsKept ==
  ASSUME NEW all \in Seq(SaidLines), NEW first \in Seq(SaidLines), NEW last \in Seq(SaidLines), NEW missing,
         Split(all, first, last, missing)
  PROVE  /\ missing \in Nat
         /\ Len(first) + Len(last) + missing = Len(all)
         /\ Len(first) + Len(last) <= OUTPUT_CAP
         /\ IsPrefix(first, all) /\ IsSuffix(last, all)
         /\ missing > 0 => Len(first) + Len(last) = OUTPUT_CAP
         /\ missing = 0 => all = first \o last
<1>1. PICK mid \in Seq(SaidLines) :
        /\ all = (first \o mid) \o last /\ missing = Len(mid)
        /\ Len(first) <= HeadCap /\ Len(last) <= TailCap
        /\ Len(first) < HeadCap => mid = <<>> /\ last = <<>>
        /\ missing > 0 => Len(last) = TailCap
  BY DEF Split
<1>2. /\ first \o mid \in Seq(SaidLines) /\ Len(first \o mid) = Len(first) + Len(mid)
      /\ Len((first \o mid) \o last) = Len(first \o mid) + Len(last)
      /\ mid \o last \in Seq(SaidLines)
  BY Joined
<1>3. /\ Len(first) \in Nat /\ Len(mid) \in Nat /\ Len(last) \in Nat
      /\ Len(mid) = 0 <=> mid = <<>>
  BY NoLines
<1>4. Len(first) + Len(last) + missing = Len(all)
  BY ONLY <1>1, <1>2, <1>3
<1>5. Len(first) + Len(last) <= OUTPUT_CAP
  BY ONLY <1>1, <1>3, Caps
<1>6. missing > 0 => Len(first) + Len(last) = OUTPUT_CAP
  <2>1. missing > 0 => ~(Len(first) < HeadCap) /\ Len(last) = TailCap
    BY ONLY <1>1, <1>3
  <2>2. Len(first) <= HeadCap
    BY <1>1
  <2>3. CASE missing > 0
    <3>1. Len(first) \in Nat /\ ~(Len(first) < HeadCap) /\ Len(first) <= HeadCap
      BY <1>3, <2>1, <2>2, <2>3, Zenon
    <3>2. Len(first) = HeadCap
      BY ONLY <3>1, Caps
    <3>3. Len(last) = TailCap /\ HeadCap + TailCap = OUTPUT_CAP
      BY <2>1, <2>3, Caps, Zenon
    <3> QED  BY ONLY <3>2, <3>3, Zenon
  <2> QED  BY <2>3, Zenon
<1>7. IsPrefix(first, all)
  <2>1. Regroup(first, mid, last)
    BY Regrouping, Zenon
  <2>2. IsPrefix(first, first \o (mid \o last))
    BY <1>2, FirstOfConcat
  <2> QED  BY ONLY <1>1, <2>1, <2>2, Zenon DEF Regroup
<1>8. IsSuffix(last, all)
  <2>1. IsSuffix(last, (first \o mid) \o last)
    BY <1>2, LastOfConcat
  <2> QED  BY ONLY <1>1, <2>1, Zenon
<1>9. missing = 0 => all = first \o last
  <2>1. first \o <<>> = first
    BY WithNothing, Zenon
  <2> QED  BY ONLY <1>1, <1>3, <2>1, Zenon
<1> QED  BY <1>1, <1>3, <1>4, <1>5, <1>6, <1>7, <1>8, <1>9

(* The lines of a text.                                                    *)
LinesIn(s) == {s[i] : i \in 1 .. Len(s)}

LEMMA LinesJoin ==
  ASSUME NEW S, NEW s \in Seq(S), NEW t \in Seq(S)
  PROVE  LinesIn(s \o t) = LinesIn(s) \cup LinesIn(t)
<1>1. /\ Len(s \o t) = Len(s) + Len(t) /\ Len(s) \in Nat /\ Len(t) \in Nat
      /\ \A i \in 1 .. Len(s) + Len(t) : (s \o t)[i] = IF i <= Len(s) THEN s[i] ELSE t[i - Len(s)]
  BY ConcatProperties
<1>2. ASSUME NEW x \in LinesIn(s \o t) PROVE x \in LinesIn(s) \cup LinesIn(t)
  <2>1. PICK i \in 1 .. Len(s) + Len(t) : x = (s \o t)[i]
    BY <1>1 DEF LinesIn
  <2>2. x = IF i <= Len(s) THEN s[i] ELSE t[i - Len(s)]
    BY <1>1, <2>1
  <2>3. (i <= Len(s) => i \in 1 .. Len(s)) /\ (~(i <= Len(s)) => i - Len(s) \in 1 .. Len(t))
    BY ONLY <1>1, i \in 1 .. Len(s) + Len(t)
  <2> QED  BY <2>2, <2>3 DEF LinesIn
<1>3. ASSUME NEW x \in LinesIn(s) PROVE x \in LinesIn(s \o t)
  <2>1. PICK i \in 1 .. Len(s) : x = s[i]
    BY DEF LinesIn
  <2>2. i \in 1 .. Len(s) + Len(t) /\ i <= Len(s)
    BY ONLY <1>1, i \in 1 .. Len(s)
  <2>3. (s \o t)[i] = s[i]
    BY <1>1, <2>2
  <2> QED  BY <1>1, <2>1, <2>2, <2>3 DEF LinesIn
<1>4. ASSUME NEW x \in LinesIn(t) PROVE x \in LinesIn(s \o t)
  <2>1. PICK i \in 1 .. Len(t) : x = t[i]
    BY DEF LinesIn
  <2>2. PICK j \in 1 .. Len(s) + Len(t) : j = Len(s) + i /\ ~(j <= Len(s)) /\ j - Len(s) = i
    BY ONLY <1>1, i \in 1 .. Len(t)
  <2>3. (s \o t)[j] = t[i]
    BY <1>1, <2>2
  <2> QED  BY <1>1, <2>1, <2>2, <2>3 DEF LinesIn
<1> QED  BY <1>2, <1>3, <1>4

(* Whatever was split has the lines that were kept of it.                  *)
LEMMA SplitHasLines ==
  ASSUME NEW all \in Seq(SaidLines), NEW first \in Seq(SaidLines), NEW last \in Seq(SaidLines), NEW missing,
         Split(all, first, last, missing)
  PROVE  LinesIn(first) \cup LinesIn(last) \subseteq LinesIn(all)
<1>1. PICK mid \in Seq(SaidLines) : all = (first \o mid) \o last
  BY DEF Split
<1>2. first \o mid \in Seq(SaidLines)
  BY Joined, Zenon
<1>3. LinesIn((first \o mid) \o last) = LinesIn(first \o mid) \cup LinesIn(last)
  BY <1>2, LinesJoin
<1>4. LinesIn(first \o mid) = LinesIn(first) \cup LinesIn(mid)
  BY LinesJoin
<1> QED  BY ONLY <1>1, <1>3, <1>4, Zenon

(* What may stand in a text besides the lines that were said: Gap, and the *)
(* pieces of the lines on either side of it.                               *)
Readable == SaidLines \cup {Gap} \cup UNION {Pieces[line] : line \in SaidLines}

LeftAt(s) == IF lost[s] = 0 THEN {} ELSE Pieces[FirstLost(s)] \cup Pieces[LastLost(s)]

LEMMA SaidIsReadable == \A s \in Seq(SaidLines) : s \in Seq(Readable)
<1>1. SaidLines \subseteq Readable
  BY DEF Readable
<1> QED  BY <1>1

LEMMA PieceIs ==
  ASSUME NEW line \in SaidLines, NEW left \in LeftOf(line)
  PROVE  left \in Seq(Readable) /\ LinesIn(left) \subseteq Pieces[line]
<1>1. CASE left = <<>>
  <2>1. <<>> \in Seq(Readable) /\ LinesIn(<<>>) = {}
    BY DEF LinesIn
  <2> QED  BY <1>1, <2>1
<1>2. CASE left # <<>>
  <2>1. PICK piece \in Pieces[line] : left = <<piece>>
    BY <1>2 DEF LeftOf
  <2>2. piece \in Readable
    BY DEF Readable
  <2>3. <<piece>> \in Seq(Readable) /\ LinesIn(<<piece>>) = {piece}
    BY <2>2 DEF LinesIn
  <2> QED  BY <2>1, <2>3
<1> QED  BY <1>1, <1>2

LEMMA Longer ==
  ASSUME NEW a \in Seq(Readable), NEW b \in Seq(Readable)
  PROVE  a \o b \in Seq(Readable) /\ LinesIn(a \o b) = LinesIn(a) \cup LinesIn(b)
BY LinesJoin, ConcatProperties

LEMMA TextIs ==
  ASSUME NEW s, said[s] \in Seq(SaidLines), head[s] \in Seq(SaidLines), tail[s] \in Seq(SaidLines),
         Split(said[s], head[s], tail[s], lost[s]), NEW text \in TextsOf(s)
  PROVE  /\ text \in Seq(Readable)
         /\ LinesIn(text) \subseteq LinesIn(said[s]) \cup {Gap} \cup LeftAt(s)
         /\ lost[s] = 0 => text = said[s]
         /\ lost[s] # 0 => \E pre \in Seq(Readable) : text = pre \o tail[s]
<1>. DEFINE all == said[s]
            first == head[s]
            last == tail[s]
            missing == lost[s]
<1>1. first \in Seq(Readable) /\ last \in Seq(Readable)
  BY SaidIsReadable
<1>2. LinesIn(first) \cup LinesIn(last) \subseteq LinesIn(all)
  BY SplitHasLines
<1>3. /\ missing \in Nat /\ Len(first) + Len(last) + missing = Len(all)
      /\ Len(first) \in Nat /\ Len(last) \in Nat /\ Len(all) \in Nat
      /\ missing = 0 => all = first \o last
  <2>1. Len(first) \in Nat /\ Len(last) \in Nat /\ Len(all) \in Nat
    OBVIOUS
  <2>2. /\ missing \in Nat /\ Len(first) + Len(last) + missing = Len(all)
        /\ missing = 0 => all = first \o last
    <3>1. Split(all, first, last, missing) /\ all \in Seq(SaidLines) /\ first \in Seq(SaidLines) /\ last \in Seq(SaidLines)
      OBVIOUS
    <3> HIDE DEF all, first, last, missing
    <3> QED  BY ONLY <3>1, SplitIsKept
  <2> QED  BY <2>1, <2>2
<1>4. CASE missing = 0
  <2>1. text = first \o last
    <3>1. lost[s] = 0
      BY <1>4
    <3> QED  BY <3>1 DEF TextsOf
  <2>2. text \in Seq(Readable) /\ LinesIn(text) = LinesIn(first) \cup LinesIn(last)
    BY <1>1, <2>1, Longer
  <2> QED  BY ONLY <1>2, <1>3, <1>4, <2>1, <2>2, Zenon
<1>5. CASE missing # 0
  <2>1. PICK front \in LeftOf(FirstLost(s)), back \in LeftOf(LastLost(s)) :
          text = first \o front \o <<Gap>> \o back \o last
    <3>1. lost[s] # 0
      BY <1>5
    <3>2. PICK left \in LeftOf(FirstLost(s)) \X LeftOf(LastLost(s)) :
            text = head[s] \o left[1] \o <<Gap>> \o left[2] \o tail[s]
      BY <3>1 DEF TextsOf
    <3>3. left[1] \in LeftOf(FirstLost(s)) /\ left[2] \in LeftOf(LastLost(s))
      OBVIOUS
    <3> QED  BY <3>2, <3>3
  <2>2. FirstLost(s) \in SaidLines /\ LastLost(s) \in SaidLines
    <3>1. Len(first) + 1 \in 1 .. Len(all) /\ Len(first) + missing \in 1 .. Len(all)
      <4> HIDE DEF all, first, last, missing
      <4> QED  BY ONLY <1>3, <1>5
    <3> QED  BY <3>1, ElementOfSeq DEF FirstLost, LastLost
  <2>3. /\ front \in Seq(Readable) /\ LinesIn(front) \subseteq Pieces[FirstLost(s)]
        /\ back \in Seq(Readable) /\ LinesIn(back) \subseteq Pieces[LastLost(s)]
    BY <2>1, <2>2, PieceIs
  <2>4. PICK gap : gap = <<Gap>>
    OBVIOUS
  <2>5. gap \in Seq(Readable) /\ LinesIn(gap) = {Gap}
    <3>1. Gap \in Readable
      BY DEF Readable
    <3>2. <<Gap>> \in Seq(Readable) /\ LinesIn(<<Gap>>) = {Gap}
      BY <3>1 DEF LinesIn
    <3> QED  BY <2>4, <3>2
  <2>6. PICK p : p = first \o front
    OBVIOUS
  <2>7. p \in Seq(Readable) /\ LinesIn(p) = LinesIn(first) \cup LinesIn(front)
    BY <1>1, <2>3, <2>6, Longer
  <2>8. PICK q : q = p \o gap
    OBVIOUS
  <2>9. q \in Seq(Readable) /\ LinesIn(q) = LinesIn(p) \cup {Gap}
    BY <2>5, <2>7, <2>8, Longer
  <2>10. PICK pre : pre = q \o back
    OBVIOUS
  <2>11. pre \in Seq(Readable) /\ LinesIn(pre) = LinesIn(q) \cup LinesIn(back)
    BY <2>3, <2>9, <2>10, Longer
  <2>12. text = pre \o last
    BY ONLY <2>1, <2>4, <2>6, <2>8, <2>10, Zenon
  <2>13. text \in Seq(Readable) /\ LinesIn(text) = LinesIn(pre) \cup LinesIn(last)
    BY <1>1, <2>11, <2>12, Longer
  <2>14. LeftAt(s) = Pieces[FirstLost(s)] \cup Pieces[LastLost(s)]
    BY <1>5 DEF LeftAt
  <2>15. LinesIn(text) \subseteq LinesIn(all) \cup {Gap} \cup LeftAt(s)
    BY ONLY <1>2, <2>3, <2>7, <2>9, <2>11, <2>13, <2>14
  <2> QED  BY ONLY <1>5, <2>11, <2>12, <2>13, <2>15, Zenon
<1> QED  BY <1>4, <1>5

(* Without what was read as the status, a text has its other lines.        *)
LEMMA GreatestAt ==
  ASSUME NEW text, Len(text) \in Nat, NEW T \in SUBSET (1 .. Len(text))
  PROVE  /\ IsFiniteSet(T)
         /\ T # {} => Max(T) \in T /\ \A i \in T : i <= Max(T)
<1>1. IsFiniteSet(1 .. Len(text))
  BY FS_Interval
<1>2. T \in SUBSET Nat
  BY ONLY Len(text) \in Nat, T \in SUBSET (1 .. Len(text))
<1>3. IsFiniteSet(T)
  BY ONLY <1>1, T \in SUBSET (1 .. Len(text)), FS_Subset
<1> QED  BY ONLY <1>2, <1>3, MaxIsGreatest

LEMMA StatusIs ==
  ASSUME NEW S, NEW text \in Seq(S)
  PROVE  /\ StatusAt(text) \in 0 .. Len(text)
         /\ StatusAt(text) # 0 => text[StatusAt(text)].what = "status"
         /\ \A i \in 1 .. Len(text) : text[i].what = "status" => i <= StatusAt(text)
<1>. DEFINE T == {0} \cup {i \in 1 .. Len(text) : text[i].what = "status"}
<1>1. Len(text) \in Nat
  OBVIOUS
<1>2. IsFiniteSet(T) /\ T \in SUBSET Nat /\ 0 \in T /\ T \subseteq 0 .. Len(text)
  <2>1. IsFiniteSet(0 .. Len(text)) /\ T \subseteq 0 .. Len(text)
    BY <1>1, FS_Interval
  <2> QED  BY <2>1, FS_Subset
<1>3. StatusAt(text) = Max(T)
  BY DEF StatusAt
<1>4. Max(T) \in T /\ \A i \in T : i <= Max(T)
  <2> HIDE DEF T
  <2> QED  BY <1>2, MaxIsGreatest
<1> QED  BY ONLY <1>2, <1>3, <1>4 DEF T

LEMMA WithoutIs ==
  ASSUME NEW S, NEW text \in Seq(S), NEW at, at = StatusAt(text)
  PROVE  /\ Without(text, at) \in Seq(S)
         /\ LinesIn(Without(text, at)) \subseteq LinesIn(text)
         /\ \A x \in LinesIn(text) : x.what # "status" => x \in LinesIn(Without(text, at))
<1>1. /\ at \in 0 .. Len(text) /\ Len(text) \in Nat
      /\ at # 0 => text[at].what = "status"
  BY StatusIs
<1>2. CASE at = 0
  BY <1>2 DEF Without
<1>3. CASE at # 0
  <2>. DEFINE upTo == SubSeq(text, 1, at - 1)
              after == SubSeq(text, at + 1, Len(text))
  <2>1. PICK m \in 0 .. Len(text) : m = at - 1 /\ at \in 0 .. Len(text)
    BY <1>1, <1>3
  <2>2. /\ upTo \in Seq(S) /\ SubSeq(text, m + 1, Len(text)) \in Seq(S)
        /\ text = upTo \o SubSeq(text, m + 1, Len(text))
    BY <2>1, CutInTwo
  <2>3. after \in Seq(S) /\ text = SubSeq(text, 1, at) \o after /\ SubSeq(text, 1, at) \in Seq(S)
    BY <2>1, CutInTwo
  <2>4. SubSeq(text, 1, at) = upTo \o <<text[at]>>
    <3>1. 1 \in 1 .. Len(text) /\ at \in 1 .. Len(text)
      BY <1>1, <1>3
    <3> QED  BY <3>1, SubSeqRecursiveSecond
  <2>5. text[at] \in S
    BY <1>1, <1>3, ElementOfSeq
  <2>6. LinesIn(<<text[at]>>) = {text[at]} /\ <<text[at]>> \in Seq(S)
    BY <2>5 DEF LinesIn
  <2>7. LinesIn(SubSeq(text, 1, at)) = LinesIn(upTo) \cup {text[at]}
    <3> HIDE DEF upTo
    <3>1. PICK p \in Seq(S) : p = <<text[at]>>
      BY <2>6
    <3>2. LinesIn(upTo \o p) = LinesIn(upTo) \cup LinesIn(p)
      BY <2>2, LinesJoin
    <3> QED  BY ONLY <2>4, <2>6, <3>1, <3>2, Zenon
  <2> HIDE DEF upTo, after
  <2>8. LinesIn(text) = LinesIn(SubSeq(text, 1, at)) \cup LinesIn(after)
    <3>1. PICK p \in Seq(S) : p = SubSeq(text, 1, at)
      BY <2>3
    <3>2. LinesIn(p \o after) = LinesIn(p) \cup LinesIn(after)
      BY <2>3, LinesJoin
    <3> QED  BY ONLY <2>3, <3>1, <3>2, Zenon
  <2>9. LinesIn(upTo \o after) = LinesIn(upTo) \cup LinesIn(after) /\ upTo \o after \in Seq(S)
    BY <2>2, <2>3, LinesJoin, ConcatProperties
  <2>10. Without(text, at) = upTo \o after
    BY <1>3 DEF Without, RemoveAt, upTo, after
  <2> QED  BY ONLY <1>1, <1>3, <2>7, <2>8, <2>9, <2>10, Zenon
<1> QED  BY <1>2, <1>3

(* The k-th of a set of numbers is the one with k up to it.                *)
LEMMA SomeIsKth ==
  ASSUME NEW at \in SUBSET Nat, IsFiniteSet(at), NEW k \in 1 .. Cardinality(at)
  PROVE  \E i \in at : Cardinality({j \in at : j <= i}) = k
<1>. DEFINE R == {p \in at \X at : p[1] < p[2]}
<1>1. Orders(R, at)
  BY DEF Orders
<1>2. Cardinality(at) \in Nat /\ k - 1 \in 0 .. Cardinality(at) - 1
  BY FS_CardinalityType
<1>3. PICK i \in at : RankIn(R, at)[i] = k - 1
  <2>1. RankIn(R, at) \in Bijection(at, 0 .. Cardinality(at) - 1)
    BY <1>1, RanksNumber
  <2> QED  BY <1>2, <2>1 DEF Bijection, Surjection
<1>4. Cardinality(Below(R, at, i)) = k - 1
  BY <1>3 DEF RankIn
<1>5. /\ Below(R, at, i) \subseteq at /\ i \notin Below(R, at, i)
      /\ {j \in at : j <= i} = Below(R, at, i) \cup {i}
  <2>1. \A j \in at : j <= i <=> j < i \/ j = i
    OBVIOUS
  <2>2. \A j \in at : <<j, i>> \in R <=> j < i
    OBVIOUS
  <2>3. ~(i < i)
    OBVIOUS
  <2> HIDE DEF R
  <2> QED  BY ONLY <2>1, <2>2, <2>3, i \in at DEF Below
<1>6. IsFiniteSet(Below(R, at, i))
  BY <1>5, FS_Subset
<1> HIDE DEF R
<1>7. Cardinality(Below(R, at, i) \cup {i}) = Cardinality(Below(R, at, i)) + 1
  BY <1>5, <1>6, FS_AddElement
<1>8. {j \in at : j <= i} = Below(R, at, i) \cup {i} /\ (k - 1) + 1 = k
  BY <1>2, <1>5
<1> QED  BY ONLY <1>4, <1>7, <1>8, i \in at, Zenon

LEMMA ListedTyped ==
  ASSUME NEW text, Len(text) \in Nat, NEW format
  PROVE  /\ ListedAt(format, text) \subseteq FailedAt(format, text)
         /\ FailedAt(format, text) \subseteq 1 .. Len(text)
         /\ ListedAt(format, text) \in SUBSET Nat /\ IsFiniteSet(ListedAt(format, text))
         /\ IsFiniteSet(FailedAt(format, text))
         /\ Cardinality(ListedAt(format, text)) \in Nat
         /\ format = "jest" => ListedAt(format, text) = FailedAt(format, text)
<1>1. ListedAt(format, text) \subseteq FailedAt(format, text) /\ FailedAt(format, text) \subseteq 1 .. Len(text)
  BY DEF ListedAt, FailedAt
<1>2. IsFiniteSet(1 .. Len(text)) /\ 1 .. Len(text) \subseteq Nat
  BY FS_Interval
<1>3. IsFiniteSet(FailedAt(format, text)) /\ IsFiniteSet(ListedAt(format, text))
  BY <1>1, <1>2, FS_Subset
<1>4. Cardinality(ListedAt(format, text)) \in Nat
  BY <1>3, FS_CardinalityType
<1>5. ASSUME format = "jest" PROVE ListedAt(format, text) = FailedAt(format, text)
  <2>1. SummaryAt(format, text) = 0
    BY <1>5 DEF SummaryAt
  <2>2. \A i \in FailedAt(format, text) : i > 0
    BY <1>1
  <2> QED  BY <2>1, <2>2 DEF ListedAt
<1> QED  BY <1>1, <1>2, <1>3, <1>4, <1>5

(* The failures a parser lists: tests its lines said have failed, one for  *)
(* each of those lines.                                                    *)
LEMMA FailuresAre ==
  ASSUME NEW text, Len(text) \in Nat, NEW format
  PROVE  /\ Failures(format, text) \in Seq(FailedIn(format, text))
         /\ Len(Failures(format, text)) = Cardinality(ListedAt(format, text))
<1>. DEFINE at == ListedAt(format, text)
            kth(k) == CHOOSE i \in at : Cardinality({j \in at : j <= i}) = k
            test(k) == text[kth(k)].test
            n == Cardinality(at)
<1>1. at \subseteq FailedAt(format, text) /\ at \in SUBSET Nat /\ IsFiniteSet(at) /\ n \in Nat
  BY ListedTyped
<1>2. ASSUME NEW k \in 1 .. n PROVE test(k) \in FailedIn(format, text)
  <2>1. \E i \in at : Cardinality({j \in at : j <= i}) = k
    <3> HIDE DEF at
    <3> QED  BY <1>1, SomeIsKth DEF n
  <2>2. kth(k) \in at
    BY <2>1
  <2> HIDE DEF kth, at
  <2> QED  BY <1>1, <2>2 DEF FailedIn
<1>3. Failures(format, text) = [k \in 1 .. n |-> test(k)]
  BY DEF Failures
<1> HIDE DEF test, n
<1>4. [k \in 1 .. n |-> test(k)] \in Seq(FailedIn(format, text))
  BY <1>1, <1>2, IsASeq
<1>5. Len([k \in 1 .. n |-> test(k)]) = n
  BY <1>1, <1>4
<1> QED  BY <1>3, <1>4, <1>5 DEF n

(* What is listed, once for each test, is no more than the list.           *)
LEMMA ListedCounted ==
  ASSUME NEW text, Len(text) \in Nat, NEW format
  PROVE  /\ IsFiniteSet(ListedIn(format, text))
         /\ Cardinality(ListedIn(format, text)) <= Len(Failures(format, text))
         /\ ListedIn(format, text) # {} => Failures(format, text) # <<>>
<1>. DEFINE at == ListedAt(format, text)
            tests == {text[i].test : i \in at}
<1>1. IsFiniteSet(at) /\ Len(Failures(format, text)) = Cardinality(at) /\ Cardinality(at) \in Nat
  <2>1. IsFiniteSet(at) /\ Cardinality(at) \in Nat
    BY ListedTyped
  <2> QED  BY <2>1, FailuresAre
<1>2. ListedIn(format, text) = tests
  BY DEF ListedIn
<1> HIDE DEF at
<1>3. IsFiniteSet(tests) /\ Cardinality(tests) <= Cardinality(at)
  <2>. DEFINE f == [i \in at |-> text[i].test]
  <2>1. f \in Surjection(at, tests)
    BY Fun_IsSurj
  <2> HIDE DEF f, tests
  <2> QED  BY <1>1, <2>1, FS_Surjection
<1>4. ASSUME tests # {} PROVE Failures(format, text) # <<>>
  <2>1. at # {}
    BY <1>4
  <2>2. Cardinality(at) # 0
    BY <1>1, <2>1, FS_EmptySet
  <2>3. Len(<<>>) = 0
    OBVIOUS
  <2> QED  BY <1>1, <2>2, <2>3
<1> HIDE DEF tests
<1> QED  BY <1>1, <1>2, <1>3, <1>4

(* What is listed of the failures, and what is left out.                   *)
LEMMA ListedOf ==
  ASSUME NEW S, NEW failures \in Seq(S), NEW shown, NEW omitted,
         shown = SubSeq(failures, 1, Min({Len(failures), MAX_FAILURES})),
         omitted = Max({0, Len(failures) - MAX_FAILURES})
  PROVE  /\ shown \in Seq(S) /\ omitted \in Nat
         /\ Len(shown) <= MAX_FAILURES
         /\ omitted > 0 => Len(shown) = MAX_FAILURES
         /\ Len(shown) + omitted = Len(failures)
         /\ shown = <<>> /\ omitted = 0 => failures = <<>>
<1>1. PICK n \in Nat : n = Len(failures)
  OBVIOUS
<1>2. MAX_FAILURES \in Nat
  BY OutputAssumption
<1>3. omitted = IF n > MAX_FAILURES THEN n - MAX_FAILURES ELSE 0
  <2>1. n - MAX_FAILURES \in Int
    BY <1>2
  <2>2. Max({0, n - MAX_FAILURES}) = IF 0 < n - MAX_FAILURES THEN n - MAX_FAILURES ELSE 0
    BY <2>1, GreaterOf
  <2> QED  BY <1>1, <1>2, <2>2
<1>4. PICK m \in 0 .. n : m = Min({n, MAX_FAILURES}) /\ m = IF n < MAX_FAILURES THEN n ELSE MAX_FAILURES
  <2>1. Min({n, MAX_FAILURES}) = IF n < MAX_FAILURES THEN n ELSE MAX_FAILURES
    BY <1>2, SmallerOf
  <2> QED  BY <1>2, <2>1
<1>5. shown = SubSeq(failures, 1, m)
  BY <1>1, <1>4
<1>6. shown \in Seq(S) /\ Len(shown) = m
  <2>1. m \in 0 .. Len(failures)
    BY <1>1
  <2> QED  BY ONLY <1>5, <2>1, failures \in Seq(S), CutInTwo, Zenon
<1>7. shown = <<>> /\ omitted = 0 => n = 0
  <2>1. shown = <<>> => m = 0
    BY <1>6, EmptySeq
  <2> QED  BY ONLY <1>2, <1>3, <1>4, <2>1, n \in Nat
<1>8. n = 0 => failures = <<>>
  BY <1>1, EmptySeq
<1>9. omitted \in Nat /\ m + omitted = n /\ m <= MAX_FAILURES /\ (omitted > 0 => m = MAX_FAILURES)
  BY ONLY <1>2, <1>3, <1>4, n \in Nat
<1> QED  BY ONLY <1>1, <1>6, <1>7, <1>8, <1>9, Zenon

(* What is parsed, whatever the text.                                      *)
ParsedOf(format, e, text) ==
  /\ ListedIn(format, text) # {} => e.parser # "none"
  /\ e.parser = format =>
       /\ IsFiniteSet(ListedIn(format, text))
       /\ Len(e.failures) + e.omitted >= Cardinality(ListedIn(format, text))

Parsed(e, text) ==
  /\ e.parser \in {"none", "pytest", "jest"} /\ e.omitted \in Nat /\ Len(e.failures) \in Nat
  /\ Len(e.failures) <= MAX_FAILURES /\ (e.omitted > 0 => Len(e.failures) = MAX_FAILURES)
  /\ \A i \in 1 .. Len(e.failures) : e.failures[i] \in FailedIn(e.parser, text)
  /\ e.failures = <<>> /\ e.omitted = 0 /\ e.reported > 0 => e.excerpt
  /\ \A format \in {"pytest", "jest"} : ParsedOf(format, e, text)

LEMMA ParseIs ==
  ASSUME NEW text \in Seq(Readable)
  PROVE  Parsed(Parse(text), text)
<1>. DEFINE finding == {i \in 1 .. Len(Order) : Finds(Order[i], text)}
            winner == Order[Min(finding)]
            failures == Failures(winner, text)
            shown == SubSeq(failures, 1, Min({Len(failures), MAX_FAILURES}))
            omitted == Max({0, Len(failures) - MAX_FAILURES})
            excerpt == Totals(winner, text) > 0 /\ failures = <<>>
<1>1. /\ Len(Order) = 2 /\ Order[1] \in {"pytest", "jest"} /\ Order[2] \in {"pytest", "jest"}
      /\ \A format \in {"pytest", "jest"} : Order[1] = format \/ Order[2] = format
  BY DEF Order, Formats
<1>2. Len(text) \in Nat
  OBVIOUS
<1>3. ASSUME NEW format \in {"pytest", "jest"}, ListedIn(format, text) # {} PROVE finding # {}
  <2>1. Finds(format, text)
    BY <1>2, <1>3, ListedCounted DEF Finds
  <2> QED  BY <1>1, <2>1
<1>4. CASE finding = {}
  <2>1. Parse(text) = [NoEvidence EXCEPT !.parser = "none", !.excerpt = TRUE]
    BY <1>4 DEF Parse
  <2>2. /\ Parse(text).parser = "none" /\ Parse(text).failures = <<>> /\ Parse(text).omitted = 0
         /\ Parse(text).reported = 0
    BY <2>1 DEF NoEvidence
  <2>3. Len(<<>>) = 0 /\ MAX_FAILURES \in Nat
    BY OutputAssumption
  <2> HIDE DEF finding
  <2>4. \A format \in {"pytest", "jest"} : ParsedOf(format, Parse(text), text)
    <3>1. ASSUME NEW format \in {"pytest", "jest"} PROVE ListedIn(format, text) = {} /\ format # "none"
      BY <1>3, <1>4
    <3> QED  BY <2>2, <3>1 DEF ParsedOf
  <2> QED  BY ONLY <2>2, <2>3, <2>4 DEF Parsed
<1>5. CASE finding # {}
  <2>1. finding \in SUBSET Nat
    OBVIOUS
  <2>2. Min(finding) \in finding
    <3> HIDE DEF finding
    <3> QED  BY <1>5, <2>1, MinIsLeast
  <2>3. winner \in {"pytest", "jest"}
    BY <1>1, <2>2
  <2>4. Parse(text) = [parser |-> winner, failures |-> shown, reported |-> Totals(winner, text),
                       omitted |-> omitted, excerpt |-> excerpt]
    BY <1>5 DEF Parse
  <2> HIDE DEF finding, winner
  <2>5. failures \in Seq(FailedIn(winner, text))
    BY <1>2, FailuresAre
  <2>6. /\ IsFiniteSet(ListedIn(winner, text))
        /\ Cardinality(ListedIn(winner, text)) <= Len(failures)
    BY <1>2, ListedCounted
  <2> HIDE DEF failures
  <2>7. /\ shown \in Seq(FailedIn(winner, text)) /\ omitted \in Nat
        /\ Len(shown) <= MAX_FAILURES
        /\ omitted > 0 => Len(shown) = MAX_FAILURES
        /\ Len(shown) + omitted = Len(failures)
        /\ shown = <<>> /\ omitted = 0 => failures = <<>>
    BY <2>5, ListedOf
  <2> HIDE DEF shown, omitted
  <2>8. Len(shown) \in Nat /\ \A i \in 1 .. Len(shown) : shown[i] \in FailedIn(winner, text)
    BY <2>7, ElementOfSeq
  <2>9. shown = <<>> /\ omitted = 0 /\ Totals(winner, text) > 0 => excerpt
    BY <2>7
  <2> HIDE DEF excerpt
  <2>10. /\ Parse(text).parser = winner /\ Parse(text).failures = shown
         /\ Parse(text).omitted = omitted /\ Parse(text).excerpt = excerpt
         /\ Parse(text).reported = Totals(winner, text)
    BY <2>4
  <2>11. Len(shown) + omitted >= Cardinality(ListedIn(winner, text))
    <3>1. Cardinality(ListedIn(winner, text)) \in Nat
      BY <2>6, FS_CardinalityType
    <3> QED  BY <2>6, <2>7, <3>1
  <2>12. \A format \in {"pytest", "jest"} : ParsedOf(format, Parse(text), text)
    <3>1. Parse(text).parser # "none"
      BY <2>3, <2>10
    <3>2. ASSUME NEW format \in {"pytest", "jest"}, Parse(text).parser = format
          PROVE  /\ IsFiniteSet(ListedIn(format, text))
                 /\ Len(Parse(text).failures) + Parse(text).omitted >= Cardinality(ListedIn(format, text))
      <4>1. format = winner
        BY <2>10, <3>2
      <4> QED  BY ONLY <2>6, <2>10, <2>11, <4>1, Zenon
    <3> QED  BY ONLY <3>1, <3>2 DEF ParsedOf
  <2> QED  BY ONLY <2>3, <2>7, <2>8, <2>9, <2>10, <2>12, Zenon DEF Parsed
<1> QED  BY <1>4, <1>5

(* A line that is the last status line of a text's end is the one read.    *)
LEMMA StatusAtEnd ==
  ASSUME NEW S, NEW pre \in Seq(S), NEW end \in Seq(S), NEW n \in 1 .. Len(end),
         end[n] = StatusLine, \A m \in n + 1 .. Len(end) : end[m].what # "status",
         NEW text, text = pre \o end
  PROVE  StatusAt(text) # 0 /\ text[StatusAt(text)].test = "real"
<1>1. /\ text \in Seq(S) /\ Len(text) = Len(pre) + Len(end) /\ Len(pre) \in Nat /\ Len(end) \in Nat
      /\ \A i \in 1 .. Len(pre) + Len(end) : text[i] = IF i <= Len(pre) THEN pre[i] ELSE end[i - Len(pre)]
  BY ConcatProperties
<1>2. PICK at : at = StatusAt(text)
  OBVIOUS
<1>3. /\ at \in 0 .. Len(text)
      /\ at # 0 => text[at].what = "status"
      /\ \A i \in 1 .. Len(text) : text[i].what = "status" => i <= at
  BY <1>1, <1>2, StatusIs
<1>4. PICK k \in 1 .. Len(text) : k = Len(pre) + n /\ ~(k <= Len(pre)) /\ k - Len(pre) = n
  <2>1. Len(text) = Len(pre) + Len(end) /\ Len(pre) \in Nat /\ Len(end) \in Nat
    BY <1>1
  <2>2. Len(pre) + n \in 1 .. Len(text) /\ ~(Len(pre) + n <= Len(pre)) /\ Len(pre) + n - Len(pre) = n
    BY ONLY <2>1, n \in 1 .. Len(end)
  <2> QED  BY <2>2
<1>5. text[k] = StatusLine
  BY <1>1, <1>4
<1>6. k <= at
  BY <1>3, <1>5 DEF StatusLine
<1>7. at = k
  <2>1. SUFFICES ASSUME at # k PROVE FALSE
    OBVIOUS
  <2>2. PICK m \in n + 1 .. Len(end) : m = at - Len(pre) /\ ~(at <= Len(pre)) /\ at \in 1 .. Len(pre) + Len(end) /\ at # 0
    <3>1. Len(text) = Len(pre) + Len(end) /\ Len(pre) \in Nat /\ Len(end) \in Nat /\ at \in 0 .. Len(text)
      BY <1>1, <1>3
    <3>2. /\ at - Len(pre) \in n + 1 .. Len(end) /\ ~(at <= Len(pre))
          /\ at \in 1 .. Len(pre) + Len(end) /\ at # 0
      BY ONLY <1>4, <1>6, <2>1, <3>1, n \in 1 .. Len(end)
    <3> QED  BY <3>2
  <2>3. text[at] = end[m]
    BY <1>1, <2>2
  <2> QED  BY <1>3, <2>2, <2>3
<1> QED  BY <1>2, <1>4, <1>5, <1>7 DEF StatusLine

LEMMA LastIsRead ==
  ASSUME NEW s, said[s] \in Seq(SaidLines), head[s] \in Seq(SaidLines), tail[s] \in Seq(SaidLines),
         Split(said[s], head[s], tail[s], lost[s]), NEW text \in TextsOf(s),
         NEW n \in 1 .. Len(said[s]), said[s][n] = StatusLine, Len(said[s]) - n < TailCap,
         \A m \in n + 1 .. Len(said[s]) : said[s][m].what # "status"
  PROVE  StatusAt(text) # 0 /\ text[StatusAt(text)].test = "real"
<1>. DEFINE all == said[s]
            first == head[s]
            last == tail[s]
            missing == lost[s]
<1>1. /\ missing = 0 => text = all
      /\ missing # 0 => \E pre \in Seq(Readable) : text = pre \o last
  BY TextIs
<1>2. all \in Seq(Readable) /\ last \in Seq(Readable) /\ <<>> \in Seq(Readable)
  BY SaidIsReadable
<1>3. CASE missing = 0
  <2>1. text = <<>> \o all
    BY <1>1, <1>3, WithNothing, Zenon
  <2> QED  BY <1>2, <2>1, StatusAtEnd
<1>4. CASE missing # 0
  <2>1. PICK pre \in Seq(Readable) : text = pre \o last
    BY <1>1, <1>4
  <2>2. PICK mid \in Seq(SaidLines) :
          /\ all = (first \o mid) \o last /\ missing = Len(mid)
          /\ missing > 0 => Len(last) = TailCap
    BY DEF Split
  <2>3. PICK b \in Seq(SaidLines) : b = first \o mid
    BY Joined, Zenon
  <2>4. /\ Len(all) = Len(b) + Len(last) /\ Len(b) \in Nat /\ Len(last) \in Nat /\ Len(mid) \in Nat
        /\ \A i \in 1 .. Len(b) + Len(last) : all[i] = IF i <= Len(b) THEN b[i] ELSE last[i - Len(b)]
    <3>1. all = b \o last
      BY <2>2, <2>3
    <3> QED  BY <3>1, ConcatProperties
  <2>5. /\ Len(last) = TailCap /\ Len(all) = Len(b) + Len(last)
        /\ Len(b) \in Nat /\ Len(last) \in Nat /\ Len(mid) \in Nat
    <3>1. Len(mid) \in Nat
      OBVIOUS
    <3> QED  BY ONLY <1>4, <2>2, <2>4, <3>1
  <2> HIDE DEF all, last
  <2>6. PICK k \in 1 .. Len(last) : k = n - Len(b) /\ n \in 1 .. Len(b) + Len(last) /\ ~(n <= Len(b))
    <3>1. n \in 1 .. Len(all) /\ Len(all) - n < TailCap
      BY DEF all
    <3>2. n - Len(b) \in 1 .. Len(last) /\ n \in 1 .. Len(b) + Len(last) /\ ~(n <= Len(b))
      BY ONLY <2>5, <3>1, Caps
    <3> QED  BY <3>2
  <2>7. last[k] = StatusLine
    <3>1. all[n] = StatusLine
      BY DEF all
    <3> QED  BY <2>4, <2>6, <3>1
  <2>8. ASSUME NEW m \in k + 1 .. Len(last) PROVE last[m].what # "status"
    <3>1. PICK j \in n + 1 .. Len(all) : j = m + Len(b) /\ j \in 1 .. Len(b) + Len(last)
                                         /\ ~(j <= Len(b)) /\ j - Len(b) = m
      <4>1. /\ m + Len(b) \in n + 1 .. Len(all) /\ m + Len(b) \in 1 .. Len(b) + Len(last)
            /\ ~(m + Len(b) <= Len(b)) /\ m + Len(b) - Len(b) = m
        BY ONLY <2>5, <2>6, n \in Nat, m \in k + 1 .. Len(last)
      <4> QED  BY <4>1
    <3>2. all[j] = last[m]
      BY <2>4, <3>1
    <3>3. all[j].what # "status"
      BY <3>1 DEF all
    <3> QED  BY <3>2, <3>3
  <2> QED  BY <1>2, <2>1, <2>6, <2>7, <2>8, StatusAtEnd
<1> QED  BY <1>3, <1>4

(* Which tests a text says have failed depends on its lines alone.         *)
LEMMA FailedByLine ==
  ASSUME NEW text, NEW format
  PROVE  FailedIn(format, text) =
           {line.test : line \in {x \in LinesIn(text) : x.format = format /\ x.what = "failed"}}
BY DEF FailedIn, FailedAt, LinesIn

(* What is listed in a part of a text is listed in the whole: pytest's     *)
(* header comes before it there too.                                       *)
Marks(format, text, i) ==
  /\ i \in 1 .. Len(text) /\ text[i].format = format /\ text[i].what = "failed"
  /\ format = "pytest" => \E h \in 1 .. Len(text) : h < i /\ text[h].what = "header"

LEMMA ListedIs ==
  ASSUME NEW text, Len(text) \in Nat, NEW format, NEW i
  PROVE  i \in ListedAt(format, text) <=> Marks(format, text, i)
<1>1. i \in FailedAt(format, text) <=> i \in 1 .. Len(text) /\ text[i].format = format /\ text[i].what = "failed"
  BY DEF FailedAt
<1>2. CASE format # "pytest"
  <2>1. SummaryAt(format, text) = 0
    BY <1>2 DEF SummaryAt
  <2>2. i \in 1 .. Len(text) => i > 0
    OBVIOUS
  <2> QED  BY <1>1, <1>2, <2>1, <2>2 DEF ListedAt, Marks
<1>3. CASE format = "pytest"
  <2>. DEFINE H == {h \in 1 .. Len(text) : text[h].what = "header"}
              T == {Len(text)} \cup H
  <2>1. T \in SUBSET Nat /\ T # {} /\ SummaryAt(format, text) = Min(T) /\ H \subseteq 1 .. Len(text)
    BY <1>3 DEF SummaryAt
  <2>2. Min(T) \in T /\ \A m \in T : Min(T) <= m
    <3> HIDE DEF T
    <3> QED  BY <2>1, MinIsLeast
  <2>3. ASSUME i \in 1 .. Len(text)
        PROVE  i > Min(T) <=> \E h \in 1 .. Len(text) : h < i /\ text[h].what = "header"
    <3>1. ASSUME i > Min(T) PROVE \E h \in H : h < i
      <4>1. Min(T) # Len(text)
        BY <2>1, <2>2, <2>3, <3>1
      <4>2. Min(T) \in H /\ Min(T) < i
        <5>1. Min(T) \in H
          BY <2>2, <4>1
        <5> HIDE DEF T, H
        <5> QED  BY <2>1, <2>2, <2>3, <3>1, <5>1
      <4> QED  BY <4>2
    <3>2. ASSUME NEW h \in H, h < i PROVE i > Min(T)
      <4>1. Min(T) <= h /\ h \in Nat /\ Min(T) \in Nat
        <5>1. h \in T /\ h \in 1 .. Len(text)
          BY <2>1
        <5> HIDE DEF T, H
        <5> QED  BY <2>1, <2>2, <5>1
      <4>2. i \in Nat
        BY <2>3
      <4> QED  BY ONLY <3>2, <4>1, <4>2
    <3> QED  BY <3>1, <3>2
  <2> QED  BY <1>1, <1>3, <2>1, <2>3 DEF ListedAt, Marks
<1> QED  BY <1>2, <1>3

LEMMA ListedByMarks ==
  ASSUME NEW text, Len(text) \in Nat, NEW format
  PROVE  \A x : x \in ListedIn(format, text) <=> \E i \in 1 .. Len(text) : Marks(format, text, i) /\ x = text[i].test
<1>1. \A i : i \in ListedAt(format, text) <=> Marks(format, text, i)
  BY ListedIs
<1> QED  BY <1>1 DEF ListedIn, Marks

LEMMA ListedInFirst ==
  ASSUME NEW S, NEW u \in Seq(S), NEW v \in Seq(S), NEW format
  PROVE  ListedIn(format, u) \subseteq ListedIn(format, u \o v)
<1>1. PICK w : w = u \o v
  OBVIOUS
<1>2. /\ w \in Seq(S) /\ Len(w) = Len(u) + Len(v) /\ Len(u) \in Nat /\ Len(v) \in Nat /\ Len(w) \in Nat
      /\ \A i \in 1 .. Len(u) + Len(v) : w[i] = IF i <= Len(u) THEN u[i] ELSE v[i - Len(u)]
  BY <1>1, ConcatProperties
<1>3. ASSUME NEW i \in 1 .. Len(u) PROVE i \in 1 .. Len(w) /\ w[i] = u[i]
  <2>1. i \in 1 .. Len(w) /\ i \in 1 .. Len(u) + Len(v) /\ i <= Len(u)
    BY ONLY <1>2, i \in 1 .. Len(u)
  <2> QED  BY <1>2, <2>1
<1>4. ASSUME NEW i \in 1 .. Len(u), Marks(format, u, i) PROVE Marks(format, w, i)
  BY <1>3, <1>4 DEF Marks
<1>5. ASSUME NEW x \in ListedIn(format, u) PROVE x \in ListedIn(format, w)
  <2>1. PICK i \in 1 .. Len(u) : Marks(format, u, i) /\ x = u[i].test
    BY <1>2, ListedByMarks
  <2>2. PICK j \in 1 .. Len(w) : Marks(format, w, j) /\ x = w[j].test
    BY <1>3, <1>4, <2>1
  <2> QED  BY <1>2, <2>2, ListedByMarks
<1> QED  BY <1>1, <1>5

LEMMA ListedInLast ==
  ASSUME NEW S, NEW u \in Seq(S), NEW v \in Seq(S), NEW format
  PROVE  ListedIn(format, v) \subseteq ListedIn(format, u \o v)
<1>1. PICK w : w = u \o v
  OBVIOUS
<1>2. /\ w \in Seq(S) /\ Len(w) = Len(u) + Len(v) /\ Len(u) \in Nat /\ Len(v) \in Nat /\ Len(w) \in Nat
      /\ \A i \in 1 .. Len(u) + Len(v) : w[i] = IF i <= Len(u) THEN u[i] ELSE v[i - Len(u)]
  BY <1>1, ConcatProperties
<1>3. ASSUME NEW i \in 1 .. Len(v) PROVE Len(u) + i \in 1 .. Len(w) /\ w[Len(u) + i] = v[i]
  <2>1. PICK m \in Nat, n \in Nat, j \in Nat : m = Len(u) /\ n = Len(v) /\ j = Len(u) + i
    BY <1>2
  <2>2. i \in 1 .. n /\ j = m + i
    BY <2>1
  <2>3. j \in 1 .. m + n /\ ~(j <= m) /\ j - m = i
    BY <2>1, <2>2
  <2> QED  BY <1>2, <2>1, <2>3
<1>4. ASSUME NEW i \in 1 .. Len(v), Marks(format, v, i) PROVE Marks(format, w, Len(u) + i)
  <2>1. Len(u) + i \in 1 .. Len(w) /\ w[Len(u) + i] = v[i]
    BY <1>3
  <2>2. ASSUME NEW h \in 1 .. Len(v), h < i, v[h].what = "header"
        PROVE  \E g \in 1 .. Len(w) : g < Len(u) + i /\ w[g].what = "header"
    <3>1. Len(u) + h \in 1 .. Len(w) /\ w[Len(u) + h] = v[h] /\ Len(u) + h < Len(u) + i
      BY <1>2, <1>3, <2>2
    <3> QED  BY <2>2, <3>1
  <2> QED  BY <1>4, <2>1, <2>2 DEF Marks
<1>5. ASSUME NEW x \in ListedIn(format, v) PROVE x \in ListedIn(format, w)
  <2>1. PICK i \in 1 .. Len(v) : Marks(format, v, i) /\ x = v[i].test
    BY <1>2, ListedByMarks
  <2>2. PICK j \in 1 .. Len(w) : Marks(format, w, j) /\ x = w[j].test
    BY <1>3, <1>4, <2>1
  <2> QED  BY <1>2, <2>2, ListedByMarks
<1> QED  BY <1>1, <1>5

LEMMA ListedWithout ==
  ASSUME NEW S, NEW text \in Seq(S), NEW at, at = StatusAt(text), NEW format
  PROVE  ListedIn(format, text) \subseteq ListedIn(format, Without(text, at))
<1>1. /\ at \in 0 .. Len(text) /\ Len(text) \in Nat
      /\ at # 0 => text[at].what = "status"
  BY StatusIs
<1>2. CASE at = 0
  BY <1>2 DEF Without
<1>3. CASE at # 0
  <2>1. PICK w \in Seq(S) : w = Without(text, at)
    BY WithoutIs
  <2>2. Len(w) = Len(text) - 1 /\ \A i \in 1 .. Len(w) : w[i] = text[IF i < at THEN i ELSE i + 1]
    <3>1. 1 <= at /\ at <= Len(text)
      BY ONLY <1>1, <1>3
    <3>2. PICK a \in Seq(S) : a = SubSeq(text, 1, at - 1) /\ Len(a) = at - 1 /\ \A i \in 1 .. at - 1 : a[i] = text[i]
      <4>1. at - 1 \in 0 .. Len(text) /\ Len(text) \in Nat
        BY ONLY <1>1, <3>1
      <4>2. /\ SubSeq(text, 1, at - 1) \in Seq(S) /\ Len(SubSeq(text, 1, at - 1)) = at - 1
        BY <4>1, CutInTwo
      <4>3. \A i \in 1 .. at - 1 : SubSeq(text, 1, at - 1)[i] = text[i]
        <5>1. at - 1 \in Int /\ \A i \in 1 .. at - 1 : text[i] \in S
          BY ONLY <1>1, <3>1, text \in Seq(S), ElementOfSeq
        <5>2. \A i \in 1 .. at - 1 - 1 + 1 : SubSeq(text, 1, at - 1)[i] = text[1 + i - 1]
          BY <5>1, SubSeqProperties
        <5> QED  BY ONLY <5>1, <5>2
      <4> QED  BY <4>2, <4>3
    <3>3. PICK b \in Seq(S) : b = SubSeq(text, at + 1, Len(text)) /\ Len(b) = Len(text) - at
                              /\ \A i \in 1 .. Len(text) - at : b[i] = text[at + i]
      <4>1. at + 1 \in Int /\ Len(text) \in Int /\ \A i \in at + 1 .. Len(text) : text[i] \in S
        BY ONLY <1>1, <3>1, text \in Seq(S), ElementOfSeq
      <4>2. /\ SubSeq(text, at + 1, Len(text)) \in Seq(S)
            /\ Len(SubSeq(text, at + 1, Len(text))) = IF at + 1 <= Len(text) THEN Len(text) - (at + 1) + 1 ELSE 0
            /\ \A i \in 1 .. Len(text) - (at + 1) + 1 : SubSeq(text, at + 1, Len(text))[i] = text[at + 1 + i - 1]
        BY <4>1, SubSeqProperties
      <4>3. Len(SubSeq(text, at + 1, Len(text))) = Len(text) - at
        BY ONLY <1>1, <3>1, <4>2
      <4>4. ASSUME NEW i \in 1 .. Len(text) - at PROVE SubSeq(text, at + 1, Len(text))[i] = text[at + i]
        <5>1. i \in 1 .. Len(text) - (at + 1) + 1 /\ at + 1 + i - 1 = at + i
          BY ONLY <1>1, i \in 1 .. Len(text) - at
        <5> QED  BY <4>2, <5>1
      <4> QED  BY <4>2, <4>3, <4>4
    <3>4. w = a \o b
      BY <1>3, <2>1, <3>2, <3>3 DEF Without, RemoveAt
    <3>5. /\ Len(w) = Len(a) + Len(b)
          /\ \A i \in 1 .. Len(a) + Len(b) : w[i] = IF i <= Len(a) THEN a[i] ELSE b[i - Len(a)]
      BY <3>4, ConcatProperties
    <3>6. Len(w) = Len(text) - 1
      BY ONLY <1>1, <3>2, <3>3, <3>5
    <3>7. ASSUME NEW i \in 1 .. Len(w) PROVE w[i] = text[IF i < at THEN i ELSE i + 1]
      <4>1. w[i] = IF i <= Len(a) THEN a[i] ELSE b[i - Len(a)]
        BY <3>5
      <4>2. CASE i < at
        <5>1. i <= Len(a) /\ i \in 1 .. at - 1
          BY ONLY <1>1, <3>2, <4>2, <3>6, i \in 1 .. Len(w)
        <5> QED  BY <3>2, <4>1, <4>2, <5>1
      <4>3. CASE ~(i < at)
        <5>1. PICK k \in 1 .. Len(text) - at : k = i - Len(a) /\ at + k = i + 1 /\ ~(i <= Len(a))
          BY ONLY <1>1, <3>2, <4>3, <3>6, i \in 1 .. Len(w)
        <5>2. b[k] = text[at + k]
          BY <3>3
        <5> QED  BY ONLY <4>1, <4>3, <5>1, <5>2
      <4> QED  BY <4>2, <4>3
    <3> QED  BY <3>6, <3>7
  <2>. DEFINE to(i) == IF i < at THEN i ELSE i - 1
  <2>3. ASSUME NEW i \in 1 .. Len(text), i # at PROVE to(i) \in 1 .. Len(w) /\ w[to(i)] = text[i]
    <3>1. to(i) \in 1 .. Len(w) /\ (IF to(i) < at THEN to(i) ELSE to(i) + 1) = i
      BY ONLY <1>1, <1>3, <2>2, <2>3, i \in 1 .. Len(text)
    <3> HIDE DEF to
    <3> QED  BY <2>2, <3>1
  <2>4. ASSUME NEW i \in 1 .. Len(text), NEW j \in 1 .. Len(text), i < j, i # at, j # at PROVE to(i) < to(j)
    BY ONLY <1>1, <2>4, i \in 1 .. Len(text), j \in 1 .. Len(text)
  <2> HIDE DEF to
  <2>5. ASSUME NEW i \in 1 .. Len(text), Marks(format, text, i)
        PROVE  i # at /\ Marks(format, w, to(i))
    <3>1. i # at /\ text[i].format = format /\ text[i].what = "failed"
      BY <1>1, <1>3, <2>5 DEF Marks
    <3>2. to(i) \in 1 .. Len(w) /\ w[to(i)] = text[i]
      BY <2>3, <3>1
    <3>3. ASSUME NEW h \in 1 .. Len(text), h < i, text[h].what = "header"
          PROVE  \E g \in 1 .. Len(w) : g < to(i) /\ w[g].what = "header"
      <4>1. h # at
        BY <1>1, <1>3, <3>3
      <4>2. to(h) \in 1 .. Len(w) /\ w[to(h)] = text[h] /\ to(h) < to(i)
        BY <2>3, <2>4, <3>1, <3>3, <4>1
      <4> QED  BY <3>3, <4>2
    <3> QED  BY <2>5, <3>1, <3>2, <3>3 DEF Marks
  <2>6. Len(w) \in Nat
    BY <1>1, <1>3, <2>2
  <2>7. ASSUME NEW x \in ListedIn(format, text) PROVE x \in ListedIn(format, w)
    <3>1. PICK i \in 1 .. Len(text) : Marks(format, text, i) /\ x = text[i].test
      BY <1>1, ListedByMarks
    <3>2. to(i) \in 1 .. Len(w) /\ Marks(format, w, to(i)) /\ x = w[to(i)].test
      BY <2>3, <2>5, <3>1
    <3> QED  BY <2>6, <3>2, ListedByMarks
  <2> QED  BY <2>1, <2>7
<1> QED  BY <1>2, <1>3

-----------------------------------------------------------------------------
StreamsInv ==
  /\ head \in [Streams -> Seq(SaidLines)] /\ tail \in [Streams -> Seq(SaidLines)]
  /\ said \in [Streams -> Seq(SaidLines)]
  /\ \A s \in Streams : Split(said[s], head[s], tail[s], lost[s])
  /\ lost \in [Streams -> Nat]

LEMMA FeedKeepsInv ==
  ASSUME StreamsInv, NEW s \in Streams, NEW chunk \in Seq(SaidLines), Feed(s, chunk)
  PROVE  StreamsInv'
<1>. DEFINE now == NowOf(head[s], chunk)
            rest == RestOf(head[s], chunk)
            kept == TailOf(tail[s], rest)
            more == Over(tail[s], rest)
<1>1. /\ head' = [head EXCEPT ![s] = @ \o now]
      /\ tail' = [tail EXCEPT ![s] = kept]
      /\ lost' = [lost EXCEPT ![s] = @ + more]
      /\ said' = [said EXCEPT ![s] = @ \o chunk]
  BY DEF Feed, NowOf, RestOf, TailOf, Over, Room
<1>2. /\ head[s] \in Seq(SaidLines) /\ tail[s] \in Seq(SaidLines) /\ said[s] \in Seq(SaidLines) /\ lost[s] \in Nat
      /\ Split(said[s], head[s], tail[s], lost[s])
  BY DEF StreamsInv
<1>3. Len(head[s]) <= HeadCap /\ Len(tail[s]) <= TailCap
  BY <1>2 DEF Split
<1>4. HeadSplits(head[s], chunk, now, rest)
  BY ONLY <1>2, <1>3, chunk \in Seq(SaidLines), ChunkInTwo, Zenon
<1>5. now \in Seq(SaidLines) /\ rest \in Seq(SaidLines)
  BY <1>4 DEF HeadSplits
<1> HIDE DEF now, rest
<1>6. TailSplits(tail[s], rest, kept, more)
  BY ONLY <1>2, <1>3, <1>5, TailInTwo, Zenon
<1>7. kept \in Seq(SaidLines) /\ more \in Nat
  BY <1>6 DEF TailSplits
<1> HIDE DEF kept, more
<1>8. Split(said[s] \o chunk, head[s] \o now, kept, lost[s] + more)
  BY <1>2, <1>4, <1>6, FeedSplits
<1>9. /\ head[s] \o now \in Seq(SaidLines) /\ said[s] \o chunk \in Seq(SaidLines) /\ lost[s] + more \in Nat
  BY <1>2, <1>5, <1>7, Joined
<1>10. /\ head' \in [Streams -> Seq(SaidLines)] /\ tail' \in [Streams -> Seq(SaidLines)]
       /\ said' \in [Streams -> Seq(SaidLines)] /\ lost' \in [Streams -> Nat]
  BY <1>1, <1>7, <1>9 DEF StreamsInv
<1>11. /\ head'[s] = head[s] \o now /\ tail'[s] = kept /\ lost'[s] = lost[s] + more /\ said'[s] = said[s] \o chunk
       /\ \A t \in Streams \ {s} : head'[t] = head[t] /\ tail'[t] = tail[t] /\ lost'[t] = lost[t] /\ said'[t] = said[t]
  BY <1>1 DEF StreamsInv
<1>12. ASSUME NEW t \in Streams PROVE Split(said'[t], head'[t], tail'[t], lost'[t])
  <2>1. CASE t = s
    BY ONLY <1>7, <1>8, <1>11, <2>1, Zenon
  <2>2. CASE t # s
    <3>1. Split(said[t], head[t], tail[t], lost[t])
      BY DEF StreamsInv
    <3>2. t \in Streams \ {s}
      BY <2>2
    <3> QED  BY ONLY <1>11, <3>1, <3>2, Zenon
  <2> QED  BY <2>1, <2>2
<1>13. \A t \in Streams : Split(said[t], head[t], tail[t], lost[t])'
  BY <1>12 DEF Split
<1> QED  BY <1>10, <1>13 DEF StreamsInv

(* What is read of what the two streams keep: nothing but what was said or *)
(* is left of a line that is lost, and all that is listed in a stream that *)
(* lost nothing.                                                           *)
LEMMA ReadingIs ==
  ASSUME StreamsInv,
         NEW out \in TextsOf("stdout"), NEW error \in TextsOf("stderr"),
         NEW at, at = StatusAt(error),
         NEW text, text = out \o Without(error, at)
  PROVE  /\ text \in Seq(Readable)
         /\ \A f : f # "wrapper" => FailedIn(f, text) \subseteq Said(f) \cup Misheard(f)
         /\ \A f : Heard(f) \subseteq ListedIn(f, text)
<1>1. /\ "stdout" \in Streams /\ "stderr" \in Streams
      /\ \A s \in Streams : /\ said[s] \in Seq(SaidLines) /\ head[s] \in Seq(SaidLines) /\ tail[s] \in Seq(SaidLines)
                            /\ Split(said[s], head[s], tail[s], lost[s])
  BY DEF StreamsInv, Streams
<1>2. /\ out \in Seq(Readable) /\ LinesIn(out) \subseteq LinesIn(said["stdout"]) \cup {Gap} \cup LeftAt("stdout")
      /\ lost["stdout"] = 0 => out = said["stdout"]
  BY <1>1, TextIs
<1>3. /\ error \in Seq(Readable) /\ LinesIn(error) \subseteq LinesIn(said["stderr"]) \cup {Gap} \cup LeftAt("stderr")
      /\ lost["stderr"] = 0 => error = said["stderr"]
  BY <1>1, TextIs
<1>4. PICK w : w = Without(error, at)
  OBVIOUS
<1>5. /\ w \in Seq(Readable) /\ LinesIn(w) \subseteq LinesIn(error)
      /\ \A f : ListedIn(f, error) \subseteq ListedIn(f, w)
  BY <1>3, <1>4, WithoutIs, ListedWithout
<1>6. /\ text = out \o w /\ text \in Seq(Readable)
      /\ LinesIn(text) = LinesIn(out) \cup LinesIn(w)
  BY <1>2, <1>4, <1>5, Longer
<1>7. ASSUME NEW f, f # "wrapper", NEW x \in FailedIn(f, text) PROVE x \in Said(f) \cup Misheard(f)
  <2>1. PICK line \in LinesIn(text) : line.format = f /\ line.what = "failed" /\ x = line.test
    BY <1>7, FailedByLine
  <2>2. line # Gap
    BY <1>7, <2>1 DEF Gap
  <2>3. PICK s \in Streams : line \in LinesIn(said[s]) \/ line \in LeftAt(s)
    BY ONLY <1>1, <1>2, <1>3, <1>5, <1>6, <2>2, line \in LinesIn(text), Zenon
  <2>4. CASE line \in LinesIn(said[s])
    <3>1. x \in FailedIn(f, said[s])
      BY <2>1, <2>4, FailedByLine
    <3> QED  BY <3>1 DEF Said, Streams
  <2>5. CASE line \in LeftAt(s)
    <3>1. lost[s] # 0 /\ line \in Pieces[FirstLost(s)] \cup Pieces[LastLost(s)]
      BY <2>5 DEF LeftAt
    <3>2. lost[s] > 0
      <4>1. lost[s] \in Nat
        BY DEF StreamsInv
      <4> QED  BY <3>1, <4>1
    <3> QED  BY <2>1, <3>1, <3>2 DEF Misheard
  <2> QED  BY <2>3, <2>4, <2>5
<1>8. ASSUME NEW f, NEW x \in Heard(f) PROVE x \in ListedIn(f, text)
  <2>1. PICK s \in Streams : lost[s] = 0 /\ x \in ListedIn(f, said[s])
    BY DEF Heard
  <2>2. CASE s = "stdout"
    <3>1. x \in ListedIn(f, out)
      BY <1>2, <2>1, <2>2
    <3> QED  BY <1>2, <1>5, <1>6, <3>1, ListedInFirst
  <2>3. CASE s = "stderr"
    <3>1. x \in ListedIn(f, w)
      BY <1>3, <1>5, <2>1, <2>3
    <3> QED  BY <1>2, <1>5, <1>6, <3>1, ListedInLast
  <2> QED  BY <2>2, <2>3 DEF Streams
<1> QED  BY <1>6, <1>7, <1>8

-----------------------------------------------------------------------------
FetchInv ==
  /\ framework \in {"pytest", "jest", "unknown"}
  /\ fetching \subseteq Requirements /\ droppedOnes \in Seq(Requirements)
  /\ Len(droppedOnes) <= MAX_DROPPED_REQUIREMENTS
  /\ framework = "pytest" => /\ Len(droppedOnes) = Cardinality(Requirements \ fetching)
                             /\ Requirements \ fetching \subseteq noWheel
  /\ framework # "pytest" => fetching = {}

EvidenceInv ==
  /\ FetchInv /\ StreamsInv
  /\ outputAt \in {"fetch", "install_failed", "running", "reported", "ended", "read"}
  /\ outputAt \in {"fetch", "install_failed"} => said = [s \in Streams |-> <<>>]
  /\ outputAt \in {"running", "reported", "ended", "read"} => noWheel \cap (fetching \cup {"transitive"}) = {}
  /\ evidence.parser \in {"unread", "none", "pytest", "jest"}
  /\ outputAt = "read" => StatusIsTrue /\ FailuresAreTrue

LEMMA EvidenceInvInit == ASSUME OutputInit PROVE EvidenceInv
<1>1. FetchInv
  <2>1. Requirements \ Requirements = {} /\ Cardinality({}) = 0
    BY FS_EmptySet
  <2>2. <<>> \in Seq(Requirements) /\ Len(<<>>) = 0 /\ MAX_DROPPED_REQUIREMENTS \in Nat
    BY EmptySeq, OutputAssumption
  <2>3. /\ framework \in {"pytest", "jest", "unknown"} /\ droppedOnes = <<>>
        /\ framework = "pytest" => fetching = Requirements
        /\ framework # "pytest" => fetching = {}
    BY DEF OutputInit
  <2>4. Len(droppedOnes) = 0 /\ droppedOnes \in Seq(Requirements) /\ 0 <= MAX_DROPPED_REQUIREMENTS
    BY <2>2, <2>3
  <2>5. CASE framework = "pytest"
    BY ONLY <2>1, <2>3, <2>4, <2>5 DEF FetchInv
  <2>6. CASE framework # "pytest"
    BY ONLY <2>3, <2>4, <2>6 DEF FetchInv
  <2> QED  BY <2>5, <2>6
<1>2. StreamsInv
  <2>1. /\ head = [s \in Streams |-> <<>>] /\ tail = [s \in Streams |-> <<>>]
        /\ said = [s \in Streams |-> <<>>] /\ lost = [s \in Streams |-> 0]
    BY DEF OutputInit
  <2>2. <<>> \in Seq(SaidLines) /\ Len(<<>>) = 0 /\ LinesIn(<<>>) = {}
    BY EmptySeq DEF LinesIn
  <2>3. (<<>> \o <<>>) \o <<>> = <<>>
    BY <2>2, WithNothing, Zenon
  <2>4. Split(<<>>, <<>>, <<>>, 0)
    <3>1. 0 <= HeadCap /\ 0 <= TailCap /\ ~(0 > 0)
      BY Caps
    <3> QED  BY ONLY <2>2, <2>3, <3>1, Zenon DEF Split
  <2>5. "stdout" \in Streams
    BY DEF Streams
  <2> QED  BY <2>1, <2>2, <2>4, <2>5 DEF StreamsInv
<1> QED  BY <1>1, <1>2 DEF OutputInit, EvidenceInv, NoEvidence

LEMMA StreamsStay == ASSUME StreamsInv, UNCHANGED captureVars PROVE StreamsInv'
BY DEF StreamsInv, captureVars, Split

LEMMA FetchStays == ASSUME FetchInv, UNCHANGED <<fetchVars, framework>> PROVE FetchInv'
BY DEF FetchInv, fetchVars

LEMMA FetchKeepsInv == ASSUME EvidenceInv, Fetch PROVE EvidenceInv'
<1>. DEFINE missing == noWheel \cap (fetching \cup {"transitive"})
<1>1. /\ outputAt = "fetch"
      /\ \/ missing = {} /\ FetchEnds("running")
         \/ FetchEnds("install_failed")
         \/ \E culprit \in missing \cap fetching :
              Len(droppedOnes) < MAX_DROPPED_REQUIREMENTS /\ Drop(culprit)
  BY DEF Fetch
<1>2. UNCHANGED captureVars /\ UNCHANGED evidence
  BY <1>1 DEF FetchEnds, Drop
<1>3. StreamsInv' /\ said' = said
  BY <1>2, StreamsStay DEF EvidenceInv, captureVars
<1>4. CASE \E next \in {"running", "install_failed"} : FetchEnds(next) /\ (next = "running" => missing = {})
  <2>1. PICK next \in {"running", "install_failed"} : FetchEnds(next) /\ (next = "running" => missing = {})
    BY <1>4
  <2>2. FetchInv' /\ outputAt' = next /\ UNCHANGED fetchVars
    BY <2>1, FetchStays DEF EvidenceInv, FetchEnds
  <2> QED  BY <1>1, <1>2, <1>3, <2>1, <2>2 DEF EvidenceInv, fetchVars
<1>5. CASE \E culprit \in missing \cap fetching :
             Len(droppedOnes) < MAX_DROPPED_REQUIREMENTS /\ Drop(culprit)
  <2>1. PICK culprit \in missing \cap fetching :
          Len(droppedOnes) < MAX_DROPPED_REQUIREMENTS /\ Drop(culprit)
    BY <1>5
  <2>2. /\ droppedOnes' = Append(droppedOnes, culprit) /\ fetching' = fetching \ {culprit}
        /\ outputAt' = outputAt /\ noWheel' = noWheel /\ framework' = framework
    BY <2>1 DEF Drop
  <2>3. culprit \in fetching /\ culprit \in Requirements /\ culprit \in noWheel /\ framework = "pytest"
    BY <2>1 DEF EvidenceInv, FetchInv
  <2>4. /\ droppedOnes' \in Seq(Requirements) /\ Len(droppedOnes') = Len(droppedOnes) + 1
        /\ Len(droppedOnes) \in Nat
    BY <2>2, <2>3, AppendProperties DEF EvidenceInv, FetchInv
  <2>5. Cardinality(Requirements \ fetching') = Cardinality(Requirements \ fetching) + 1
    <3>1. Requirements \ fetching' = (Requirements \ fetching) \cup {culprit} /\ culprit \notin Requirements \ fetching
      BY <2>2, <2>3
    <3>2. IsFiniteSet(Requirements \ fetching)
      BY OutputAssumption, FS_Subset
    <3> QED  BY <3>1, <3>2, FS_AddElement
  <2>6. Len(droppedOnes) + 1 <= MAX_DROPPED_REQUIREMENTS
    BY <2>1, <2>4, OutputAssumption
  <2>7. FetchInv'
    <3>1. /\ Len(droppedOnes') = Cardinality(Requirements \ fetching')
          /\ Requirements \ fetching' \subseteq noWheel'
      BY <2>2, <2>3, <2>4, <2>5 DEF EvidenceInv, FetchInv
    <3> QED  BY <2>2, <2>3, <2>4, <2>6, <3>1 DEF EvidenceInv, FetchInv
  <2> QED  BY <1>1, <1>2, <1>3, <2>2, <2>7 DEF EvidenceInv
<1> QED  BY <1>1, <1>4, <1>5

LEMMA PrintsKeepInv ==
  ASSUME EvidenceInv, NEW s \in Streams, NEW chunk \in Seq(SaidLines), SuitePrints(s, chunk)
  PROVE  EvidenceInv'
<1>1. /\ outputAt \in {"running", "reported"} /\ Feed(s, chunk)
      /\ UNCHANGED <<outputAt, fetchVars, framework, status, evidence>>
  BY DEF SuitePrints
<1>2. StreamsInv' /\ FetchInv'
  BY <1>1, FeedKeepsInv, FetchStays DEF EvidenceInv
<1> QED  BY <1>1, <1>2 DEF EvidenceInv, fetchVars

LEMMA ReportKeepsInv == ASSUME EvidenceInv, WrapperReports PROVE EvidenceInv'
<1>1. /\ outputAt = "running" /\ outputAt' = "reported" /\ Feed("stderr", <<StatusLine>>)
      /\ UNCHANGED <<fetchVars, framework, status, evidence>>
  BY DEF WrapperReports
<1>2. "stderr" \in Streams /\ <<StatusLine>> \in Seq(SaidLines)
  BY DEF Streams, SaidLines
<1>3. StreamsInv' /\ FetchInv'
  BY <1>1, <1>2, FeedKeepsInv, FetchStays DEF EvidenceInv
<1> QED  BY <1>1, <1>3 DEF EvidenceInv, fetchVars

LEMMA OverKeepsInv == ASSUME EvidenceInv, SuiteOver PROVE EvidenceInv'
<1>1. /\ outputAt \in {"running", "reported"} /\ outputAt' = "ended"
      /\ UNCHANGED <<fetchVars, framework, captureVars, status, evidence>>
  BY DEF SuiteOver
<1>2. StreamsInv' /\ FetchInv'
  BY <1>1, StreamsStay, FetchStays DEF EvidenceInv
<1> QED  BY <1>1, <1>2 DEF EvidenceInv, fetchVars

LEMMA FailuresRead ==
  ASSUME NEW e, NEW text, Parsed(e, text), e = evidence',
         \A f : f # "wrapper" => FailedIn(f, text) \subseteq Said(f) \cup Misheard(f),
         \A f : Heard(f) \subseteq ListedIn(f, text),
         UNCHANGED captureVars
  PROVE  FailuresAreTrue'
<1>1. \A f : (Said(f))' = Said(f) /\ (Misheard(f))' = Misheard(f) /\ (Heard(f))' = Heard(f)
  BY DEF Said, Misheard, Heard, FirstLost, LastLost, captureVars
<1>2. e.parser # "wrapper"
  BY DEF Parsed
<1>3. \A i \in 1 .. Len(e.failures) : e.failures[i] \in Said(e.parser) \cup Misheard(e.parser)
  <2>1. FailedIn(e.parser, text) \subseteq Said(e.parser) \cup Misheard(e.parser)
    BY <1>2
  <2> QED  BY <2>1 DEF Parsed
<1>4. ASSUME NEW f \in {"pytest", "jest"}
      PROVE  /\ Heard(f) # {} => e.parser # "none"
             /\ e.parser = f => Len(e.failures) + e.omitted >= Cardinality(Heard(f))
  <2>1. ParsedOf(f, e, text) /\ Heard(f) \subseteq ListedIn(f, text)
    BY DEF Parsed
  <2>2. Heard(f) # {} => e.parser # "none"
    BY <2>1 DEF ParsedOf
  <2>3. ASSUME e.parser = f PROVE Len(e.failures) + e.omitted >= Cardinality(Heard(f))
    <3>1. /\ IsFiniteSet(ListedIn(f, text))
          /\ Len(e.failures) + e.omitted >= Cardinality(ListedIn(f, text))
      BY <2>1, <2>3 DEF ParsedOf
    <3>2. /\ Cardinality(Heard(f)) \in Nat /\ Cardinality(ListedIn(f, text)) \in Nat
          /\ Cardinality(Heard(f)) <= Cardinality(ListedIn(f, text))
      BY <2>1, <3>1, FS_Subset, FS_CardinalityType
    <3>3. Len(e.failures) + e.omitted \in Int
      BY DEF Parsed
    <3> QED  BY ONLY <3>1, <3>2, <3>3
  <2> QED  BY <2>2, <2>3
<1>5. ToSet(Formats) = {"pytest", "jest"}
  BY DEF ToSet, Formats
<1>6. /\ Len(e.failures) <= MAX_FAILURES /\ (e.omitted > 0 => Len(e.failures) = MAX_FAILURES)
      /\ e.failures = <<>> /\ e.omitted = 0 /\ e.reported > 0 => e.excerpt
  BY DEF Parsed
<1> QED  BY ONLY <1>1, <1>3, <1>4, <1>5, <1>6, e = evidence', Zenon DEF FailuresAreTrue

LEMMA ReadKeepsInv == ASSUME EvidenceInv, ReadOutput PROVE EvidenceInv'
<1>1. /\ outputAt = "ended" /\ outputAt' = "read"
      /\ UNCHANGED <<fetchVars, framework, captureVars>>
  BY DEF ReadOutput
<1>2. PICK out \in TextsOf("stdout") : \E error \in TextsOf("stderr") :
        /\ status' = IF StatusAt(error) = 0 THEN "none" ELSE error[StatusAt(error)].test
        /\ evidence' = Parse(out \o Without(error, StatusAt(error)))
  BY DEF ReadOutput
<1>3. PICK error \in TextsOf("stderr") :
        /\ status' = IF StatusAt(error) = 0 THEN "none" ELSE error[StatusAt(error)].test
        /\ evidence' = Parse(out \o Without(error, StatusAt(error)))
  BY <1>2
<1>4. PICK text : text = out \o Without(error, StatusAt(error))
  OBVIOUS
<1>5. StreamsInv
  BY DEF EvidenceInv
<1>6. /\ text \in Seq(Readable)
      /\ \A f : f # "wrapper" => FailedIn(f, text) \subseteq Said(f) \cup Misheard(f)
      /\ \A f : Heard(f) \subseteq ListedIn(f, text)
  BY <1>4, <1>5, ReadingIs
<1>7. StatusIsTrue'
  <2>1. /\ said["stderr"] \in Seq(SaidLines) /\ head["stderr"] \in Seq(SaidLines) /\ tail["stderr"] \in Seq(SaidLines)
        /\ Split(said["stderr"], head["stderr"], tail["stderr"], lost["stderr"])
    BY <1>5 DEF StreamsInv, Streams
  <2>2. ASSUME NEW n \in 1 .. Len(said["stderr"]),
               said["stderr"][n] = StatusLine, Len(said["stderr"]) - n < TailCap,
               \A m \in n + 1 .. Len(said["stderr"]) : said["stderr"][m].what # "status"
        PROVE  status' = "real"
    <3>1. StatusAt(error) # 0 /\ error[StatusAt(error)].test = "real"
      BY <2>1, <2>2, LastIsRead
    <3> QED  BY <1>3, <3>1
  <2>3. said' = said
    BY <1>1 DEF captureVars
  <2> QED  BY ONLY <2>2, <2>3 DEF StatusIsTrue
<1>8. Parsed(Parse(text), text) /\ evidence' = Parse(text)
  BY <1>3, <1>4, <1>6, ParseIs
<1>9. FailuresAreTrue'
  <2>1. UNCHANGED captureVars
    BY <1>1
  <2> QED  BY <1>6, <1>8, <2>1, FailuresRead
<1>10. evidence'.parser \in {"none", "pytest", "jest"}
  BY <1>8 DEF Parsed
<1>11. StreamsInv' /\ FetchInv'
  BY <1>1, StreamsStay, FetchStays DEF EvidenceInv
<1> QED  BY <1>1, <1>7, <1>9, <1>10, <1>11 DEF EvidenceInv, fetchVars

LEMMA EvidenceStays == ASSUME EvidenceInv, UNCHANGED outputVars PROVE EvidenceInv'
<1>1. StreamsInv' /\ FetchInv'
  BY StreamsStay, FetchStays DEF EvidenceInv, outputVars
<1>2. StatusIsTrue' = StatusIsTrue
  BY DEF StatusIsTrue, outputVars, captureVars
<1>3. FailuresAreTrue' = FailuresAreTrue
  <2>1. \A f : (Said(f))' = Said(f) /\ (Misheard(f))' = Misheard(f) /\ (Heard(f))' = Heard(f)
    BY DEF Said, Misheard, Heard, FirstLost, LastLost, outputVars, captureVars
  <2>2. evidence' = evidence
    BY DEF outputVars
  <2> QED  BY ONLY <2>1, <2>2 DEF FailuresAreTrue
<1> QED  BY <1>1, <1>2, <1>3 DEF EvidenceInv, outputVars, fetchVars, captureVars

LEMMA EvidenceInvNext == ASSUME EvidenceInv, [OutputNext]_outputVars PROVE EvidenceInv'
<1>1. ASSUME NEW line \in OutLines, SuitePrints("stdout", <<line>>) PROVE EvidenceInv'
  <2>1. "stdout" \in Streams /\ <<line>> \in Seq(SaidLines)
    BY DEF Streams, SaidLines
  <2> QED  BY <1>1, <2>1, PrintsKeepInv
<1>2. ASSUME NEW line \in ErrLines, NEW next \in ErrLines,
             SuitePrints("stderr", <<line>>) \/ SuitePrints("stderr", <<line, next>>)
      PROVE  EvidenceInv'
  <2>1. "stderr" \in Streams /\ <<line>> \in Seq(SaidLines) /\ <<line, next>> \in Seq(SaidLines)
    BY DEF Streams, SaidLines
  <2> QED  BY <1>2, <2>1, PrintsKeepInv
<1> QED  BY <1>1, <1>2, FetchKeepsInv, ReportKeepsInv, OverKeepsInv, ReadKeepsInv, EvidenceStays
         DEF OutputNext

(* OutputSpec => []EvidenceInv, the inductive invariant of sandbox/         *)
(* evidence.py's input: what the streams keep, and what was fetched.       *)
THEOREM EvidenceInvariant == OutputSpec => []EvidenceInv
<1>1. OutputInit => EvidenceInv
  BY EvidenceInvInit
<1>2. EvidenceInv /\ [OutputNext]_outputVars => EvidenceInv'
  BY EvidenceInvNext
<1> QED  BY <1>1, <1>2, PTL DEF OutputSpec

(* The fetch, the capture and the parsers keep their types.                *)
THEOREM OutputTyped == OutputSpec => []OutputTypeOK
<1>1. EvidenceInv => OutputTypeOK
  BY DEF EvidenceInv, FetchInv, StreamsInv, OutputTypeOK, SaidLines
<1> QED  BY <1>1, EvidenceInvariant, PTL

(* The conjuncts of StreamsAreKept, of one stream.                         *)
Keeps(all, first, last, missing) ==
  /\ Len(first) + Len(last) + missing = Len(all)
  /\ Len(first) + Len(last) <= OUTPUT_CAP
  /\ IsPrefix(first, all) /\ IsSuffix(last, all)
  /\ missing > 0 => Len(first) + Len(last) = OUTPUT_CAP

LEMMA SplitKeeps ==
  ASSUME NEW all \in Seq(SaidLines), NEW first \in Seq(SaidLines), NEW last \in Seq(SaidLines), NEW missing,
         Split(all, first, last, missing)
  PROVE  Keeps(all, first, last, missing)
BY SplitIsKept DEF Keeps

(* Whatever a suite prints and leaves running, in whatever chunks, and     *)
(* whatever has no wheel: the streams are kept at both ends; the status    *)
(* the wrapper wrote is the one read, unless what survived it said another *)
(* or buried it; and the failures are those the suite's lines name, or a   *)
(* piece of a line cut at the cap, all that pytest or jest lists in a      *)
(* stream that lost nothing among them (_Capture, _read_status, parse,     *)
(* fetch_dropping_unavailable).                                            *)
THEOREM EvidenceAlwaysHonest == OutputSpec => []EvidenceIsHonest
<1>1. EvidenceInv => StreamsAreKept
  <2>1. SUFFICES ASSUME EvidenceInv, NEW s \in Streams
                 PROVE  /\ Len(head[s]) + Len(tail[s]) + lost[s] = Len(said[s])
                        /\ Len(head[s]) + Len(tail[s]) <= OUTPUT_CAP
                        /\ IsPrefix(head[s], said[s]) /\ IsSuffix(tail[s], said[s])
                        /\ lost[s] > 0 => Len(head[s]) + Len(tail[s]) = OUTPUT_CAP
    BY DEF StreamsAreKept
  <2>2. /\ said[s] \in Seq(SaidLines) /\ head[s] \in Seq(SaidLines) /\ tail[s] \in Seq(SaidLines)
        /\ Split(said[s], head[s], tail[s], lost[s])
    BY <2>1 DEF EvidenceInv, StreamsInv
  <2>3. Keeps(said[s], head[s], tail[s], lost[s])
    BY <2>2, SplitKeeps, Zenon
  <2> QED  BY <2>3 DEF Keeps
<1>2. EvidenceInv => AllWasFetched
  BY DEF EvidenceInv, FetchInv, AllWasFetched
<1>3. EvidenceInv => EvidenceIsHonest
  BY <1>1, <1>2 DEF EvidenceInv, EvidenceIsHonest
<1> QED  BY <1>3, EvidenceInvariant, PTL

-----------------------------------------------------------------------------
(***************************************************************************)
(* How the tests of a repository are run: what is read of its metadata.    *)
(***************************************************************************)

(* What includes what: no requirement has the name of a file or a group.   *)
IsTable(e) ==
  /\ DOMAIN e \cap Lines = {}
  /\ \A name \in DOMAIN e : e[name] \in Seq(ToSet(e[name]))

(* The entries of one list, and what is included already read.             *)
Parts(e, read, name) ==
  [i \in DOMAIN e[name] |->
     LET entry == e[name][i]
     IN  IF entry \in Lines THEN <<entry>>
         ELSE IF entry \in DOMAIN e THEN read[entry]
         ELSE <<>>]

(* The lists as they are read with so many includes followed.              *)
Reads(read, e, n) ==
  /\ DOMAIN read = 0 .. n
  /\ \A d \in 0 .. n : read[d] \in [DOMAIN e -> Seq(Lines)]
  /\ read[0] = [name \in DOMAIN e |-> <<>>]
  /\ \A d \in 0 .. n - 1 : \A name \in DOMAIN e : read[d + 1][name] = FlattenSeq(Parts(e, read[d], name))

LEMMA PartsAreLists ==
  ASSUME NEW e, IsTable(e), NEW read \in [DOMAIN e -> Seq(Lines)], NEW name \in DOMAIN e
  PROVE  /\ Parts(e, read, name) \in Seq(Seq(Lines))
         /\ FlattenSeq(Parts(e, read, name)) \in Seq(Lines)
         /\ ToSet(FlattenSeq(Parts(e, read, name))) =
              (ToSet(e[name]) \cap Lines) \cup UNION {ToSet(read[x]) : x \in ToSet(e[name]) \cap DOMAIN e}
<1>1. PICK s : s = e[name]
  OBVIOUS
<1>2. s \in Seq(ToSet(s))
  BY <1>1 DEF IsTable
<1>3. PICK n : n = Len(s)
  OBVIOUS
<1>4. n \in Nat /\ DOMAIN s = 1 .. n
  BY <1>2, <1>3
<1>5. PICK p : p = Parts(e, read, name)
  OBVIOUS
<1>6. /\ DOMAIN p = 1 .. n
      /\ \A i \in 1 .. n : p[i] = IF s[i] \in Lines THEN <<s[i]>>
                                  ELSE IF s[i] \in DOMAIN e THEN read[s[i]] ELSE <<>>
  BY <1>1, <1>4, <1>5 DEF Parts
<1>7. ASSUME NEW i \in 1 .. n
      PROVE  p[i] \in Seq(Lines)
  <2>1. CASE s[i] \in Lines
    <3>1. \A x \in Lines : <<x>> \in Seq(Lines)
      OBVIOUS
    <3> QED  BY <1>6, <2>1, <3>1
  <2>2. CASE s[i] \notin Lines /\ s[i] \in DOMAIN e
    <3>1. p[i] = read[s[i]]
      BY <1>6, <2>2
    <3> QED  BY <2>2, <3>1
  <2>3. CASE s[i] \notin Lines /\ s[i] \notin DOMAIN e
    <3>1. p[i] = <<>>
      BY <1>6, <2>3
    <3> QED  BY <3>1
  <2> QED  BY <2>1, <2>2, <2>3
<1>8. p \in Seq(Seq(Lines))
  <2>1. p = [i \in 1 .. n |-> p[i]]
    BY <1>5, <1>6, <1>1, <1>4 DEF Parts
  <2>2. p \in [1 .. n -> Seq(Lines)]
    BY <1>7, <2>1
  <2> QED  BY <1>4, <2>2, SeqDef
<1>9. /\ FlattenSeq(p) \in Seq(Lines)
      /\ ToSet(FlattenSeq(p)) = UNION {ToSet(p[i]) : i \in DOMAIN p}
  BY <1>8, FlatKeeps
<1>10. ToSet(s) = {s[i] : i \in 1 .. n}
  BY <1>4 DEF ToSet
<1>11. \A x : ToSet(<<x>>) = {x}
  BY DEF ToSet
<1>12. ToSet(<<>>) = {}
  BY DEF ToSet
<1>13. DOMAIN e \cap Lines = {}
  BY DEF IsTable
<1>14. \A i \in 1 .. n : ToSet(p[i]) = IF s[i] \in Lines THEN {s[i]}
                                       ELSE IF s[i] \in DOMAIN e THEN ToSet(read[s[i]]) ELSE {}
  BY <1>6, <1>11, <1>12
<1>15. UNION {ToSet(p[i]) : i \in 1 .. n} =
         (ToSet(s) \cap Lines) \cup UNION {ToSet(read[x]) : x \in ToSet(s) \cap DOMAIN e}
  <2>1. ASSUME NEW l \in UNION {ToSet(p[i]) : i \in 1 .. n}
        PROVE  l \in (ToSet(s) \cap Lines) \cup UNION {ToSet(read[x]) : x \in ToSet(s) \cap DOMAIN e}
    <3>1. PICK i \in 1 .. n : l \in ToSet(p[i])
      OBVIOUS
    <3>2. s[i] \in ToSet(s)
      BY <1>10
    <3> QED  BY <1>14, <3>1, <3>2
  <2>2. ASSUME NEW l \in ToSet(s) \cap Lines
        PROVE  l \in UNION {ToSet(p[i]) : i \in 1 .. n}
    <3>1. PICK i \in 1 .. n : l = s[i]
      BY <1>10
    <3> QED  BY <1>14, <3>1
  <2>3. ASSUME NEW x \in ToSet(s) \cap DOMAIN e, NEW l \in ToSet(read[x])
        PROVE  l \in UNION {ToSet(p[i]) : i \in 1 .. n}
    <3>1. PICK i \in 1 .. n : x = s[i]
      BY <1>10
    <3>2. s[i] \notin Lines /\ s[i] \in DOMAIN e
      BY <1>13, <3>1
    <3> QED  BY <1>14, <3>1, <3>2
  <2> QED  BY <2>1, <2>2, <2>3
<1> QED  BY <1>1, <1>5, <1>6, <1>8, <1>9, <1>15

(* There is the function by which Including is defined.                    *)
LEMMA ReadsExist ==
  ASSUME NEW e, IsTable(e), NEW depth \in Nat
  PROVE  \E read : Reads(read, e, depth + 1) /\ Including(depth, e) = read[depth + 1]
<1>. DEFINE N == depth + 1
            F == [DOMAIN e -> Seq(Lines)]
            first == [name \in DOMAIN e |-> <<>>]
            Next(read) == [name \in DOMAIN e |-> FlattenSeq(Parts(e, read, name))]
            g == CHOOSE read : read = [d \in 0 .. N |-> [name \in DOMAIN e |->
                   IF d = 0 THEN <<>> ELSE FlattenSeq(Parts(e, read[d - 1], name))]]
            P(k) == \E h : Reads(h, e, k)
            D == {k \in Nat : P(k)}
<1>1. Including(depth, e) = g[N]
  BY DEF Including, Parts
<1>2. first \in F
  OBVIOUS
<1>3. \A read \in F : Next(read) \in F
  BY PartsAreLists
<1>4. 0 \in D
  <2>1. Reads([d \in 0 .. 0 |-> first], e, 0)
    BY <1>2 DEF Reads
  <2> QED  BY <2>1
<1>5. ASSUME NEW k \in D
      PROVE  k + 1 \in D
  <2>. k \in Nat /\ k + 1 \in Nat
    OBVIOUS
  <2>1. PICK h : Reads(h, e, k)
    OBVIOUS
  <2>2. h[k] \in F /\ h[0] = first /\ \A d \in 0 .. k : h[d] \in F
    BY <2>1 DEF Reads
  <2>3. \A d \in 0 .. k - 1, name \in DOMAIN e : h[d + 1][name] = FlattenSeq(Parts(e, h[d], name))
    BY <2>1 DEF Reads
  <2>4. PICK n : n = Next(h[k])
    OBVIOUS
  <2>5. n \in F /\ \A name \in DOMAIN e : n[name] = FlattenSeq(Parts(e, h[k], name))
    <3>1. n \in F
      BY <1>3, <2>2, <2>4
    <3> QED  BY <2>4, <3>1
  <2>. DEFINE longer == [d \in 0 .. k + 1 |-> IF d = k + 1 THEN n ELSE h[d]]
  <2>6. DOMAIN longer = 0 .. k + 1 /\ longer[k + 1] = n /\ \A d \in 0 .. k : longer[d] = h[d]
    OBVIOUS
  <2>. HIDE DEF longer, F, first
  <2>7. \A d \in 0 .. k + 1 : d = k + 1 \/ d \in 0 .. k
    OBVIOUS
  <2>8. \A d \in 0 .. k + 1 : longer[d] \in F
    BY <2>2, <2>5, <2>6, <2>7
  <2>9. longer[0] = first
    BY <2>2, <2>6
  <2>10. ASSUME NEW d \in 0 .. k, NEW name \in DOMAIN e
         PROVE  longer[d + 1][name] = FlattenSeq(Parts(e, longer[d], name))
    <3>1. CASE d = k
      BY <2>5, <2>6, <3>1
    <3>2. CASE d # k
      <4>1. d \in 0 .. k - 1 /\ d + 1 \in 0 .. k
        BY <3>2
      <4> QED  BY <2>3, <2>6, <4>1
    <3> QED  BY <3>1, <3>2
  <2>11. 0 .. (k + 1) - 1 = 0 .. k
    OBVIOUS
  <2>12. Reads(longer, e, k + 1)
    BY <2>6, <2>8, <2>9, <2>10, <2>11 DEF Reads, F, first
  <2> QED  BY <2>12
<1>6. D = Nat
  <2>. HIDE DEF D
  <2>1. D \in SUBSET Nat
    BY DEF D
  <2> QED  BY <1>4, <1>5, <2>1, SetInduction
<1>7. PICK h : Reads(h, e, N)
  <2>. HIDE DEF P
  <2>1. N \in D
    BY <1>6
  <2>2. P(N)
    BY <2>1
  <2> QED  BY <2>2 DEF P
<1>8. /\ DOMAIN h = 0 .. N /\ h[0] = first
      /\ \A d \in 0 .. N : h[d] \in F
      /\ \A d \in 0 .. N - 1, name \in DOMAIN e : h[d + 1][name] = FlattenSeq(Parts(e, h[d], name))
  BY <1>7 DEF Reads
<1>. DEFINE Table(read) == [d \in 0 .. N |-> [name \in DOMAIN e |->
                             IF d = 0 THEN <<>> ELSE FlattenSeq(Parts(e, read[d - 1], name))]]
<1>9. ASSUME NEW d \in 0 .. N
      PROVE  h[d] = [name \in DOMAIN e |-> IF d = 0 THEN <<>> ELSE FlattenSeq(Parts(e, h[d - 1], name))]
  <2>1. CASE d = 0
    BY <1>8, <2>1
  <2>2. CASE d # 0
    <3>1. d - 1 \in 0 .. N - 1 /\ (d - 1) + 1 = d
      BY <2>2
    <3>2. \A name \in DOMAIN e : h[d][name] = FlattenSeq(Parts(e, h[d - 1], name))
      BY <1>8, <3>1
    <3>3. h[d] = [name \in DOMAIN e |-> h[d][name]]
      BY <1>8
    <3> QED  BY <2>2, <3>2, <3>3
  <2> QED  BY <2>1, <2>2
<1>10. \E read : read = Table(read)
  <2>1. [d \in 0 .. N |-> h[d]] = Table([d \in 0 .. N |-> h[d]])
    <3>. DEFINE t == [d \in 0 .. N |-> h[d]]
    <3>1. \A d \in 0 .. N : t[d] = h[d] /\ (d # 0 => t[d - 1] = h[d - 1])
      OBVIOUS
    <3> QED  BY <1>9, <3>1
  <2> QED  BY <2>1
<1>11. g = Table(g)
  BY <1>10
<1>. HIDE DEF g
<1>12. /\ DOMAIN g = 0 .. N /\ g[0] = first
       /\ \A d \in 0 .. N - 1 : g[d + 1] = Next(g[d])
  <2>1. DOMAIN g = 0 .. N /\ 0 \in 0 .. N
    BY <1>11
  <2>2. \A d \in 0 .. N : g[d] = [name \in DOMAIN e |-> IF d = 0 THEN <<>> ELSE FlattenSeq(Parts(e, g[d - 1], name))]
    BY <1>11
  <2>3. g[0] = first
    BY <2>1, <2>2
  <2>4. ASSUME NEW d \in 0 .. N - 1
        PROVE  g[d + 1] = Next(g[d])
    <3>1. d + 1 \in 0 .. N /\ d + 1 # 0 /\ (d + 1) - 1 = d
      OBVIOUS
    <3> QED  BY <2>2, <3>1
  <2> QED  BY <2>1, <2>3, <2>4
<1>13. \A d \in 0 .. N : g[d] \in F
  <2>. DEFINE E == {k \in Nat : k <= N => g[k] \in F}
  <2>1. 0 \in E
    BY <1>2, <1>12
  <2>2. ASSUME NEW k \in E
        PROVE  k + 1 \in E
    <3>. HIDE DEF F, Next, first
    <3>1. SUFFICES ASSUME k + 1 <= N
                   PROVE  g[k + 1] \in F
      OBVIOUS
    <3>2. k \in 0 .. N - 1 /\ g[k] \in F
      BY <3>1
    <3> QED  BY <1>3, <1>12, <3>2
  <2>3. E = Nat
    <3>. HIDE DEF E
    <3>1. E \in SUBSET Nat
      BY DEF E
    <3> QED  BY <2>1, <2>2, <3>1, SetInduction
  <2> QED  BY <2>3
<1>14. Reads(g, e, N)
  BY <1>12, <1>13 DEF Reads
<1> QED  BY <1>1, <1>14

(* The names within so many includes of where one starts.                  *)
Spreads(within, e, start, n) ==
  /\ within[0] = start
  /\ \A d \in 0 .. n - 1 :
       within[d + 1] = within[d] \cup UNION {ToSet(e[x]) : x \in within[d] \cap DOMAIN e}

LEMMA SpreadsExist ==
  ASSUME NEW e, NEW start, NEW depth \in Nat
  PROVE  \E within : Spreads(within, e, start, depth + 1) /\ Closure(e, start, depth) = within[depth + 1]
<1>. DEFINE N == depth + 1
            Next(s) == s \cup UNION {ToSet(e[x]) : x \in s \cap DOMAIN e}
            Grows(h, k) == h[0] = start /\ \A d \in 0 .. k - 1 : h[d + 1] = Next(h[d])
            g == CHOOSE within : within = [n \in 0 .. N |->
                   IF n = 0 THEN start ELSE Next(within[n - 1])]
            P(k) == \E h : Grows(h, k)
            D == {k \in Nat : P(k)}
<1>1. Closure(e, start, depth) = g[N]
  BY DEF Closure
<1>. HIDE DEF Next
<1>2. 0 \in D
  <2>1. Grows([d \in 0 .. 0 |-> start], 0)
    OBVIOUS
  <2> QED  BY <2>1
<1>3. ASSUME NEW k \in D
      PROVE  k + 1 \in D
  <2>. k \in Nat /\ k + 1 \in Nat
    OBVIOUS
  <2>1. PICK h : Grows(h, k)
    OBVIOUS
  <2>. DEFINE longer == [d \in 0 .. k + 1 |-> IF d = k + 1 THEN Next(h[k]) ELSE h[d]]
  <2>2. longer[k + 1] = Next(h[k]) /\ \A d \in 0 .. k : longer[d] = h[d]
    OBVIOUS
  <2>. HIDE DEF longer
  <2>3. ASSUME NEW d \in 0 .. k
        PROVE  longer[d + 1] = Next(longer[d])
    <3>1. CASE d = k
      BY <2>2, <3>1
    <3>2. CASE d # k
      <4>1. d \in 0 .. k - 1 /\ d + 1 \in 0 .. k
        BY <3>2
      <4> QED  BY <2>1, <2>2, <4>1
    <3> QED  BY <3>1, <3>2
  <2>4. longer[0] = start /\ 0 .. (k + 1) - 1 = 0 .. k
    BY <2>1, <2>2
  <2>5. Grows(longer, k + 1)
    BY <2>3, <2>4
  <2> QED  BY <2>5
<1>4. D = Nat
  <2>. HIDE DEF D
  <2>1. D \in SUBSET Nat
    BY DEF D
  <2> QED  BY <1>2, <1>3, <2>1, SetInduction
<1>5. PICK h : Grows(h, N)
  <2>. HIDE DEF P
  <2>1. N \in D
    BY <1>4
  <2>2. P(N)
    BY <2>1
  <2> QED  BY <2>2 DEF P
<1>. DEFINE Table(within) == [n \in 0 .. N |-> IF n = 0 THEN start ELSE Next(within[n - 1])]
<1>6. \E within : within = Table(within)
  <2>. DEFINE t == [n \in 0 .. N |-> h[n]]
  <2>1. \A n \in 0 .. N : t[n] = h[n] /\ (n # 0 => t[n - 1] = h[n - 1])
    OBVIOUS
  <2>2. \A n \in 0 .. N : n # 0 => h[n] = Next(h[n - 1])
    <3>1. SUFFICES ASSUME NEW n \in 0 .. N, n # 0
                   PROVE  h[n] = Next(h[n - 1])
      OBVIOUS
    <3>2. n - 1 \in 0 .. N - 1 /\ (n - 1) + 1 = n
      BY <3>1
    <3> QED  BY <1>5, <3>2
  <2>3. t = Table(t)
    BY <1>5, <2>1, <2>2
  <2> QED  BY <2>3
<1>7. g = Table(g)
  BY <1>6
<1>. HIDE DEF g
<1>8. g[0] = start /\ \A d \in 0 .. N - 1 : g[d + 1] = Next(g[d])
  <2>1. \A n \in 0 .. N : g[n] = IF n = 0 THEN start ELSE Next(g[n - 1])
    BY <1>7
  <2>2. ASSUME NEW d \in 0 .. N - 1
        PROVE  g[d + 1] = Next(g[d])
    <3>1. d + 1 \in 0 .. N /\ d + 1 # 0 /\ (d + 1) - 1 = d
      OBVIOUS
    <3> QED  BY <2>1, <3>1
  <2> QED  BY <2>1, <2>2
<1>9. Spreads(g, e, start, N)
  BY <1>8 DEF Spreads, Next
<1> QED  BY <1>1, <1>9

(* A list that is read with one include more holds no less.                *)
LEMMA ReadsGrow ==
  ASSUME NEW e, IsTable(e), NEW n \in Nat, NEW read, Reads(read, e, n)
  PROVE  \A d \in 0 .. n - 1 : \A x \in DOMAIN e : ToSet(read[d][x]) \subseteq ToSet(read[d + 1][x])
<1>. DEFINE D == {d \in Nat : d <= n - 1 => \A x \in DOMAIN e : ToSet(read[d][x]) \subseteq ToSet(read[d + 1][x])}
<1>1. \A d \in 0 .. n - 1 : \A x \in DOMAIN e :
        ToSet(read[d + 1][x]) =
          (ToSet(e[x]) \cap Lines) \cup UNION {ToSet(read[d][y]) : y \in ToSet(e[x]) \cap DOMAIN e}
  <2>1. SUFFICES ASSUME NEW d \in 0 .. n - 1, NEW x \in DOMAIN e
                 PROVE  ToSet(read[d + 1][x]) = (ToSet(e[x]) \cap Lines)
                          \cup UNION {ToSet(read[d][y]) : y \in ToSet(e[x]) \cap DOMAIN e}
    OBVIOUS
  <2>2. d \in 0 .. n /\ read[d] \in [DOMAIN e -> Seq(Lines)] /\ read[d + 1][x] = FlattenSeq(Parts(e, read[d], x))
    BY DEF Reads
  <2>3. PICK r : r = read[d]
    OBVIOUS
  <2> QED  BY <2>2, <2>3, PartsAreLists
<1>2. 0 \in D
  <2>1. \A x \in DOMAIN e : ToSet(read[0][x]) = {}
    BY DEF Reads, ToSet
  <2> QED  BY <2>1
<1>3. ASSUME NEW d \in D
      PROVE  d + 1 \in D
  <2>. d \in Nat /\ d + 1 \in Nat
    OBVIOUS
  <2>1. SUFFICES ASSUME d + 1 <= n - 1, NEW x \in DOMAIN e
                 PROVE  ToSet(read[d + 1][x]) \subseteq ToSet(read[(d + 1) + 1][x])
    OBVIOUS
  <2>2. \A y \in DOMAIN e : ToSet(read[d][y]) \subseteq ToSet(read[d + 1][y])
    BY <2>1
  <2>3. d \in 0 .. n - 1 /\ d + 1 \in 0 .. n - 1
    BY <2>1
  <2>4. ToSet(read[d + 1][x]) =
          (ToSet(e[x]) \cap Lines) \cup UNION {ToSet(read[d][y]) : y \in ToSet(e[x]) \cap DOMAIN e}
    BY <1>1, <2>3
  <2>5. ToSet(read[(d + 1) + 1][x]) =
          (ToSet(e[x]) \cap Lines) \cup UNION {ToSet(read[d + 1][y]) : y \in ToSet(e[x]) \cap DOMAIN e}
    BY <1>1, <2>3
  <2> QED  BY <2>2, <2>4, <2>5
<1>4. D = Nat
  <2>. HIDE DEF D
  <2>1. D \in SUBSET Nat
    BY DEF D
  <2> QED  BY <1>2, <1>3, <2>1, SetInduction
<1> QED  BY <1>4

(* What a list holds is what its names reach: from within of some includes *)
(* the lists read with the others reach the rest.                          *)
LEMMA ReadsReach ==
  ASSUME NEW e, IsTable(e), NEW depth \in Nat, NEW start \in SUBSET DOMAIN e
  PROVE  Closure(e, start, depth) \cap Lines = UNION {ToSet(Including(depth, e)[x]) : x \in start}
<1>. DEFINE N == depth + 1
<1>1. PICK read : Reads(read, e, N) /\ Including(depth, e) = read[N]
  BY ReadsExist
<1>2. PICK within : Spreads(within, e, start, N) /\ Closure(e, start, depth) = within[N]
  BY SpreadsExist
<1>3. N \in Nat
  OBVIOUS
<1>. HIDE DEF N
<1>4. \A d \in 0 .. N - 1 : \A x \in DOMAIN e :
        /\ ToSet(read[d][x]) \subseteq ToSet(read[d + 1][x])
        /\ ToSet(read[d + 1][x]) =
             (ToSet(e[x]) \cap Lines) \cup UNION {ToSet(read[d][y]) : y \in ToSet(e[x]) \cap DOMAIN e}
  <2>1. SUFFICES ASSUME NEW d \in 0 .. N - 1, NEW x \in DOMAIN e
                 PROVE  ToSet(read[d + 1][x]) = (ToSet(e[x]) \cap Lines)
                          \cup UNION {ToSet(read[d][y]) : y \in ToSet(e[x]) \cap DOMAIN e}
    BY <1>1, <1>3, ReadsGrow
  <2>2. d \in 0 .. N /\ read[d] \in [DOMAIN e -> Seq(Lines)] /\ read[d + 1][x] = FlattenSeq(Parts(e, read[d], x))
    <3>1. d \in 0 .. N /\ d \in 0 .. N - 1
      BY ONLY <1>3, d \in 0 .. N - 1
    <3> QED  BY <1>1, <3>1, Zenon DEF Reads
  <2>3. PICK r : r = read[d]
    OBVIOUS
  <2> QED  BY <2>2, <2>3, PartsAreLists
<1>. DEFINE Rest(k) == UNION {ToSet(read[k][x]) : x \in within[N - k] \cap DOMAIN e}
            D == {k \in Nat : k <= N => within[N] \cap Lines = (within[N - k] \cap Lines) \cup Rest(k)}
<1>5. 0 \in D
  <2>1. \A x \in DOMAIN e : ToSet(read[0][x]) = {}
    BY <1>1 DEF Reads, ToSet
  <2>2. Rest(0) = {} /\ N - 0 = N
    BY <1>3, <2>1
  <2> QED  BY <2>2
<1>6. ASSUME NEW k \in D
      PROVE  k + 1 \in D
  <2>. k \in Nat /\ k + 1 \in Nat
    OBVIOUS
  <2>1. SUFFICES ASSUME k + 1 <= N
                 PROVE  within[N] \cap Lines = (within[N - (k + 1)] \cap Lines) \cup Rest(k + 1)
    OBVIOUS
  <2>2. within[N] \cap Lines = (within[N - k] \cap Lines) \cup Rest(k)
    <3>. HIDE DEF Rest
    <3> QED  BY <1>3, <2>1
  <2>3. PICK m : m = N - (k + 1)
    OBVIOUS
  <2>4. m \in 0 .. N - 1 /\ m + 1 = N - k /\ k \in 0 .. N - 1
    BY <1>3, <2>1, <2>3
  <2>5. PICK w : w = within[m]
    OBVIOUS
  <2>6. within[N - k] = w \cup UNION {ToSet(e[x]) : x \in w \cap DOMAIN e}
    BY <1>2, <2>4, <2>5 DEF Spreads
  <2>7. Rest(k + 1) = UNION {ToSet(read[k + 1][x]) : x \in w \cap DOMAIN e}
    BY <2>3, <2>5
  <2>8. PICK now, less : now = read[k + 1] /\ less = read[k]
    OBVIOUS
  <2>9. \A x \in DOMAIN e :
          /\ ToSet(less[x]) \subseteq ToSet(now[x])
          /\ ToSet(now[x]) = (ToSet(e[x]) \cap Lines) \cup UNION {ToSet(less[y]) : y \in ToSet(e[x]) \cap DOMAIN e}
    <3>1. \A x \in DOMAIN e :
            /\ ToSet(read[k][x]) \subseteq ToSet(read[k + 1][x])
            /\ ToSet(read[k + 1][x]) =
                 (ToSet(e[x]) \cap Lines) \cup UNION {ToSet(read[k][y]) : y \in ToSet(e[x]) \cap DOMAIN e}
      BY <1>4, <2>4
    <3> QED  BY <2>8, <3>1
  <2>10. PICK v : v = within[N - k]
    OBVIOUS
  <2>11. Rest(k) = UNION {ToSet(less[x]) : x \in v \cap DOMAIN e}
    BY <2>8, <2>10
  <2>12. v = w \cup UNION {ToSet(e[x]) : x \in w \cap DOMAIN e}
    BY <2>6, <2>10
  <2>. HIDE DEF Rest
  <2>13. ASSUME NEW l \in (v \cap Lines) \cup UNION {ToSet(less[x]) : x \in v \cap DOMAIN e}
         PROVE  l \in (w \cap Lines) \cup UNION {ToSet(now[x]) : x \in w \cap DOMAIN e}
    <3>1. CASE l \in v \cap Lines
      <4>1. CASE l \in w
        BY <3>1, <4>1
      <4>2. CASE l \notin w
        <5>1. PICK x \in w \cap DOMAIN e : l \in ToSet(e[x])
          BY <2>12, <3>1, <4>2
        <5>2. l \in ToSet(now[x])
          BY <2>9, <3>1, <5>1
        <5> QED  BY <5>2
      <4> QED  BY <4>1, <4>2
    <3>2. CASE l \notin v \cap Lines
      <4>1. PICK y \in v \cap DOMAIN e : l \in ToSet(less[y])
        BY <3>2
      <4>2. CASE y \in w
        <5>1. l \in ToSet(now[y])
          BY <2>9, <4>1
        <5> QED  BY <4>2, <5>1
      <4>3. CASE y \notin w
        <5>1. PICK x \in w \cap DOMAIN e : y \in ToSet(e[x])
          BY <2>12, <4>1, <4>3
        <5>2. l \in ToSet(now[x])
          BY <2>9, <4>1, <5>1
        <5> QED  BY <5>2
      <4> QED  BY <4>2, <4>3
    <3> QED  BY <3>1, <3>2
  <2>14. ASSUME NEW l \in (w \cap Lines) \cup UNION {ToSet(now[x]) : x \in w \cap DOMAIN e}
         PROVE  l \in (v \cap Lines) \cup UNION {ToSet(less[x]) : x \in v \cap DOMAIN e}
    <3>1. CASE l \in w \cap Lines
      BY <2>12, <3>1
    <3>2. CASE l \notin w \cap Lines
      <4>1. PICK x \in w \cap DOMAIN e : l \in ToSet(now[x])
        BY <3>2
      <4>2. CASE l \in ToSet(e[x]) \cap Lines
        BY <2>12, <4>1, <4>2
      <4>3. CASE l \notin ToSet(e[x]) \cap Lines
        <5>1. PICK y \in ToSet(e[x]) \cap DOMAIN e : l \in ToSet(less[y])
          BY <2>9, <4>1, <4>3
        <5>2. y \in v
          BY <2>12, <4>1, <5>1
        <5> QED  BY <5>1, <5>2
      <4> QED  BY <4>2, <4>3
    <3> QED  BY <3>1, <3>2
  <2>15. (v \cap Lines) \cup UNION {ToSet(less[x]) : x \in v \cap DOMAIN e} =
           (w \cap Lines) \cup UNION {ToSet(now[x]) : x \in w \cap DOMAIN e}
    BY <2>13, <2>14
  <2> QED  BY <2>2, <2>3, <2>5, <2>7, <2>8, <2>10, <2>11, <2>15
<1>7. D = Nat
  <2>. HIDE DEF D
  <2>1. D \in SUBSET Nat
    BY DEF D
  <2> QED  BY <1>5, <1>6, <2>1, SetInduction
<1>8. within[N] \cap Lines = (within[N - N] \cap Lines) \cup Rest(N)
  <2>. HIDE DEF Rest
  <2>1. N \in D
    BY <1>3, <1>7
  <2> QED  BY <1>3, <2>1
<1>9. N - N = 0 /\ within[0] = start /\ start \cap Lines = {} /\ start \cap DOMAIN e = start
  BY <1>2, <1>3 DEF Spreads, IsTable
<1>10. Rest(N) = UNION {ToSet(read[N][x]) : x \in start}
  BY <1>9
<1> QED  BY <1>1, <1>2, <1>8, <1>9, <1>10

LEMMA IncludingIsLists ==
  ASSUME NEW e, IsTable(e), NEW depth \in Nat
  PROVE  \A x \in DOMAIN e : Including(depth, e)[x] \in Seq(Lines)
<1>1. PICK read : Reads(read, e, depth + 1) /\ Including(depth, e) = read[depth + 1]
  BY ReadsExist
<1>2. depth + 1 \in 0 .. depth + 1
  OBVIOUS
<1>3. read[depth + 1] \in [DOMAIN e -> Seq(Lines)]
  BY <1>1, <1>2 DEF Reads
<1> QED  BY <1>1, <1>3

(* The lists under some names, put together in the order of the names.     *)
Listed(lists, names) == FlattenSeq([i \in DOMAIN names |-> lists[names[i]]])

LEMMA ListsTogether ==
  ASSUME NEW X, NEW Y, NEW names \in Seq(Y), NEW lists, \A x \in ToSet(names) : lists[x] \in Seq(X)
  PROVE  /\ Listed(lists, names) \in Seq(X)
         /\ ToSet(Listed(lists, names)) = UNION {ToSet(lists[x]) : x \in ToSet(names)}
<1>1. PICK n : n = Len(names)
  OBVIOUS
<1>2. n \in Nat /\ DOMAIN names = 1 .. n
  BY <1>1
<1>3. PICK p : p = [i \in DOMAIN names |-> lists[names[i]]]
  OBVIOUS
<1>4. ToSet(names) = {names[i] : i \in 1 .. n}
  BY <1>2 DEF ToSet
<1>5. p \in [1 .. n -> Seq(X)] /\ \A i \in 1 .. n : p[i] = lists[names[i]]
  BY <1>2, <1>3, <1>4
<1>6. p \in Seq(Seq(X)) /\ DOMAIN p = 1 .. n
  BY <1>2, <1>5, SeqDef
<1>7. FlattenSeq(p) \in Seq(X) /\ ToSet(FlattenSeq(p)) = UNION {ToSet(p[i]) : i \in DOMAIN p}
  BY <1>6, FlatKeeps
<1>8. UNION {ToSet(p[i]) : i \in DOMAIN p} = UNION {ToSet(lists[x]) : x \in ToSet(names)}
  <2>1. \A x \in ToSet(names) : \E i \in 1 .. n : x = names[i] /\ p[i] = lists[x]
    BY <1>4, <1>5
  <2>2. \A i \in 1 .. n : names[i] \in ToSet(names) /\ p[i] = lists[names[i]]
    BY <1>4, <1>5
  <2>3. ASSUME NEW l, NEW i \in 1 .. n, l \in ToSet(p[i])
        PROVE  l \in UNION {ToSet(lists[x]) : x \in ToSet(names)}
    BY <2>2, <2>3
  <2>4. ASSUME NEW l, NEW x \in ToSet(names), l \in ToSet(lists[x])
        PROVE  l \in UNION {ToSet(p[i]) : i \in 1 .. n}
    BY <2>1, <2>4
  <2> QED  BY <1>6, <2>3, <2>4
<1> QED  BY <1>3, <1>7, <1>8 DEF Listed

(* What the assumption says of the checkout.                               *)
LEMMA TreeShape ==
  ASSUME tree \in Trees
  PROVE  /\ tree.build \in Seq(Lines) /\ tree.dependencies \in Seq(Lines) /\ tree.elsewhere \in Seq(Lines)
         /\ tree.extraOrder \in Seq(DOMAIN tree.extras) /\ ToSet(tree.extraOrder) = DOMAIN tree.extras
         /\ \A e \in DOMAIN tree.extras : tree.extras[e] \in Seq(Lines)
         /\ IsTable(tree.groups) /\ IsTable(tree.files)
         /\ tree.defaultGroups \in Seq(ToSet(tree.defaultGroups))
         /\ tree.fileOrder \in Seq(DOMAIN tree.files)
         /\ tree.lockfiles \subseteq ToSet(ManagerOrder)
         /\ tree.pythonTests \in Nat /\ tree.jsTests \in Nat
         /\ tree.package # "none"
<1>1. IsTree(tree)
  BY DetectionAssumption
<1> QED  BY <1>1 DEF IsTree, IsTable

LEMMA GroupsAreRead ==
  ASSUME tree \in Trees
  PROVE  GroupsRead \in Seq(ToSet(GroupsRead)) /\ ToSet(GroupsRead) \subseteq DOMAIN tree.groups
<1>1. PICK defaults : defaults = tree.defaultGroups
  OBVIOUS
<1>2. PICK others : others = ToSet(defaults) \ ToSet(GROUP_KEYS)
  OBVIOUS
<1>3. PICK more : more = KeptOf(defaults, others)
  OBVIOUS
<1>4. PICK X : X = ToSet(defaults) \cup {"test", "dev"}
  OBVIOUS
<1>5. defaults \in Seq(X)
  <2>1. defaults \in Seq(ToSet(defaults)) /\ ToSet(defaults) \subseteq X
    BY <1>1, <1>4, TreeShape
  <2> QED  BY <2>1
<1>6. more \in Seq(X)
  BY <1>3, <1>5, KeptKeeps
<1>7. GROUP_KEYS \in Seq(X)
  BY <1>4 DEF GROUP_KEYS
<1>8. PICK all : all = GROUP_KEYS \o more
  OBVIOUS
<1>9. all \in Seq(X)
  BY <1>6, <1>7, <1>8
<1>10. GroupsRead = KeptOf(all, DOMAIN tree.groups)
  <2>1. GroupsRead = KeptOf(GROUP_KEYS \o KeptOf(tree.defaultGroups, ToSet(tree.defaultGroups) \ ToSet(GROUP_KEYS)),
                            DOMAIN tree.groups)
    BY DEF GroupsRead, Kept, KeptOf
  <2> QED  BY <1>1, <1>2, <1>3, <1>8, <2>1
<1>11. GroupsRead \in Seq(X) /\ ToSet(GroupsRead) = ToSet(all) \cap DOMAIN tree.groups
  BY <1>9, <1>10, KeptKeeps
<1>12. \A s \in Seq(X) : s \in Seq(ToSet(s))
  BY DEF ToSet
<1> QED  BY <1>11, <1>12

(* The raw requirements are the lines that are given, none left out.       *)
LEMMA RawIsGiven ==
  ASSUME tree \in Trees
  PROVE  RawRequirements \in Seq(Lines) /\ ToSet(RawRequirements) = Referred \cap Lines
<1>. DEFINE groups == Including(GroupDepth, tree.groups)
            files == Including(FileDepth, tree.files)
<1>1. PICK b, d, x, g, w, f :
        /\ b = tree.build /\ d = tree.dependencies /\ w = tree.elsewhere
        /\ x = Listed(tree.extras, tree.extraOrder)
        /\ g = Listed(groups, GroupsRead) /\ f = Listed(files, tree.fileOrder)
  OBVIOUS
<1>2. RawRequirements = b \o d \o x \o g \o w \o f
  <2>1. RawRequirements = tree.build \o tree.dependencies \o Listed(tree.extras, tree.extraOrder)
          \o Listed(groups, GroupsRead) \o tree.elsewhere \o Listed(files, tree.fileOrder)
    BY DEF RawRequirements, Listed
  <2>. HIDE DEF groups, files
  <2> QED  BY <1>1, <2>1
<1>3. GroupDepth \in Nat /\ FileDepth \in Nat
  BY DetectionAssumption
<1>4. x \in Seq(Lines) /\ ToSet(x) = UNION {ToSet(tree.extras[e]) : e \in DOMAIN tree.extras}
  BY <1>1, TreeShape, ListsTogether
<1>5. g \in Seq(Lines) /\ ToSet(g) = Closure(tree.groups, ToSet(GroupsRead), GroupDepth) \cap Lines
  <2>1. IsTable(tree.groups) /\ GroupsRead \in Seq(ToSet(GroupsRead)) /\ ToSet(GroupsRead) \in SUBSET DOMAIN tree.groups
    BY TreeShape, GroupsAreRead
  <2>2. \A n \in ToSet(GroupsRead) : groups[n] \in Seq(Lines)
    BY <1>3, <2>1, IncludingIsLists
  <2>3. g \in Seq(Lines) /\ ToSet(g) = UNION {ToSet(groups[n]) : n \in ToSet(GroupsRead)}
    <3>. HIDE DEF groups
    <3> QED  BY <1>1, <2>1, <2>2, ListsTogether
  <2>4. Closure(tree.groups, ToSet(GroupsRead), GroupDepth) \cap Lines = UNION {ToSet(groups[n]) : n \in ToSet(GroupsRead)}
    BY <1>3, <2>1, ReadsReach
  <2> QED  BY <2>3, <2>4
<1>6. f \in Seq(Lines) /\ ToSet(f) = Closure(tree.files, ToSet(tree.fileOrder), FileDepth) \cap Lines
  <2>1. IsTable(tree.files) /\ tree.fileOrder \in Seq(DOMAIN tree.files)
    BY TreeShape
  <2>2. ToSet(tree.fileOrder) \in SUBSET DOMAIN tree.files
    BY <2>1 DEF ToSet
  <2>3. \A n \in ToSet(tree.fileOrder) : files[n] \in Seq(Lines)
    BY <1>3, <2>1, <2>2, IncludingIsLists
  <2>4. f \in Seq(Lines) /\ ToSet(f) = UNION {ToSet(files[n]) : n \in ToSet(tree.fileOrder)}
    <3>. HIDE DEF files
    <3> QED  BY <1>1, <2>1, <2>3, ListsTogether
  <2>5. Closure(tree.files, ToSet(tree.fileOrder), FileDepth) \cap Lines = UNION {ToSet(files[n]) : n \in ToSet(tree.fileOrder)}
    BY <1>3, <2>1, <2>2, ReadsReach
  <2> QED  BY <2>4, <2>5
<1>7. b \in Seq(Lines) /\ d \in Seq(Lines) /\ w \in Seq(Lines)
  BY <1>1, TreeShape
<1>8. \A s \in Seq(Lines) : ToSet(s) \subseteq Lines
  BY DEF ToSet
<1>9. \A s, t \in Seq(Lines) : s \o t \in Seq(Lines) /\ ToSet(s \o t) = ToSet(s) \cup ToSet(t)
  BY ConcatEntries
<1>10. PICK p, q, r, t : p = b \o d /\ q = p \o x /\ r = q \o g /\ t = r \o w
  OBVIOUS
<1>11. p \in Seq(Lines) /\ ToSet(p) = ToSet(b) \cup ToSet(d)
  BY <1>7, <1>9, <1>10
<1>12. q \in Seq(Lines) /\ ToSet(q) = ToSet(p) \cup ToSet(x)
  BY <1>4, <1>9, <1>10, <1>11
<1>13. r \in Seq(Lines) /\ ToSet(r) = ToSet(q) \cup ToSet(g)
  BY <1>5, <1>9, <1>10, <1>12
<1>14. t \in Seq(Lines) /\ ToSet(t) = ToSet(r) \cup ToSet(w)
  BY <1>7, <1>9, <1>10, <1>13
<1>15. RawRequirements = t \o f
  BY <1>2, <1>10
<1>16. RawRequirements \in Seq(Lines) /\ ToSet(RawRequirements) = ToSet(t) \cup ToSet(f)
  BY <1>6, <1>9, <1>14, <1>15
<1>17. Referred = ToSet(b) \cup ToSet(d) \cup ToSet(w)
                 \cup Closure(tree.groups, ToSet(GroupsRead), GroupDepth)
                 \cup Closure(tree.files, ToSet(tree.fileOrder), FileDepth) \cup ToSet(x)
  <2>1. b = tree.build /\ d = tree.dependencies /\ w = tree.elsewhere
    BY <1>1
  <2> QED  BY <1>4, <2>1 DEF Referred
<1>18. ToSet(b) \subseteq Lines /\ ToSet(d) \subseteq Lines /\ ToSet(w) \subseteq Lines /\ ToSet(x) \subseteq Lines
  BY <1>4, <1>7, <1>8
<1> QED  BY <1>5, <1>6, <1>11, <1>12, <1>13, <1>14, <1>16, <1>17, <1>18

Others(S) == {line \in S : SplitName[line] # tree.ownName}

(* What detection takes: what is wanted, and what it misreads.             *)
Taken == Others(Referred \cap Lines) \cap Checked

(* What is read and not yet looked at, with what it has yielded, is what   *)
(* is given; the rest of the suites is decided one after the other.        *)
Following ==
  /\ Others(ToSet(pending)) \cup ToSet(lines) = Others(Referred \cap Lines)
  /\ IsInjective(lines)

PythonIsSound ==
  /\ python.found = TRUE /\ python.why = "python"
  /\ LET r == python.requirements
     IN  /\ \A i, j \in 1 .. Len(r) : r[i] = r[j] => i = j
         /\ ToSet(r) \subseteq Taken
         /\ Len(r) = Min({MAX_REQUIREMENTS, Cardinality(Taken)})

JavaScriptIsSound ==
  /\ javascript.found = TRUE /\ javascript.why = "javascript"
  /\ javascript.manager = Manager /\ ForeignSources = {}

DetectStages == {"scan", "python", "expand", "javascript", "choose", "done"}

DetectInv ==
  /\ tree \in Trees /\ detectAt \in DetectStages
  /\ counted.python \in Nat /\ counted.javascript \in Nat
  /\ pending \in Seq(Lines) /\ lines \in Seq(Lines)
  /\ detectAt \in {"scan", "python"} => lines = <<>>
  /\ detectAt = "expand" => Following
  /\ detectAt \in {"scan", "python", "expand"} => python.found = FALSE
  /\ detectAt \in {"javascript", "choose", "done"} => python = None \/ PythonIsSound
  /\ detectAt \in {"scan", "python", "expand", "javascript"} => javascript.found = FALSE
  /\ detectAt \in {"choose", "done"} => javascript.found = FALSE \/ JavaScriptIsSound
  /\ detectAt # "done" => detection.found = FALSE
  /\ detectAt = "done" => detection = Chosen

(* A line that is looked at: one of the project's own gives way to what    *)
(* its extras hold, which was given already, and any other is a            *)
(* requirement.                                                            *)
LEMMA ExpandFollows ==
  ASSUME DetectInv, Expand
  PROVE  pending' \in Seq(Lines) /\ lines' \in Seq(Lines) /\ Following'
<1>. tree \in Trees /\ detectAt = "expand" /\ pending \in Seq(Lines) /\ lines \in Seq(Lines) /\ Following /\ pending # <<>>
  BY DEF DetectInv, Expand
<1>1. PICK line, rest : line = Head(pending) /\ rest = Tail(pending)
  OBVIOUS
<1>2. line \in Lines /\ rest \in Seq(Lines) /\ ToSet(pending) = {line} \cup ToSet(rest)
  <2>1. line \in Lines /\ rest \in Seq(Lines) /\ pending = <<line>> \o rest
    BY <1>1, HeadTailProperties
  <2>2. PICK one : one = <<line>>
    OBVIOUS
  <2>3. one \in Seq(Lines) /\ ToSet(one) = {line}
    <3>1. Len(one) = 1 /\ one[1] = line /\ one \in Seq(Lines)
      BY <2>1, <2>2
    <3> QED  BY <3>1 DEF ToSet
  <2>4. ToSet(one \o rest) = ToSet(one) \cup ToSet(rest)
    BY <2>1, <2>3, ConcatEntries
  <2> QED  BY <2>1, <2>2, <2>3, <2>4
<1>3. PICK new : new = Kept(ExtrasIn[line], ToSet(ExtrasIn[line]) \ expanded)
  OBVIOUS
<1>4. new \in Seq(ToSet(ExtrasIn[line]))
  <2>1. ExtrasIn[line] \in Seq(ToSet(ExtrasIn[line]))
    BY <1>2, DetectionAssumption
  <2>2. new = KeptOf(ExtrasIn[line], ToSet(ExtrasIn[line]) \ expanded)
    BY <1>3 DEF Kept, KeptOf
  <2> QED  BY <2>1, <2>2, KeptKeeps
<1>5. PICK held : held = [e \in ToSet(new) |-> IF e \in DOMAIN tree.extras THEN tree.extras[e] ELSE <<>>]
  OBVIOUS
<1>6. PICK asked : asked = Listed(held, new)
  OBVIOUS
<1>7. \A e \in ToSet(new) : held[e] \in Seq(Lines) /\ ToSet(held[e]) \subseteq Referred \cap Lines
  <2>1. SUFFICES ASSUME NEW e \in ToSet(new)
                 PROVE  held[e] \in Seq(Lines) /\ ToSet(held[e]) \subseteq Referred \cap Lines
    OBVIOUS
  <2>2. CASE e \in DOMAIN tree.extras
    <3>1. held[e] = tree.extras[e]
      BY <1>5, <2>2
    <3>2. tree.extras[e] \in Seq(Lines)
      BY <2>2, TreeShape
    <3>3. ToSet(tree.extras[e]) \subseteq Referred
      BY <2>2 DEF Referred
    <3>4. ToSet(tree.extras[e]) \subseteq Lines
      BY <3>2 DEF ToSet
    <3> QED  BY <3>1, <3>2, <3>3, <3>4
  <2>3. CASE e \notin DOMAIN tree.extras
    <3>1. held[e] = <<>>
      BY <1>5, <2>3
    <3>2. ToSet(<<>>) = {}
      BY DEF ToSet
    <3> QED  BY <3>1, <3>2
  <2> QED  BY <2>2, <2>3
<1>8. asked \in Seq(Lines) /\ ToSet(asked) \subseteq Referred \cap Lines
  <2>1. asked \in Seq(Lines) /\ ToSet(asked) = UNION {ToSet(held[x]) : x \in ToSet(new)}
    BY <1>4, <1>6, <1>7, ListsTogether
  <2> QED  BY <1>7, <2>1
<1>9. FlattenSeq([i \in DOMAIN new |-> IF new[i] \in DOMAIN tree.extras THEN tree.extras[new[i]] ELSE <<>>]) = asked
  <2>1. \A i \in DOMAIN new : new[i] \in ToSet(new)
    BY DEF ToSet
  <2>2. [i \in DOMAIN new |-> IF new[i] \in DOMAIN tree.extras THEN tree.extras[new[i]] ELSE <<>>]
          = [i \in DOMAIN new |-> held[new[i]]]
    BY <1>5, <2>1
  <2> QED  BY <1>6, <2>2 DEF Listed
<1>10. tree' = tree /\ Referred' = Referred
  <2>1. tree' = tree
    BY DEF Expand
  <2> QED  BY <2>1 DEF Referred, GroupsRead, IsOwn
<1>11. IF IsOwn(line) THEN pending' = rest \o asked /\ lines' = lines
       ELSE pending' = rest /\ lines' = IF Contains(lines, line) THEN lines ELSE Append(lines, line)
  BY <1>1, <1>3, <1>9 DEF Expand
<1>12. Others(ToSet(pending)) \cup ToSet(lines) = Others(Referred \cap Lines) /\ IsInjective(lines)
  BY DEF Following
<1>13. CASE IsOwn(line)
  <2>1. pending' = rest \o asked /\ lines' = lines
    BY <1>11, <1>13
  <2>2. pending' \in Seq(Lines) /\ ToSet(pending') = ToSet(rest) \cup ToSet(asked)
    BY <1>2, <1>8, <2>1, ConcatEntries
  <2>3. Others(ToSet(pending)) = Others(ToSet(rest))
    BY <1>2, <1>13 DEF Others, IsOwn
  <2>4. Others(ToSet(pending')) \cup ToSet(lines) = Others(Referred \cap Lines)
    BY <1>8, <1>12, <2>2, <2>3 DEF Others
  <2>5. Others(ToSet(pending))' = Others(ToSet(pending')) /\ Others(Referred \cap Lines)' = Others(Referred \cap Lines)
    BY <1>10 DEF Others
  <2> QED  BY <1>12, <2>1, <2>2, <2>4, <2>5 DEF Following
<1>14. CASE ~IsOwn(line)
  <2>1. pending' = rest /\ lines' = IF Contains(lines, line) THEN lines ELSE Append(lines, line)
    BY <1>11, <1>14
  <2>2. Others(ToSet(pending)) = Others(ToSet(rest)) \cup {line}
    BY <1>2, <1>14 DEF Others, IsOwn
  <2>3. lines' \in Seq(Lines) /\ ToSet(lines') = ToSet(lines) \cup {line} /\ IsInjective(lines')
    <3>1. PICK s : s = lines
      OBVIOUS
    <3>2. PICK n : n = Len(s)
      OBVIOUS
    <3>3. s \in Seq(Lines) /\ n \in Nat /\ DOMAIN s = 1 .. n /\ IsInjective(s)
      BY <1>12, <3>1, <3>2
    <3>4. CASE Contains(s, line)
      <4>1. line \in ToSet(s)
        BY <3>2, <3>3, <3>4 DEF Contains, ToSet
      <4> QED  BY <2>1, <3>1, <3>3, <3>4, <4>1
    <3>5. CASE ~Contains(s, line)
      <4>1. PICK t : t = Append(s, line)
        OBVIOUS
      <4>2. /\ t \in Seq(Lines) /\ DOMAIN t = 1 .. n + 1 /\ t[n + 1] = line
            /\ \A i \in 1 .. n : t[i] = s[i]
        BY <1>2, <3>2, <3>3, <4>1
      <4>3. \A i \in 1 .. n : s[i] # line
        BY <3>2, <3>5 DEF Contains
      <4>4. \A i \in 1 .. n + 1 : i \in 1 .. n \/ i = n + 1
        BY <3>3
      <4>5. IsInjective(t)
        <5>1. \A i, j \in 1 .. n : s[i] = s[j] => i = j
          BY <3>3 DEF IsInjective
        <5> QED  BY <3>3, <4>2, <4>3, <4>4, <5>1 DEF IsInjective
      <4>6. ToSet(t) = ToSet(s) \cup {line}
        <5>1. \A i \in 1 .. n : i \in 1 .. n + 1
          BY <3>3
        <5>2. n + 1 \in 1 .. n + 1
          BY <3>3
        <5> QED  BY <3>3, <4>2, <4>4, <5>1, <5>2 DEF ToSet
      <4>7. lines' = t
        BY <2>1, <3>1, <3>5, <4>1
      <4> QED  BY <3>1, <4>2, <4>5, <4>6, <4>7
    <3> QED  BY <3>4, <3>5
  <2>4. Others(ToSet(pending')) \cup ToSet(lines') = Others(Referred \cap Lines)
    BY <1>12, <2>1, <2>2, <2>3
  <2>5. Others(ToSet(pending))' = Others(ToSet(pending')) /\ Others(Referred \cap Lines)' = Others(Referred \cap Lines)
    BY <1>10 DEF Others
  <2> QED  BY <1>2, <2>1, <2>3, <2>4, <2>5 DEF Following
<1> QED  BY <1>13, <1>14

(* A list without repeats is as long as the set of what is in it.          *)
LEMMA InjectiveLength ==
  ASSUME NEW X, NEW s \in Seq(X), IsInjective(s)
  PROVE  Cardinality(ToSet(s)) = Len(s)
<1>1. PICK n : n = Len(s)
  OBVIOUS
<1>2. n \in Nat /\ DOMAIN s = 1 .. n /\ s \in [1 .. n -> X]
  BY <1>1
<1>3. PICK S : S = ToSet(s)
  OBVIOUS
<1>4. S = {s[i] : i \in 1 .. n}
  BY <1>2, <1>3 DEF ToSet
<1>5. s \in [1 .. n -> S]
  BY <1>2, <1>4
<1>6. s \in Bijection(1 .. n, S)
  BY <1>2, <1>4, <1>5 DEF IsInjective, Bijection, Injection, Surjection
<1>7. ExistsBijection(1 .. n, S)
  BY <1>6 DEF ExistsBijection
<1> QED  BY <1>1, <1>2, <1>3, <1>7, FS_CountingElements

(* Of two numbers the lesser.                                              *)
LEMMA MinOfTwo ==
  ASSUME NEW a \in Nat, NEW b \in Nat
  PROVE  Min({a, b}) = IF a <= b THEN a ELSE b
<1>1. {a, b} \in SUBSET Nat /\ {a, b} # {}
  OBVIOUS
<1>2. Min({a, b}) \in {a, b} /\ \A m \in {a, b} : Min({a, b}) <= m
  BY <1>1, MinIsLeast
<1> QED  BY <1>2

(* What is fetched: of what was read, the lines that pass, up to the cap.  *)
LEMMA CleanedIsSound ==
  ASSUME DetectInv, detectAt = "expand", pending = <<>>
  PROVE  /\ \A i, j \in 1 .. Len(Cleaned) : Cleaned[i] = Cleaned[j] => i = j
         /\ ToSet(Cleaned) \subseteq Taken
         /\ Len(Cleaned) = Min({MAX_REQUIREMENTS, Cardinality(Taken)})
<1>1. lines \in Seq(Lines) /\ Following
  BY DEF DetectInv
<1>2. PICK kept : kept = Kept(lines, Checked)
  OBVIOUS
<1>3. kept \in Seq(Lines) /\ ToSet(kept) = ToSet(lines) \cap Checked /\ IsInjective(kept)
  <2>1. kept = KeptOf(lines, Checked)
    BY <1>2 DEF Kept, KeptOf
  <2>2. IsInjective(lines)
    BY <1>1 DEF Following
  <2> QED  BY <1>1, <2>1, <2>2, KeptKeeps
<1>4. ToSet(kept) = Taken
  <2>1. ToSet(pending) = {}
    BY DEF ToSet
  <2>2. ToSet(lines) = Others(Referred \cap Lines)
    BY <1>1, <2>1 DEF Following, Others
  <2> QED  BY <1>3, <2>2 DEF Taken, Others
<1>5. PICK n, m : n = Len(kept) /\ m = Min({n, MAX_REQUIREMENTS})
  OBVIOUS
<1>6. n \in Nat /\ MAX_REQUIREMENTS \in Nat /\ DOMAIN kept = 1 .. n
  BY <1>3, <1>5, DetectionAssumption
<1>7. Cardinality(Taken) = n
  BY <1>3, <1>4, <1>5, InjectiveLength
<1>8. m = IF n <= MAX_REQUIREMENTS THEN n ELSE MAX_REQUIREMENTS
  BY <1>5, <1>6, MinOfTwo
<1>9. Min({MAX_REQUIREMENTS, n}) = m
  BY <1>6, <1>8, MinOfTwo
<1>10. PICK r : r = Cleaned
  OBVIOUS
<1>11. r = SubSeq(kept, 1, m)
  BY <1>2, <1>5, <1>10 DEF Cleaned
<1>12. m \in 0 .. n
  BY <1>6, <1>8
<1>13. Len(r) = m /\ DOMAIN r = 1 .. m /\ \A i \in 1 .. m : r[i] = kept[i]
  <2>1. m \in Int /\ \A i \in 1 .. m : kept[i] \in Lines
    BY <1>3, <1>6, <1>12
  <2>2. /\ SubSeq(kept, 1, m) \in Seq(Lines)
        /\ Len(SubSeq(kept, 1, m)) = IF 1 <= m THEN m - 1 + 1 ELSE 0
        /\ \A i \in 1 .. m - 1 + 1 : SubSeq(kept, 1, m)[i] = kept[1 + i - 1]
    BY <2>1, SubSeqProperties
  <2>3. m - 1 + 1 = m /\ \A i \in 1 .. m : 1 + i - 1 = i
    BY <2>1
  <2>4. r \in Seq(Lines) /\ Len(r) = m
    BY <1>6, <1>11, <1>12, <2>2, <2>3
  <2> QED  BY <1>11, <2>2, <2>3, <2>4
<1>14. \A i \in 1 .. m : i \in 1 .. n
  BY <1>6, <1>12
<1>15. \A i, j \in 1 .. m : r[i] = r[j] => i = j
  BY <1>3, <1>6, <1>13, <1>14 DEF IsInjective
<1>16. ToSet(r) \subseteq ToSet(kept)
  BY <1>6, <1>13, <1>14 DEF ToSet
<1> QED  BY <1>4, <1>7, <1>9, <1>10, <1>13, <1>15, <1>16

-----------------------------------------------------------------------------
LEMMA DetectInitInv == DetectInit => DetectInv
<1>1. <<>> \in Seq(Lines)
  OBVIOUS
<1> QED  BY <1>1 DEF DetectInit, DetectInv, DetectStages, Undecided, NotRun

LEMMA ScanInv ==
  ASSUME DetectInv, Scan
  PROVE  DetectInv'
<1>1. PICK p \in 0 .. tree.pythonTests, j \in 0 .. tree.jsTests : counted' = [python |-> p, javascript |-> j]
  BY DEF Scan
<1>2. tree \in Trees /\ detectAt = "scan"
  BY DEF DetectInv, Scan
<1>3. p \in Nat /\ j \in Nat
  BY <1>2, TreeShape
<1>4. counted'.python \in Nat /\ counted'.javascript \in Nat
  BY <1>1, <1>3
<1> QED  BY <1>2, <1>4 DEF DetectInv, Scan, expandVars, DetectStages

LEMMA DetectPythonInv ==
  ASSUME DetectInv, DetectPython
  PROVE  DetectInv'
<1>1. tree \in Trees /\ detectAt = "python" /\ lines = <<>>
  BY DEF DetectInv, DetectPython
<1>2. CASE ~tree.pytestConfig /\ counted.python = 0
  BY <1>1, <1>2 DEF DetectInv, DetectPython, DetectStages
<1>3. CASE ~(~tree.pytestConfig /\ counted.python = 0)
  <2>1. pending' = RawRequirements /\ detectAt' = "expand" /\ UNCHANGED <<tree, python, counted, expanded, lines, javascript, detection>>
    BY <1>3 DEF DetectPython
  <2>2. pending' \in Seq(Lines) /\ ToSet(pending') = Referred \cap Lines
    BY <1>1, <2>1, RawIsGiven
  <2>3. Others(ToSet(pending))' = Others(ToSet(pending')) /\ Others(Referred \cap Lines)' = Others(Referred \cap Lines)
    BY <2>1 DEF Others, Referred, GroupsRead
  <2>4. ToSet(lines') = {} /\ IsInjective(lines')
    BY <1>1, <2>1 DEF ToSet, IsInjective
  <2>5. Following'
    BY <2>2, <2>3, <2>4 DEF Following
  <2> QED  BY <1>1, <2>1, <2>2, <2>5 DEF DetectInv, DetectStages
<1> QED  BY <1>2, <1>3

LEMMA ExpandInv ==
  ASSUME DetectInv, Expand
  PROVE  DetectInv'
<1>1. detectAt = "expand" /\ UNCHANGED <<tree, detectAt, counted, python, javascript, detection>>
  BY DEF Expand
<1>2. pending' \in Seq(Lines) /\ lines' \in Seq(Lines) /\ Following'
  BY ExpandFollows
<1> QED  BY <1>1, <1>2 DEF DetectInv

LEMMA PythonFoundInv ==
  ASSUME DetectInv, PythonFound
  PROVE  DetectInv'
<1>1. detectAt = "expand" /\ pending = <<>> /\ detectAt' = "javascript"
      /\ UNCHANGED <<tree, counted, pending, expanded, lines, javascript, detection>>
      /\ python' = [found |-> TRUE, why |-> "python", requirements |-> Cleaned, setup |-> tree.installable]
  BY DEF PythonFound, expandVars
<1>2. PICK r : r = Cleaned
  OBVIOUS
<1>3. /\ \A i, j \in 1 .. Len(r) : r[i] = r[j] => i = j
      /\ ToSet(r) \subseteq Taken
      /\ Len(r) = Min({MAX_REQUIREMENTS, Cardinality(Taken)})
  BY <1>1, <1>2, CleanedIsSound
<1>4. Taken' = Taken
  BY <1>1 DEF Taken, Others, Referred, GroupsRead
<1>5. python'.found = TRUE /\ python'.why = "python" /\ python'.requirements = r
  BY <1>1, <1>2
<1>6. PythonIsSound'
  BY <1>3, <1>4, <1>5 DEF PythonIsSound
<1> QED  BY <1>1, <1>6 DEF DetectInv, DetectStages

LEMMA DetectJavaScriptInv ==
  ASSUME DetectInv, DetectJavaScript
  PROVE  DetectInv'
<1>1. detectAt = "javascript" /\ detectAt' = "choose"
      /\ UNCHANGED <<tree, counted, pending, expanded, lines, python, detection>>
  BY DEF DetectJavaScript, expandVars
<1>2. javascript' = IF tree.package = "absent" THEN None ELSE IF Refusal # "none" THEN NotRun(Refusal)
                    ELSE [found |-> TRUE, why |-> "javascript", manager |-> Manager, fetcher |-> Fetcher]
  BY DEF DetectJavaScript
<1>3. javascript'.found = FALSE \/ JavaScriptIsSound'
  <2>1. CASE tree.package = "absent"
    BY <1>2, <2>1 DEF None
  <2>2. CASE tree.package # "absent" /\ Refusal # "none"
    BY <1>2, <2>2 DEF NotRun
  <2>3. CASE tree.package # "absent" /\ Refusal = "none"
    <3>1. PICK fetcher, manager : fetcher = Fetcher /\ manager = Manager
      OBVIOUS
    <3>2. javascript' = [found |-> TRUE, why |-> "javascript", manager |-> manager, fetcher |-> fetcher]
      BY <1>2, <2>3, <3>1
    <3>3. ForeignSources = {}
      <4>1. tree.package = "suite"
        BY <1>1, <2>3, TreeShape DEF Refusal, DetectInv
      <4> QED  BY <2>3, <4>1 DEF Refusal
    <3>4. Manager' = Manager /\ ForeignSources' = ForeignSources
      BY <1>1 DEF Manager, ForeignSources
    <3> QED  BY <3>1, <3>2, <3>3, <3>4 DEF JavaScriptIsSound
  <2> QED  BY <2>1, <2>2, <2>3
<1>4. python' = None \/ PythonIsSound'
  <2>1. Taken' = Taken
    BY <1>1 DEF Taken, Others, Referred, GroupsRead
  <2> QED  BY <1>1, <2>1 DEF DetectInv, PythonIsSound, None, NotRun
<1> QED  BY <1>1, <1>3, <1>4 DEF DetectInv, DetectStages

LEMMA ChooseInv ==
  ASSUME DetectInv, Choose
  PROVE  DetectInv'
<1>1. detectAt = "choose" /\ detectAt' = "done" /\ detection' = Chosen
      /\ UNCHANGED <<tree, counted, pending, expanded, lines, python, javascript>>
  BY DEF Choose, expandVars
<1>2. Taken' = Taken /\ Manager' = Manager /\ ForeignSources' = ForeignSources /\ Chosen' = Chosen
  BY <1>1 DEF Taken, Others, Referred, GroupsRead, Manager, ForeignSources, Chosen, NotRun, None
<1> QED  BY <1>1, <1>2 DEF DetectInv, DetectStages, PythonIsSound, JavaScriptIsSound, None, NotRun

LEMMA DetectRest ==
  ASSUME DetectInv, UNCHANGED detectVars
  PROVE  DetectInv'
<1>1. UNCHANGED <<tree, detectAt, counted, pending, expanded, lines, python, javascript, detection>>
  BY DEF detectVars, expandVars
<1>2. Taken' = Taken /\ Manager' = Manager /\ ForeignSources' = ForeignSources /\ Chosen' = Chosen
  BY <1>1 DEF Taken, Others, Referred, GroupsRead, Manager, ForeignSources, Chosen, NotRun, None
<1>3. Following' = Following
  BY <1>1 DEF Following, Others, Referred, GroupsRead
<1> QED  BY <1>1, <1>2, <1>3 DEF DetectInv, PythonIsSound, JavaScriptIsSound, None, NotRun

(* A lockfile of another manager than the first that left one.             *)
LEMMA ManagerIsTold ==
  ASSUME tree \in Trees
  PROVE  /\ tree.declared \in {"npm", "pnpm", "yarn"} => Manager = tree.declared
         /\ tree.declared = "none" /\ tree.lockfiles # {} => Manager \in tree.lockfiles
<1>1. tree.declared \in {"npm", "pnpm", "yarn"} => Manager = tree.declared
  BY DEF Manager
<1>2. ASSUME tree.declared = "none", tree.lockfiles # {}
      PROVE  Manager \in tree.lockfiles
  <2>. DEFINE S == {i \in 1 .. Len(ManagerOrder) : ManagerOrder[i] \in tree.lockfiles}
  <2>1. Len(ManagerOrder) = 4 /\ DOMAIN ManagerOrder = 1 .. 4
    BY DEF ManagerOrder
  <2>2. PICK f \in tree.lockfiles : TRUE
    BY <1>2
  <2>3. PICK i \in 1 .. 4 : ManagerOrder[i] = f
    BY <2>1, <2>2, TreeShape DEF ToSet
  <2>4. S \in SUBSET Nat /\ S # {}
    BY <2>1, <2>2, <2>3
  <2>5. Min(S) \in S
    BY <2>4, MinIsLeast
  <2> QED  BY <1>2, <2>5 DEF Manager
<1> QED  BY <1>1, <1>2

LEMMA DetectInvHolds == DetectSpec => []DetectInv
<1>1. DetectInit => DetectInv
  BY DetectInitInv
<1>2. ASSUME DetectInv, [DetectNext]_detectVars
      PROVE  DetectInv'
  <2>1. CASE Scan
    BY <1>2, <2>1, ScanInv
  <2>2. CASE DetectPython
    BY <1>2, <2>2, DetectPythonInv
  <2>3. CASE Expand
    BY <1>2, <2>3, ExpandInv
  <2>4. CASE PythonFound
    BY <1>2, <2>4, PythonFoundInv
  <2>5. CASE DetectJavaScript
    BY <1>2, <2>5, DetectJavaScriptInv
  <2>6. CASE Choose
    BY <1>2, <2>6, ChooseInv
  <2>7. CASE UNCHANGED detectVars
    BY <1>2, <2>7, DetectRest
  <2> QED  BY <1>2, <2>1, <2>2, <2>3, <2>4, <2>5, <2>6, <2>7 DEF DetectNext
<1> QED  BY <1>1, <1>2, PTL DEF DetectSpec

(* What is taken is what is wanted, and lines that hide the name.          *)
LEMMA TakenIs ==
  ASSUME tree \in Trees
  PROVE  Taken = Wanted \cup Misread
<1>1. \A line \in Lines : SplitName[line] # NameOf[line] => SplitName[line] # tree.ownName
  BY DetectionAssumption
<1>2. \A line \in Lines :
        SplitName[line] # tree.ownName <=>
          \/ NameOf[line] # tree.ownName
          \/ NameOf[line] = tree.ownName /\ SplitName[line] # NameOf[line]
  BY <1>1
<1> QED  BY <1>2 DEF Taken, Others, Wanted, Misread

(* Detection, for every repository.                                        *)
LEMMA InvIsSound ==
  ASSUME DetectInv
  PROVE  DetectionIsSound
<1>1. SUFFICES ASSUME detectAt = "done"
               PROVE  DetectionIsSound
  BY DEF DetectionIsSound
<1>2. /\ tree \in Trees /\ detection = Chosen
      /\ counted.python \in Nat /\ counted.javascript \in Nat
      /\ python = None \/ PythonIsSound
      /\ javascript.found = FALSE \/ JavaScriptIsSound
  BY <1>1 DEF DetectInv
<1>3. None.found = FALSE /\ \A why : NotRun(why).found = FALSE
  BY DEF None, NotRun
<1>4. PythonIsSound => python.found = TRUE /\ python.why = "python"
  BY DEF PythonIsSound
<1>5. JavaScriptIsSound => javascript.found = TRUE /\ javascript.manager = Manager /\ ForeignSources = {}
  BY DEF JavaScriptIsSound
<1>6. (detection = python /\ PythonIsSound) \/ detection = javascript \/ detection = NotRun(tree.otherLanguage)
  BY <1>2, <1>3, <1>4 DEF Chosen
<1>7. detection.found <=> (python.found \/ javascript.found)
  BY <1>2, <1>3, <1>4, <1>5 DEF Chosen
<1>8. python.found /\ javascript.found =>
        detection = IF counted.python < counted.javascript THEN javascript ELSE python
  BY <1>2, <1>3, <1>4 DEF Chosen
<1>9. detection.found /\ detection.why = "javascript" =>
         /\ tree.foreign \cap (SectionsRead \cup {detection.manager}) = {}
         /\ tree.declared \in {"npm", "pnpm", "yarn"} => detection.manager = tree.declared
         /\ tree.declared = "none" /\ tree.lockfiles # {} => detection.manager \in tree.lockfiles
  <2>1. SUFFICES ASSUME detection.found, detection.why = "javascript"
                 PROVE  /\ tree.foreign \cap (SectionsRead \cup {detection.manager}) = {}
                        /\ tree.declared \in {"npm", "pnpm", "yarn"} => detection.manager = tree.declared
                        /\ tree.declared = "none" /\ tree.lockfiles # {} => detection.manager \in tree.lockfiles
    OBVIOUS
  <2>2. detection = javascript
    BY <1>3, <1>4, <1>6, <2>1
  <2>3. detection.manager = Manager /\ ForeignSources = {}
    BY <1>2, <1>5, <2>1, <2>2
  <2> QED  BY <1>2, <2>3, ManagerIsTold DEF ForeignSources
<1>10. python.found =>
         LET r == python.requirements
         IN  /\ \A i, j \in 1 .. Len(r) : r[i] = r[j] => i = j
             /\ ToSet(r) \subseteq Wanted \cup Misread
             /\ Len(r) = Min({MAX_REQUIREMENTS, Cardinality(Wanted \cup Misread)})
  BY <1>2, <1>3, TakenIs DEF PythonIsSound
<1> QED  BY <1>7, <1>8, <1>9, <1>10 DEF DetectionIsSound

(* Whatever a repository says of itself, in groups and files that include  *)
(* each other round in circles, and extras that ask for extras: a suite    *)
(* that can be run is not hidden by one that cannot, nothing is fetched    *)
(* when a section or the lockfile that is read names a source of its own,  *)
(* and what is fetched is all that its metadata names, once, up to the cap *)
(* (detect, _python_requirements, _expand_self, _clean, _foreign_sources). *)
THEOREM DetectionSound == DetectSpec => []DetectionIsSound
<1>1. DetectInv => DetectionIsSound
  BY InvIsSound
<1> QED  BY <1>1, DetectInvHolds, PTL
==============================================================================
