------------------------------- MODULE Replay -------------------------------
(***************************************************************************)
(* Replay batches (jobs/replay.py over db/reviews.py): drafts made over    *)
(* pull requests that were merged long ago, in named batches.              *)
(*                                                                         *)
(* A job reads which pull requests other batches have claimed, chooses its *)
(* own from the rest in an order the batch name fixes, and walks them:     *)
(* claim, review, then finish or, when the providers are spent, release    *)
(* and stop.  Jobs of different batches run at once.  Jobs of one batch    *)
(* run one at a time when they were named alike (the concurrency group of  *)
(* replay.yml): a push of the branch replay/b and a dispatch of b are two  *)
(* groups and one batch.  A job may raise or be killed at any step.        *)
(***************************************************************************)
EXTENDS Integers, Sequences, FiniteSets

CONSTANTS
  Jobs,        \* runs of the replay workflow
  BatchNames,  \* names of batches
  Groups,      \* how a batch may be named: by its branch, or as it is called
  Pulls,       \* the pull requests of the pairs
  RepoOf,      \* the repository of each
  Shuffle,        \* the shuffle of each batch name: Shuffle[b] orders Pulls and repos
  CompareTo,   \* --compare: the earlier batches each batch reads again
  Count,       \* --pulls
  MaxDeaths,   \* jobs that raise or are killed
  MaxSpent     \* reviews that find the providers spent

Repos == {RepoOf[p] : p \in Pulls}

ASSUME ReplayAssumption ==
  /\ Count \in Nat \ {0} /\ MaxDeaths \in Nat /\ MaxSpent \in Nat
  /\ IsFiniteSet(Pulls)
  /\ Shuffle \in [BatchNames -> [Pulls \cup Repos -> Nat]]
  /\ CompareTo \in [BatchNames -> Seq(BatchNames)]
  /\ RepoOf \in [Pulls -> Repos]
  /\ \A b \in BatchNames : \A x, y \in Pulls : Shuffle[b][x] = Shuffle[b][y] => x = y
  /\ \A b \in BatchNames : \A x, y \in Repos : Shuffle[b][x] = Shuffle[b][y] => x = y
  /\ "none" \notin Jobs \cup BatchNames \cup Groups

(* A row of review_runs: who inserted it and whether it has its result.    *)
VARIABLES
  reviewRuns,        \* review_runs by batch and pull request
  batch,       \* the batch a job is for, or "none" before it starts
  via,         \* its group, likewise
  jobAt,          \* where each job is
  chosen,      \* the pull requests a job chose, in order
  pos,         \* the one it is on
  reviews,     \* how often each pull request was drafted for each batch
  deaths, spent

replayVars == <<reviewRuns, batch, via, jobAt, chosen, pos, reviews, deaths, spent>>
jobVars == <<batch, via, chosen, pos>>

Free == [job |-> "none", finished |-> FALSE]
RunRow == [job : Jobs, finished : BOOLEAN]
PC == {"idle", "claim", "review", "finish", "release", "done", "stopped", "dead"}
Running(j) == jobAt[j] \in {"claim", "review", "finish", "release"}

ReplayTypeOK ==
  /\ reviewRuns \in [BatchNames -> [Pulls -> RunRow \cup {Free}]]
  /\ batch \in [Jobs -> BatchNames \cup {"none"}]
  /\ via \in [Jobs -> Groups \cup {"none"}]
  /\ jobAt \in [Jobs -> PC]
  /\ chosen \in [Jobs -> Seq(Pulls)]
  /\ \A j \in Jobs : pos[j] \in 1 .. Len(chosen[j]) + 1
  /\ reviews \in [BatchNames -> [Pulls -> Nat]]
  /\ deaths \in 0 .. MaxDeaths
  /\ spent \in 0 .. MaxSpent

ReplayInit ==
  /\ reviewRuns = [b \in BatchNames |-> [p \in Pulls |-> Free]]
  /\ batch = [j \in Jobs |-> "none"] /\ via = [j \in Jobs |-> "none"]
  /\ jobAt = [j \in Jobs |-> "idle"]
  /\ chosen = [j \in Jobs |-> <<>>]
  /\ pos = [j \in Jobs |-> 1]
  /\ reviews = [b \in BatchNames |-> [p \in Pulls |-> 0]]
  /\ deaths = 0
  /\ spent = 0

-----------------------------------------------------------------------------
(***************************************************************************)
(* choose(): round robin over the repositories, each one's queue and the   *)
(* repositories themselves in the order of the batch.                      *)
(***************************************************************************)
Turn(b, open, p) ==
  Cardinality({q \in open : RepoOf[q] = RepoOf[p] /\ Shuffle[b][q] < Shuffle[b][p]})

Ahead(b, open, p, q) ==
  \/ Turn(b, open, p) < Turn(b, open, q)
  \/ /\ Turn(b, open, p) = Turn(b, open, q)
     /\ Shuffle[b][RepoOf[p]] < Shuffle[b][RepoOf[q]]

(* The first Count pull requests not excluded.                             *)
FirstOf(exclude, Before(_, _, _)) ==
  LET open == Pulls \ exclude
      n == IF Cardinality(open) < Count THEN Cardinality(open) ELSE Count
  IN  [i \in 1 .. n |->
         CHOOSE p \in open : Cardinality({q \in open : Before(open, q, p)}) = i - 1]

Choose(b, exclude) ==
  FirstOf(exclude, LAMBDA open, q, p : Ahead(b, open, q, p))

(* Every pull request another batch has a row for, finished or not, except *)
(* the batches this one is compared to.  The comparison also lends its     *)
(* shuffle.  Mutant first: the compared batches are not left out.          *)
ReplayedElsewhereAll(b) ==
  {p \in Pulls : \E other \in BatchNames \ {b} : reviewRuns[other][p] # Free}

Compared(b) == {CompareTo[b][i] : i \in 1 .. Len(CompareTo[b])}

ReplayedElsewhere(b) ==
  {p \in Pulls :
     \E other \in BatchNames \ ({b} \cup Compared(b)) : reviewRuns[other][p] # Free}

Seed(b) == IF CompareTo[b] = <<>> THEN b ELSE CompareTo[b][1]

-----------------------------------------------------------------------------
Goto(j, where) == jobAt' = [jobAt EXCEPT ![j] = where]
Pull(j) == chosen[j][pos[j]]
RowOf(j) == reviewRuns[batch[j]][Pull(j)]

(* Mutant: the one after each is skipped.                                  *)
NextButOne(j) ==
  /\ pos' = [pos EXCEPT ![j] = @ + 2]
  /\ Goto(j, IF pos[j] < Len(chosen[j]) THEN "claim" ELSE "done")

NextPull(j) ==
  /\ pos' = [pos EXCEPT ![j] = @ + 1]
  /\ Goto(j, IF pos[j] < Len(chosen[j]) THEN "claim" ELSE "done")

Start(j, b, group) ==
  /\ jobAt[j] = "idle"
  /\ ~ \E k \in Jobs : batch[k] = b /\ via[k] = group /\ Running(k)
  /\ batch' = [batch EXCEPT ![j] = b]
  /\ via' = [via EXCEPT ![j] = group]
  /\ chosen' = [chosen EXCEPT ![j] = Choose(Seed(b), ReplayedElsewhere(b))]
  /\ Goto(j, IF chosen'[j] = <<>> THEN "done" ELSE "claim")
  /\ UNCHANGED <<reviewRuns, pos, reviews, deaths, spent>>

(* Mutant: a claim that conflicts is taken for one that worked.            *)
ClaimAnyway(j) ==
  /\ jobAt[j] = "claim"
  /\ reviewRuns' = [reviewRuns EXCEPT ![batch[j]][Pull(j)] = [job |-> j, finished |-> FALSE]]
  /\ Goto(j, "review")
  /\ UNCHANGED <<jobVars, reviews, deaths, spent>>

(* The partial unique index decides; None skips to the next pull request.  *)
Claim(j) ==
  /\ jobAt[j] = "claim"
  /\ IF RowOf(j) = Free
       THEN /\ reviewRuns' = [reviewRuns EXCEPT ![batch[j]][Pull(j)] = [job |-> j, finished |-> FALSE]]
            /\ Goto(j, "review")
            /\ UNCHANGED pos
       ELSE NextPull(j) /\ UNCHANGED reviewRuns
  /\ UNCHANGED <<batch, via, chosen, reviews, deaths, spent>>

(* replay_one: a result, be it a failed fetch or silence, or spent_the_day. *)
ReviewOne(j) ==
  /\ jobAt[j] = "review"
  /\ \/ /\ Goto(j, "finish")
        /\ reviews' = [reviews EXCEPT ![batch[j]][Pull(j)] = @ + 1]
        /\ UNCHANGED spent
     \/ /\ spent < MaxSpent
        /\ spent' = spent + 1
        /\ Goto(j, "release")
        /\ UNCHANGED reviews
  /\ UNCHANGED <<reviewRuns, jobVars, deaths>>

FinishOne(j) ==
  /\ jobAt[j] = "finish"
  /\ reviewRuns' = [reviewRuns EXCEPT ![batch[j]][Pull(j)].finished = TRUE]
  /\ NextPull(j)
  /\ UNCHANGED <<batch, via, chosen, reviews, deaths, spent>>

Release(j) ==
  /\ jobAt[j] = "release"
  /\ reviewRuns' = IF RowOf(j) = [job |-> j, finished |-> FALSE]
               THEN [reviewRuns EXCEPT ![batch[j]][Pull(j)] = Free]
               ELSE reviewRuns
  /\ Goto(j, "stopped")
  /\ UNCHANGED <<jobVars, reviews, deaths, spent>>

Die(j) ==
  /\ Running(j)
  /\ deaths < MaxDeaths
  /\ deaths' = deaths + 1
  /\ Goto(j, "dead")
  /\ UNCHANGED <<reviewRuns, jobVars, reviews, spent>>

Step(j) == Claim(j) \/ ReviewOne(j) \/ FinishOne(j) \/ Release(j)

ReplayNext ==
  \/ \E j \in Jobs : \E b \in BatchNames : \E group \in Groups : Start(j, b, group)
  \/ \E j \in Jobs : Step(j)
  \/ \E j \in Jobs : Die(j)

ReplaySpec == ReplayInit /\ [][ReplayNext]_replayVars

-----------------------------------------------------------------------------
(***************************************************************************)
(* Safety.                                                                 *)
(***************************************************************************)

(* A pull request a job has gone past is settled, or was left to a job of  *)
(* the other group that held it then and gave it up since.                 *)
IsSettled(row) == row # Free /\ (row.finished \/ jobAt[row.job] = "dead")

GivenUp(j, p) ==
  \E k \in Jobs : /\ batch[k] = batch[j] /\ via[k] # via[j]
                  /\ jobAt[k] = "stopped" /\ Pull(k) = p

(* "Draft each pull request once" (reviews.claim): within a batch no pull  *)
(* request is drafted twice, however often the batch is run again and by   *)
(* two jobs at once, and none that a job chose is forgotten: when no job   *)
(* of the batch is running and one went through its whole list, each pull  *)
(* request of the list has its result, or its row is that of a job that    *)
(* died holding it, or a job of the other group that was on it stopped     *)
(* because the providers were spent; and such a job leaves no row behind.  *)
DraftedOnce ==
  /\ \A b \in BatchNames : \A p \in Pulls :
       /\ reviews[b][p] <= 1
       /\ LET row == reviewRuns[b][p]
          IN  row # Free /\ ~row.finished => \/ jobAt[row.job] = "dead"
                                             \/ Running(row.job) /\ Pull(row.job) = p
  /\ \A j \in Jobs :
       jobAt[j] = "done" /\ ~(\E k \in Jobs : batch[k] = batch[j] /\ Running(k)) =>
         \A i \in 1 .. Len(chosen[j]) :
           IsSettled(reviewRuns[batch[j]][chosen[j][i]]) \/ GivenUp(j, chosen[j][i])

InList(list, p) == \E i \in 1 .. Len(list) : list[i] = p

Taken(list, r) == {p \in Pulls : RepoOf[p] = r /\ InList(list, p)}

Given(exclude, r) == {p \in Pulls \ exclude : RepoOf[p] = r}

(* A job takes two pull requests more from one repository than from        *)
(* another only when the other has no more to give.                        *)
IsSpread(list, exclude) ==
  \A r, s \in Repos :
    Cardinality(Taken(list, r)) > Cardinality(Taken(list, s)) + 1 =>
      Taken(list, s) = Given(exclude, s)

(* It reads again everything the batch it is compared to drafted, but what *)
(* another batch, that it is not compared to, has claimed as well.         *)
ReadsAgain(list, b) ==
  \A p \in Pulls :
    /\ reviewRuns[Seed(b)][p].finished
    /\ \A third \in BatchNames \ ({b} \cup Compared(b)) : reviewRuns[third][p] = Free
    => InList(list, p)

ChoseAlike(b) ==
  \A j, k \in Jobs : batch[j] = b /\ batch[k] = b => chosen[j] = chosen[k]

(* "The third measurement in a series has to leave out the first two": the *)
(* first is compared to nothing, and the second read what the first did.   *)
InSeries(b) ==
  /\ Seed(Seed(b)) = Seed(b)
  /\ \A c \in Compared(b) : \A p \in Pulls :
       reviewRuns[c][p] = Free \/ reviewRuns[Seed(b)][p] # Free

(* The first job of a batch, while no claim was released, which opens a    *)
(* pull request that was closed to the compared batch.  With two batches   *)
(* to compare the jobs of the first must have chosen alike as well: one    *)
(* that is run again after the second started next to it chooses others.   *)
Undisturbed(b) ==
  /\ spent = 0
  /\ \A k \in Jobs : batch[k] # b
  /\ InSeries(b)
  /\ Compared(b) \subseteq {Seed(b)} \/ ChoseAlike(Seed(b))

(* The reading is spread over the repositories, and "with compare, this    *)
(* batch reads the pull requests that batch read": its first job does.     *)
ChoiceIsFair ==
  [][\A j \in Jobs : \A b \in BatchNames : \A group \in Groups : Start(j, b, group) =>
       /\ IsSpread(chosen'[j], ReplayedElsewhere(b))
       /\ Undisturbed(b) => ReadsAgain(chosen'[j], b)]_replayVars

(***************************************************************************)
(* What the documentation says and the code does not do.                   *)
(***************************************************************************)

(* "Re-running a batch after a failure drafts only what is left"           *)
(* (jobs/replay.py): a job that went through its whole list leaves each    *)
(* pull request of it drafted.                                             *)
RerunDraftsWhatIsLeft ==
  \A j \in Jobs : jobAt[j] = "done" =>
    \A i \in 1 .. Len(chosen[j]) : reviewRuns[batch[j]][chosen[j][i]].finished
=============================================================================
