----------------------------- MODULE RecallTable -----------------------------
(***************************************************************************)
(* What is derived from a repository's corpus and kept beside it: vectors  *)
(* in parts (jobs/embed.py, retrieval/embed.py, eval/vectors.py), the      *)
(* first stage, the rerank shards and the recall table (jobs/recall.py),   *)
(* as the jobs of retrieval.yml write them, run after run.                 *)
(*                                                                         *)
(* A matrix fans out one job a part and one job a shard; a job may fail at *)
(* any step, a stage after a failure is skipped, and a later run picks up  *)
(* what there is.  Runs of this workflow queue.  Mining runs of mine.yml   *)
(* do not: the corpus may move between two jobs, or between the manifest   *)
(* and the shards one job reads.  A job reads the manifest first, which    *)
(* gives the fingerprint, and the text after it.                           *)
(***************************************************************************)
EXTENDS Integers, FiniteSets

CONSTANTS
  Corpora,        \* versions of the corpus; 0 is before it was ever mined
  CandidatesOf,   \* the candidate lists the first stage finds in each
  HasGold,        \* the versions that still hold every gold of the frozen pairs
  Parts, Shards,  \* the matrices of jobs/plan.py
  MaxTableRuns, MaxMinings, MaxJobFailures,
  Missing         \* a file that is not there

FirstStage == "first-stage"
Table == "table"
JobNames == Parts \cup Shards \cup {FirstStage, Table}

(* What each file holds, if it is there.                                   *)
CandidateLists == {CandidatesOf[c] : c \in Corpora}
PartFile == [fingerprint : Corpora, text : Corpora]
FirstFile == [run : Nat, fingerprint : Corpora, text : Corpora,
              vectors : [Parts -> Corpora \cup {Missing}],
              candidates : CandidateLists, changes : Nat \ {0}]
ShardFile == [candidates : CandidateLists, text : Corpora, times : Nat \ {0}]

ASSUME TableAssumption ==
  /\ IsFiniteSet(Corpora) /\ HasGold \subseteq Corpora
  /\ DOMAIN CandidatesOf = Corpora
  /\ IsFiniteSet(Parts) /\ IsFiniteSet(Shards) /\ Parts \cap Shards = {}
  /\ {FirstStage, Table} \cap (Parts \cup Shards) = {}
  /\ MaxTableRuns \in Nat /\ MaxMinings \in Nat /\ MaxJobFailures \in Nat
  /\ Missing \notin Corpora \cup PartFile \cup FirstFile \cup ShardFile

VARIABLES
  store,       \* "local" or "hub", for the whole behaviour
  corpus,      \* the version in the store
  vectors,     \* the .npz of each part: fingerprint within, and the text embedded
  marks,       \* the .fingerprint beside it
  first,       \* first-stage.json: run, fingerprint, text, text of the vectors, candidates;
               \* changes counts the candidate lists there have been
  shardScores,      \* the scores of each shard: candidates_sha256, the text scored, how often
  table,       \* recall-table.json: the first stage and the texts its shards scored
  job,         \* where each job of the current run is
  hold,        \* what a job has read: the manifest, then the text
  runs, minings, failures,
  torn         \* whether a job ever read a manifest and the shards of another

derivedVars == <<vectors, marks, first, shardScores, table>>
tableVars == <<store, corpus, derivedVars, job, hold, runs, minings, failures, torn>>

States == {"idle", "waiting", "manifest", "text", "write", "mark", "done", "failed", "skipped"}
OverStates == {"idle", "done", "failed", "skipped"}
NoHold == [manifest |-> Missing, text |-> Missing]

TableTypeOK ==
  /\ store \in {"local", "hub"} /\ corpus \in Corpora
  /\ vectors \in [Parts -> PartFile \cup {Missing}]
  /\ marks \in [Parts -> Corpora \cup {Missing}]
  /\ first = Missing \/ first.text \in Corpora
  /\ \A s \in Shards : shardScores[s] = Missing \/ shardScores[s].text \in Corpora
  /\ table = Missing \/ DOMAIN table.scored = Shards
  /\ job \in [JobNames -> States]
  /\ hold \in [JobNames -> [manifest : Corpora \cup {Missing}, text : Corpora \cup {Missing}]]
  /\ runs \in 0 .. MaxTableRuns /\ minings \in 0 .. MaxMinings
  /\ failures \in 0 .. MaxJobFailures
  /\ torn \in BOOLEAN

TableInit ==
  /\ store \in {"local", "hub"}
  /\ corpus \in Corpora
  /\ vectors = [p \in Parts |-> Missing]
  /\ marks = [p \in Parts |-> Missing]
  /\ first = Missing
  /\ shardScores = [s \in Shards |-> Missing]
  /\ table = Missing
  /\ job = [j \in JobNames |-> "idle"]
  /\ hold = [j \in JobNames |-> NoHold]
  /\ runs = 0 /\ minings = 0 /\ failures = 0
  /\ torn = FALSE

-----------------------------------------------------------------------------
Become(j, state) == job' = [job EXCEPT ![j] = state]
AllOver(jobs) == \A j \in jobs : job[j] \in OverStates

(* A dispatch with stage all, embed or recall, when the group is free.  A  *)
(* stage that was not asked for is skipped.                                *)
Dispatch(stage) ==
  /\ AllOver(JobNames)
  /\ runs < MaxTableRuns
  /\ runs' = runs + 1
  /\ job' = [j \in JobNames |->
               IF j \in Parts THEN IF stage = "recall" THEN "skipped" ELSE "waiting"
               ELSE IF stage = "embed" THEN "skipped" ELSE "waiting"]
  /\ hold' = [j \in JobNames |-> NoHold]
  /\ UNCHANGED <<store, corpus, derivedVars, minings, failures, torn>>

(* needs: the stage before is over and no job of it failed.                *)
Needs(j) ==
  CASE j \in Parts     -> {}
    [] j = FirstStage  -> Parts
    [] j \in Shards    -> Parts \cup {FirstStage}
    [] j = Table       -> Parts \cup {FirstStage} \cup Shards

StartJob(j) ==
  /\ job[j] = "waiting" /\ AllOver(Needs(j))
  /\ Become(j, IF \E k \in Needs(j) : job[k] = "failed" THEN "skipped" ELSE "manifest")
  /\ UNCHANGED <<store, corpus, derivedVars, hold, runs, minings, failures, torn>>

FailJob(j) ==
  /\ Become(j, "failed")
  /\ UNCHANGED <<store, corpus, derivedVars, hold, runs, minings, torn>>

(* An error of the job's own, as against one it meets.                     *)
Refused(j) == FailJob(j) /\ UNCHANGED failures

JobFails(j) ==
  /\ job[j] \in {"manifest", "text", "write", "mark"}
  /\ failures < MaxJobFailures /\ failures' = failures + 1
  /\ FailJob(j)

Mine(c) ==
  /\ minings < MaxMinings /\ c # corpus
  /\ corpus' = c /\ minings' = minings + 1
  /\ UNCHANGED <<store, derivedVars, job, hold, runs, failures, torn>>

(* read_corpus: the manifest of the moment, then the shards of a later.    *)
Read(j, what, next) ==
  /\ hold' = [hold EXCEPT ![j][what] = corpus]
  /\ Become(j, next)
  /\ torn' = (torn \/ (what = "text" /\ corpus # hold[j].manifest))
  /\ UNCHANGED <<store, corpus, derivedVars, runs, minings, failures>>

-----------------------------------------------------------------------------
(* A part's fingerprint is that of the manifest, with its model, window    *)
(* and place, which do not change here.                                    *)
EmbedManifest(p) == p \in Parts /\ job[p] = "manifest" /\ Read(p, "manifest", "text")
EmbedText(p) == p \in Parts /\ job[p] = "text" /\ Read(p, "text", "write")

(* embed_part: nothing to do if the mark is current; else the vectors and  *)
(* the mark, in one commit, or in two renames of a local directory.        *)
Embed(p) ==
  /\ p \in Parts /\ job[p] = "write"
  /\ IF marks[p] = hold[p].manifest
       THEN Become(p, "done") /\ UNCHANGED <<vectors, marks>>
       ELSE /\ vectors' = [vectors EXCEPT ![p] = [fingerprint |-> hold[p].manifest, text |-> hold[p].text]]
            /\ IF store = "hub"
                 THEN marks' = [marks EXCEPT ![p] = hold[p].manifest] /\ Become(p, "done")
                 ELSE UNCHANGED marks /\ Become(p, "mark")
  /\ UNCHANGED <<store, corpus, first, shardScores, table, hold, runs, minings, failures, torn>>

Mark(p) ==
  /\ p \in Parts /\ job[p] = "mark"
  /\ marks' = [marks EXCEPT ![p] = hold[p].manifest]
  /\ Become(p, "done")
  /\ UNCHANGED <<store, corpus, vectors, first, shardScores, table, hold, runs, minings, failures, torn>>

FirstManifest == job[FirstStage] = "manifest" /\ Read(FirstStage, "manifest", "text")
FirstText == job[FirstStage] = "text" /\ Read(FirstStage, "text", "write")

(* Mutant: load_part takes what it finds.                                  *)
LoadsAny(p, fingerprint) == vectors[p] # Missing

(* load_part refuses a part that was made from another corpus.             *)
Loads(p, fingerprint) == vectors[p] # Missing /\ vectors[p].fingerprint = fingerprint

(* Mutant: the digest of the whole file, with the latencies of its run.    *)
DigestOfFile(f) == <<f.candidates, f.run>>

(* rerank_fingerprint.                                                     *)
Digest(f) == f.candidates

(* load finds every gold or raises.  The vectors must cover its documents, *)
(* which those of another text may; the lists they give are then anyone's. *)
WriteFirst ==
  /\ job[FirstStage] = "write"
  /\ LET h == hold[FirstStage]
         used == [p \in Parts |-> IF vectors[p] = Missing THEN Missing ELSE vectors[p].text]
         matching == \A p \in Parts : used[p] = h.text
     IN  \/ /\ h.text \in HasGold /\ \A p \in Parts : Loads(p, h.manifest)
            /\ \E found \in IF matching THEN {CandidatesOf[h.text]}
                           ELSE {CandidatesOf[c] : c \in Corpora} :
                 first' = [run |-> runs, fingerprint |-> h.manifest, text |-> h.text,
                           vectors |-> used, candidates |-> found,
                           changes |-> IF first = Missing THEN 1
                                       ELSE IF first.candidates = found THEN first.changes
                                       ELSE first.changes + 1]
            /\ Become(FirstStage, "done")
            /\ UNCHANGED <<store, corpus, vectors, marks, shardScores, table,
                           hold, runs, minings, failures, torn>>
         \/ /\ h.text \notin HasGold \/ ~matching \/ \E p \in Parts : ~Loads(p, h.manifest)
            /\ Refused(FirstStage)

RerankManifest(s) ==
  /\ s \in Shards /\ job[s] = "manifest"
  /\ IF first = Missing THEN Refused(s)
     ELSE IF shardScores[s] # Missing /\ shardScores[s].candidates = Digest(first)
       THEN Become(s, "done")
            /\ UNCHANGED <<store, corpus, derivedVars, hold, runs, minings, failures, torn>>
       ELSE Read(s, "manifest", "text")
RerankText(s) == s \in Shards /\ job[s] = "text" /\ Read(s, "text", "write")

(* A candidate that the text no longer has is a KeyError.                  *)
Rerank(s) ==
  /\ s \in Shards /\ job[s] = "write"
  /\ LET text == hold[s].text
         times == IF shardScores[s] = Missing THEN 1 ELSE shardScores[s].times + 1
     IN  \/ /\ text \in HasGold
            /\ shardScores' = [shardScores EXCEPT ![s] = [candidates |-> Digest(first), text |-> text, times |-> times]]
            /\ Become(s, "done")
            /\ UNCHANGED <<store, corpus, vectors, marks, first, table, hold, runs, minings, failures, torn>>
         \/ /\ text \notin HasGold \/ text # first.text
            /\ Refused(s)

WriteTable ==
  /\ job[Table] = "manifest"
  /\ IF first # Missing /\ \A s \in Shards : shardScores[s] # Missing /\ shardScores[s].candidates = Digest(first)
       THEN /\ table' = [first |-> first, scored |-> shardScores]
            /\ Become(Table, "done")
            /\ UNCHANGED <<store, corpus, vectors, marks, first, shardScores,
                           hold, runs, minings, failures, torn>>
       ELSE Refused(Table)

PartStep(p) == EmbedManifest(p) \/ EmbedText(p) \/ Embed(p) \/ Mark(p)
ShardStep(s) == RerankManifest(s) \/ RerankText(s) \/ Rerank(s)

TableNext ==
  \/ \E stage \in {"all", "embed", "recall"} : Dispatch(stage)
  \/ \E j \in JobNames : StartJob(j) \/ JobFails(j)
  \/ \E c \in Corpora : Mine(c)
  \/ \E p \in Parts : PartStep(p)
  \/ FirstManifest \/ FirstText \/ WriteFirst
  \/ \E s \in Shards : ShardStep(s)
  \/ WriteTable

TableSpec == TableInit /\ [][TableNext]_tableVars

-----------------------------------------------------------------------------
(* Whatever failed, was re-run or was mined in between: a part and its     *)
(* mark on the Hub "can never be seen apart"; a first stage, and so a      *)
(* table, ranks by vectors of the very text it read, unless some job read  *)
(* across a mining; and a shard is scored no oftener than there were       *)
(* candidate lists ("must not throw away hours of reranking").             *)
TableIsOneStudy ==
  /\ store = "hub" =>
       \A p \in Parts : marks[p] = IF vectors[p] = Missing THEN Missing ELSE vectors[p].fingerprint
  /\ first # Missing =>
       /\ torn \/ \A p \in Parts : first.vectors[p] = first.text
       /\ \A s \in Shards : shardScores[s] = Missing \/ shardScores[s].times <= first.changes
  /\ table # Missing =>
       \A s \in Shards : table.scored[s].candidates = table.first.candidates

(***************************************************************************)
(* What the documentation says and the code does not do.                   *)
(***************************************************************************)

(* "What a rerank shard is a function of: the candidate lists, and nothing *)
(* else" (rerank_fingerprint): a shard of a table was scored from the text *)
(* its first stage ranked.                                                 *)
ScoredWhatWasRanked ==
  table # Missing => \A s \in Shards : table.scored[s].text = table.first.text
=============================================================================
