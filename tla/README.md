# PR-Lens in TLA+

PR-Lens reviews pull requests with free language-model providers and posts at most three
comments. This directory models the program's control: who writes what, in which order,
and what happens when runs overlap, are cancelled or die. TLC checks small instances;
TLAPS proves most of what the runs check for every size: section 5 says what and how.

    tlc -workers 2 -config <run>.cfg <module>     # PROJECT.json lists the runs
    tlapm <module>Proofs.tla                      # seven modules, and CountingLemmas.tla

`PROJECT.json` maps every definition to the lines it stands for, and lists the runs, one
mutant or more per property (a plausible bug the property must catch), the hazards of the
code, the theorems and the findings.

## 1. The system

Paths are relative to `src/src/pr_lens/`.

| Component | State it keeps | Operations | Talks to |
|---|---|---|---|
| Webhook receiver (`api/`, `github/dispatch.py`) | none | verify, dispatch, answer | GitHub Actions |
| Review workflow (`review.yml`), delivery record (`jobs/record_delivery.py`, `db/deliveries.py`) | `deliveries` table, the concurrency group | start, cancel, insert | receiver, live job |
| Live review job (`jobs/review.py`, `db/reviews.py`) | `review_runs`, `drafts` | claim, fetch, review, finish, post | pipeline, ledger |
| Comment ledger (`review/post.py`, `db/comments.py`, `github/writes.py`, migration 0004) | `posted_comments` | take slot, send, mark | GitHub |
| Review pipeline (`review/pipeline.py`) | memory of one call | fit, research, draft, gate, filter, cap | providers, context, tools |
| Providers (`review/provider.py`) | none across calls | complete with failover and waits | model APIs |
| Replay batches (`jobs/replay.py`) | `review_runs` of mode replay | choose, claim, finish, release | pipeline |
| Corpus ingest (`ingest/pipeline.py`, `corpus/`, `db/corpus.py`) | shards and manifest, `corpus_units` | collect, write, upsert, prune | GitHub, the Hub |
| Read client and cache (`github/client.py`, `github/cache.py`) | two files per entry | paginate, conditional get, retry | GitHub |
| Detection (`sandbox/detect.py`) | none | read a checkout, choose a suite, its requirements and its fetch | sandbox |
| Sandbox (`sandbox/runner.py`, `session.py`) | containers, a volume, two captured streams | fetch, run, kill, remove | docker |
| Evidence (`sandbox/evidence.py`) | none | parse what a suite printed | verification |
| Verification (`review/verify.py`) | none | head run, base run, compare | sandbox |
| Prompt context (`review/context.py`, `prompts.py`) | none | rank, render, fit | pipeline |
| Research tools (`review/tools.py`) | the files read so far | read, grep, search history | pipeline, GitHub |
| Past comments (`review/retrieve.py`, `retrieval/search.py`) | an index in memory | load, filter, rank | pipeline, embedding parts |
| Diff reader (`ingest/diff.py`) | none | hunks and line numbers of a diff | live job, replay, pipeline |
| Chunking (`ingest/chunking.py`, `mine.py`) | none | cut a file into units | corpus ingest |
| Migrations (`db/migrate.py`) | `schema_migrations` | migrate, assert_current | Postgres |
| Embedding parts and recall table (`retrieval/embed.py`, `eval/`, `jobs/embed.py`, `jobs/recall.py`, `retrieval.yml`) | parts, first stage, rerank shards, table, each with a fingerprint | embed, rank, rerank, score | corpus, the Hub |
| Query set (`eval/pairs.py`, `eval/split.py`, `jobs/pairs.py`) | a frozen set of pairs per version | list, screen, cap, freeze | GitHub, recall table |
| Reports, verdict files, seeding, provider check | files, or none | section 6 | |

What is hard here is not one component but the seams. Jobs are processes on rented
runners: GitHub cancels one when the next starts, the cancelled one keeps going until it
is killed, and any job may be lost. All coordination goes through database constraints,
files and the order of statements. Requests time out and take effect afterwards. Webhooks
come out of order and twice.

What makes each component correct:

- *ledger*: never a second comment on a line, never more than the cap, no draft dropped
  while there is room, a row tells the truth and stays;
- *live path*: one review per delivery, the newest head is the one reviewed, nothing
  posted that the database cannot explain;
- *pipeline*: only what passed every gate is kept, the recorded outcome is what happened,
  "rate limited" is said only when it was that;
- *replay*: each pull request drafted once per batch, none forgotten, a fair choice;
- *corpus*: rows cite shards that exist, a finished run leaves exactly its tree, running
  again writes nothing;
- *cache*: a walk is the listing, is paid for once, and ends;
- *sandbox and verification*: nothing is left running, a reported regression is one;
- *detection and evidence*: each requirement once, the published project only where its
  name is hidden, and what reaches the model is what the suite said;
- *prompt*: a hunk is left out for its own size only; *migrations*: each once, in order;
- *tools*: an answer is of the head commit, and silence is never a guess;
- *past comments*: none of the pull request's own or later ones, and the best of the rest;
- *diff*: a line has the number git gave it; *chunks*: no line is lost or in two chunks;
- *evaluation*: what is ranked, scored and reported is of one corpus and one frozen set.

## 2. Modules

    CommentPromise     what an author of a pull request is promised (abstract)
    CommentLedger      runs racing for slots; implements CommentPromise
    CommentLedgerProofs
    LiveReview         EXTENDS CommentLedger: webhook to posted comment
    LiveReviewProofs   EXTENDS CommentLedgerProofs, LiveReview
    Inference          one completion over several providers
    ReviewPipeline     EXTENDS Inference: review()
    Toolbox            the research tools of one review
    Search             past comments for a review; the rankings of the evaluation
    PromptFit          fit()
    DiffLines          the diff reader, beside git that writes the diff
    ReviewPipelineProofs
    Replay             batches of replayed reviews
    CorpusPromise      what readers of one repository's corpus may rely on
    CorpusIngest       one repository's corpus: shards, manifest, index; implements
                       CorpusPromise
    Chunks             a file cut into units
    PageCache          a paginated walk over the HTTP cache
    IngestProofs       EXTENDS PageCache, CorpusIngest, Chunks, CountingLemmas
    RecallTable        vectors, first stage, rerank shards and table, run after run
    QuerySet           the frozen query set
    EvaluationProofs   EXTENDS Replay, RecallTable, QuerySet, CountingLemmas
    Detection          detect(): which suite, which requirements, which fetch
    SandboxRun         run_detected at one commit
    SuiteOutput        fetch with retries, captured streams, parsers
    Verification       EXTENDS SandboxRun: head, then base, then compare
    SandboxProofs      EXTENDS Verification, SuiteOutput
    Migrations         migrate() and assert_current
    SupportProofs      EXTENDS Migrations, PromptFit, DiffLines, Toolbox, Search
    CountingLemmas     induction over a set, ranks, greatest elements, sums over sets
    MC*                the instances TLC runs; MCReview, MCSupport and MCOffline
                       check several parts in one run

**CommentLedger.** `table` is `posted_comments` for one pull request, indexed by slot;
`wire` holds requests GitHub has not decided, `comments` what is on GitHub. Each run is
`post()` with its program counter: `InsertRow` and `InsertConflict` are the one INSERT of
`take_slot`, `GiveUp` and `TryNextSlot` the SELECT after a conflict, `Send`, `ReadReply`
and `HttpError` the request, `MarkPosted` and `MarkFailed` the update. `Lose` and
`HttpError` leave the request on the wire, so it may be accepted after the run gave up.
`Kill` ends a run anywhere. A run is interrupted only between statements, since each
INSERT is atomic in Postgres. `Promise == INSTANCE CommentPromise WITH ...` maps the
comments on GitHub to the promise and forgets the rest; `KeepsPromise` is `Promise!Spec`.

**LiveReview** adds the head, the deliveries on their way, the workflow runs with the
cancel flag of the concurrency group, `deliveries`, `review_runs` and the stages of
`run()`. A cancelled run keeps taking steps until `CancelKill`. Its last stage is the
ledger's `post()`, so every ledger step is a step of this module.

**Inference, ReviewPipeline.** A provider's answer to one call is success, rate limited
with a short or a long wait, or an error. The pipeline's phases follow `review()`: fit,
research turns, drafting call, one gate step per draft, filter call, one judging step per
draft. A draft is a place and whether its own critique passed it.

**Toolbox.** One action is one `Toolbox.call`: read a window of a file, grep, search the
history, or a call whose arguments are malformed. A file is its lines, each with a length,
and those the pattern matches; GitHub may refuse any read. The body of an answer is cut at
`MAX_RESULT_CHARS`; headers have one length, and so has what a row carries beside its line.
Line numbers are what JSON may hold, an infinite one included, which raises. What
`search_history` finds is in `Search`.

**Search.** A document is its row and its score for one query, and scores tie. `PastOnly`
compares `load_index` with its filter, the post-filter the evaluation measures against it,
the fusion of two lists as deep as each other, and the fused list reranked at each depth.
What makes a score is a free choice. Shares of the fusion are fractions; `Scale` is a number
all their denominators divide, so they are compared as integers.

**DiffLines.** git is a second process that writes a diff line by line and knows where in
the new file each line stands; the reader takes the same lines. A line is its first
character and whether the rest reads like a header. Hunk counts of one may be left out,
a no-newline mark may follow a line. `"blank"` is the mark of an unchanged line. `Breaks` lets a line hold a character that
`splitlines()` breaks at.

**Replay.** A row of `review_runs` per batch and pull request; `Start` reads the other
batches' rows and chooses (the round robin of `choose()`), then claim, review, finish or
release, one statement a step. `Groups` are the ways to name a batch: `replay.yml` makes a
concurrency group of `inputs.batch` or of the branch, so a push of `replay/b` and a dispatch
of `b` (or one of `replay/b`) are one batch in two groups. `Start` waits only for a job of
its own group.

**CorpusIngest.** Units have a kind that is complete each run (source) or a window over
the most recent (issue). What a run collects is a list of items, a unit and its text, and
may hold a unit twice, with one text or two: a page boundary that moves during a walk gives
an issue on both pages, and nothing up to the shards removes it. The upsert keeps the first
of a unit, under the shard of the last; a prune with a unit of a complete kind twice can only
stop. Shards roll every `RowsPerShard` items. A write makes files
visible one at a time (local directory) or a commit at a time (Hub). `Stop` ends a run
between any two steps; the next one starts from what is there.

**Chunks.** The file grows by a line at a time and is cut anew after every push, so every
prefix of every file is checked. A file is Python, Markdown, reStructuredText or another,
which is cut line by line; the helpers are the passes of `chunking.py` (definitions with
what is above them, classes that are split, sections, merged runts). Lines are those of
`splitlines()`. A line that it ends at a form feed or U+2028 is `glued` to the next one for
`ast`: `AstLine` is its number there, and the code uses such numbers as numbers of
`splitlines()`. `Readable` says what one line of `ast` may hold.

**PageCache.** `metaFile` and `bodyFile` are the two files of each entry; `put()` is two
steps with a death between, or in, either. `SiteChanges` may bring a page back to an
earlier version, with the earlier ETag. Tokens, budgets and items within a page are left
out: `EnoughItems` is the caller's `max_items`, at any point.

**RecallTable.** The jobs of `retrieval.yml` over one store. Each derived file carries the
fingerprint it was made under; a job reads the manifest first and the text after it, and
`Mine` may move the corpus between the two. A job may die at any step; on a local store
vectors and their mark are two writes, on the Hub one commit.

**QuerySet.** A run walks the listings of the tune repositories page by page while comments
are posted, screens each comment, caps by pull request and by repository, and freezes:
the pairs first, the manifest second. A run may die at any step. A comment is its faults.

**Detection.** A repository is what `detect` reads of it: requirement lines, groups and
files that include each other, the project's own extras, the test script, the lockfiles
and where dependencies come from. One action looks at the Python side, one at the
JavaScript side, and one chooses. `foreign` names every place an install takes sources
from; the code looks at `SectionsRead`, three sections of the top `package.json`, and at the
lockfile of the manager that will fetch. `SplitName` is what the split of a requirement line
leaves of its name, which is more than the name where `(` follows it.

**SandboxRun, Verification.** The coroutine and the docker daemon move independently: a
container may come up before or after `docker kill`, the client may have to be killed, a
removal may be refused (`spoiled`), and the job may be cancelled at any await. The tests
that fail at each commit are fixed; whether the suite gets to list them is not. A row's
list is cut at `MaxFailures`.

**SuiteOutput.** First the fetch that drops what has no wheel and tries again, up to
`MAX_DROPPED_REQUIREMENTS`. Then a suite that prints any of the given lines to two
streams, lines like the wrapper's status line among them, against the cap that keeps head
and tail. After `WrapperReports` the processes it left in the background may go on printing
until `SuiteOver`. The cap counts lines where the code counts bytes, so of the first and the
last line that is lost a piece may be left (`Pieces`), which reads as something else. Then
the parsers in their order. Two report formats of five.

**PromptFit.** A block is its costs, richest first; one step is one turn of a loop.

**Migrations.** `pooled` says whether a session lock keeps other jobs out
(`db/connection.py` explains the pooled endpoint). A migration and its row commit together.

## 3. Runs

| Run | Question | Bounds |
|---|---|---|
| `ledger_safety` | do racing runs keep the promise and the ledger's discipline? | 3 runs, 3 lines, cap 2, lists that share lines in both orders, one refused body |
| `live_posting` | is what is posted recorded first, and off the lines seen commented? | 2 pushes, 2 runs, 3 lines, cap 2, one human comment |
| `live_deliveries` | does each delivery get one review and the newest head its review? | 2 pushes sent up to twice, 3 workflow runs |
| `live_redelivery` | violated: section 7 | as above |
| `pipeline_review` | does `review()` keep, count and report rightly, does a cached walk give the listing, and do both end? | up to 3 drafts on 2 places, cap 1, 2 providers, one wait each, 2 research turns; 2 pages, 2 versions, 2 attempts, 2 changes, one death |
| `offline_jobs` | replay, corpus, recall table, query set and chunks | below |
| `support` | verification, fit, migrations, tools, search, diff reader, detection, output | below |
| `replay_rerun` | violated: section 7 | 2 batches |
| `corpus_text` | violated: section 7 | 3 rows a shard |
| `cache_overwrite` | violated: section 7 | as in `pipeline_review` |
| `verify_regressions` | violated: section 7 | as in `support` |
| `pairs_repeat` | violated: section 7 | as in `offline_jobs` |

Three runs and a cap of two are enough for every pair of runs to meet on every slot with a
third having passed; one more line than slots fills the ledger. Two pushes and three
workflow runs allow out-of-order arrival, a redelivery and two cancels. In the pipeline a
cap of one with three drafts has a duplicate, an unsound one before a sound one and a
draft turned away; two providers with one wait each have every order of limited, waited,
failed and spent. The walk has two pages, one of which may lead in a circle, and a page
that changes and goes back, with a death in an overwrite.

`MCReview`, `MCSupport` and `MCOffline` check parts that share no variables. A behaviour
belongs to one of them and keeps the others still, so nothing is multiplied and a property
of one part says of the others' behaviours only that their first state is fine.

`offline_jobs`: 5 pull requests in 2 repositories, 2 a batch, 3 batches, 3 jobs in two
groups, one death, one spent day (one repository runs out before the other; `replay_rerun`
has batches of 3); 6 units in six lists of at most 5 items, 2 rows a shard, commits of 4
files (a unit that changes shard, a shard that disappears, a window that slides, an issue
listed twice with one text and with two, in one shard and across two); 3 versions of the corpus with two rankings, one that lost a gold, 2 table
runs, 2 minings, one failure; 3 repositories with short listings, pages of 3, 2 pairs a
pull request, 2 runs of mining; files of up to 5 lines, two lengths, chunks of 6, blank
lines and lines of a body that only `splitlines()` ends.

`support`: two tests with room to list one, one dropped requirement; up to three hunks of
at most three renderings against each budget; two migrations, two jobs with old or new
checkouts, three runs of `migrate()`; three files, reads of 2 lines, 4 matches and 3 calls,
answers of 8 characters with a line longer than a row shows (bodies that just fit, that are
cut between rows, that are cut in the second row of a window); five documents with two
scores, k of 1 with more than one row allowed, budgets on both sides of it, two rows of each
list to fuse; two files, two hunks, two lines a side and four in all; the trees of
`MCDetection`, whose groups, files and extras include each other in circles with one
requirement more than the cap, a line that hides the project's name, and foreign sources in
and outside of the places looked at; five lines against a capture of four, a stray line of
another framework, a fake status line before or after the real one, and a piece of each line
that reads otherwise or the same.

`CHECK_DEADLOCK FALSE` is set everywhere: every model here is of jobs that end.

What the properties say is written above each of them. In short:

- `LedgerInv` is the inductive invariant of section 5; `NoDraftDroppedWithRoom`: a run
  passes a draft only if its line is in the ledger or the ledger is full; `PostedIsThere`,
  `RowsAreFinal`: rows tell the truth and settle once; `KeepsPromise`: refinement.
- `FinishedBeforePosted`, `NotWhereCommented`, `OneReviewPerDelivery`, `NewestReviewed`,
  and `HeadGetsReviewed` (liveness).
- `KeptIsSafe`: what is kept passed every gate; `NothingSoundIsLost`: a sound draft that is
  not kept was turned away by a rule, not by an unsound one in front of it;
  `ResultIsTrue`: the outcome, the rate-limit flag and the record of the research are what
  happened; `ReviewEnds` (liveness).
- `WalkIsTheListing`, `PaidOnce`, `WalkEnds` (liveness).
- `DraftedOnce`: once per batch, also by two jobs of it at once; none forgotten but what a
  dead job holds or a job of the other group gave up; a stopped job gives its claim back;
  `ChoiceIsFair`: an even spread, and a compared batch reads the same pull requests.
- `RowsHaveShards`, `RerunWritesNothing`, `IndexFollowsTree`; `CorpusKeepsPromise`:
  refinement: a reader gets all of one run's documents, each as often as the run listed it,
  under that run's fingerprint. That each is there once is not promised, nor true.
- `TableIsOneStudy`: mark and vectors are of one text, a table ranks the text it read, and
  rerank hours are not thrown away; `FrozenSetIsFair`: a version is written once, whole,
  and its caps are fair; `ChunksKeepTheFile`: no line is lost or in two chunks, and a Python
  definition that fits is one chunk where `ast` and `splitlines()` number its lines alike.
- `LeavesNothing`, `RegressionsAreReal`, `FitIsFair`, `MigratedOnce`.
- `AnswersAreHonest`: what a tool shows and counts is so at the head commit, and an answer
  that leaves something out, for a cap or for its length, says so; `PastOnly`;
  `NumbersAreTrue`; `DetectionIsSound`: the choice between suites, nothing fetched if a place
  that is looked at names a source, and the requirements a person would find;
  `EvidenceIsHonest`: failures are what one reporter's lines name or a piece of a lost line,
  all that a stream which lost nothing lists is there, and a status-like line the suite
  printed before the wrapper's is not taken for it.
- One type invariant a run: of the module, or of all parts of the composition together.

Properties that are checked in no run, because a run answers one question, are at the end
of their modules: `NeverRaises` (`Toolbox`) and `ScoredWhatWasRanked` (`RecallTable`).
TLC refutes both; section 7 says how.

## 4. Fairness

- `FairLiveSpec`: weak fairness of the receiver for each delivery sent and of each
  workflow run's next step. GitHub hands over a delivery and Actions executes what it
  started. Nothing obliges a person to push, redeliver or comment, or a run to die.
- `Spec` of `MCReview`: weak fairness of `ReviewStep`, the whole of `review()`. It is one
  coroutine, the event loop resumes it, and every HTTP call has a timeout. And weak
  fairness of `CacheStep`, the steps of a walk, for the same reason; the site changes and
  a run dies only if they like.

A property under fairness says something terminates because counters run out
(`MAX_WAITS_PER_PROVIDER`, `max_attempts`, the visited set), not because someone is kind.
The other parts have no waiting in them: a job of theirs that is not killed ends by
reaching the end of a list.

## 5. Proofs

Eight modules hold theorems; `PROJECT.json` lists the results, each module proves the
lemmas under them. A theorem here is about the specification of one component, for any
value of its constants that satisfies the `ASSUME` of its module. Those assumptions say
only what the code gives: bounds are naturals, a set the code enumerates is finite, a sort
key distinguishes what the code's key distinguishes (`Shuffle` for the repositories of
`choose()`, `Rank` for units), a page's link is a function of its version, what stands for
None is none of the values. Two theorems need more and say so in their statement:
`OneCommit` (`RowsAlwaysHaveShards`, `CorpusIsPromised`) and `Breaks = FALSE`
(`NumbersAlwaysTrue`). Each invariant below was first checked by TLC on the instance of
its run.

*The ledger.* `OneCommentPerLine` and `AtMostCap` are not inductive: a comment appears
from a request, a request is sent from a row, and a row is taken slots earlier. The
strengthening `LedgerInv` follows that chain. A run about to send, waiting, or about to
mark finds its own pending row (`HolderHasRow`). Until it sends, no request ever used that
slot (`UnsentIsFresh`), and one slot backs one request (`OneRequestPerSlot`), also the
timed-out one that GitHub accepts later. Requests and comments have rows
(`RowBeforeRequest`); rows do not share a line (`OneRowPerLine`). So comments inject into
slots, which bounds them, and into lines. `TriedSlotsTaken` says all slots below the one a
run tries are taken, which gives `NoHoleInSlots` and `NoDraftDroppedWithRoom`. The proof
first shows the part about rows and requests (`Core`), then the rest over it.
`PostedIsThere` adds that requests are numbered and a run marks on the answer to the one
it sent last, so an earlier one that was accepted late cannot be mistaken for it.

A remark on the schema: slots are tried from 1, rows are never deleted, and the SELECT
follows each conflict, so a run that gets past the slot of a row has seen its line. The
unique constraint on the line is therefore never the one that decides; it is a second
defence, for a caller that would pick slots in another way.

*The live path.* `LiveIsLedger` shows every behaviour of `LiveReview` is one of
`CommentLedger`, which lifts the ledger's theorems (`LivePromise`). `ReviewedOnce` rests on
an invariant that ties each run past the insert to the one row of its delivery, and
`PostsAreRecorded` on one that ties a run in `post()` to its finished row.
`NeverWhereCommented` needs `ReviewAvoids`: what a run has seen commented stays with it
through the review, so no draft it hands over is there. `NewestAlwaysReviewed` rests on
`HeadInv`: the newest head is unsent, or a run that nobody cancelled will look at it, or
one has (`HeadWatched`). A dispatch cancels the runs before it, so that part needs that a
delivery has one run going at most (`OneRunGoing`) and that nothing is sent before it was
pushed (`SentFirst`); the exceptions `NewestReviewed` names are where it would break.

*Review.* `PipelineInv` has a part per stage. `CallInv`: the failures are those of the
providers passed, and the flag is about exactly them. `ResearchInv`: the calls on record
are research turns and then the rest. `GateInv`: what stands passed each gate, is at a
place of its own, and every sound draft of an open place has one at that place, no later
than itself. `JudgeInv`: verdicts are given in order, and a draft turned away at the cap
was behind those that fill it. `OutcomeInv`: how it ended. `ResultIsTrue` needs the first
and the last together, since the flag outlives the call it was set in.

*The cache.* `CacheInv`: but for the entries a run died over, and for the moment between
the two writes, an entry is one answer (`FilesInv`); the run holds its page's entry or an
answer (`RequestInv`); the pages walked are a path without a repeat (`PathInv`, `PagesInv`);
and a page that could be answered in full now has one full answer unspent (`PaidInv`).

*Corpus.* `IngestInv` knows a run by its phase: what it collected, the manifest it has or
has not written, the rows it has reached, and what the last finished run left as long as
no run touched it (`LastStands`). `RerunsWriteNothing` and `IndexIsTheTree` follow for any
runs that stop anywhere. `ShardsInv` needs `OneCommit`, that shards and manifest of a run
are one commit to the Hub: a run cut between two commits leaves a manifest of shards that
are not there, or shards of two runs. TLC refutes `RowsHaveShards` and `CorpusKeepsPromise`
with `FilesPerCommit = 2`. `CorpusIsPromised` is the refinement: a run's one visible step is
the `Write` that carries the manifest, or the `Build` that finds nothing to write
(`ReplacesOrRests`); before it a reader gets the old corpus, after it the new one, and every
other action is a stutter or moves the run. What has to be shown of the shards is that they
are a partition of the places of the list, so that a reader gets each document as often as
the run listed it (`DocumentsAre`). The promise is about a read at one moment; a reader that takes the manifest before a run and the
shards after it is a hazard of `RecallTable`.

*Evaluation.* `ReplayInv`: of the jobs of a batch that were named alike one runs at a time;
an unfinished row has an owner that is on it, or a dead one; and whatever lies behind a job
on its list is settled, or held by a job of the other group that is on it, or was given up
by one. A claim is the insert, so two jobs of a batch never draft one pull request, though
both have it on their lists. `choose()` deals the open pull requests out in turns; that their places
are numbered without a gap is a lemma of its own (`StandingsNumber`), and since a turn
starts only when every repository with one left has had the turn before, no repository is
two ahead of another that could still give (`ChoiceSpreads`). The second half of
`ChoiceIsFair` compares two jobs that chose at different times: with fewer pull requests
open each of them stands no further back (`StandingGrows`), and `ChoiceHistory` says every
row was chosen by a job of its batch and what was closed to a batch stays closed, while
nothing is released. `Undisturbed` names what that needs; TLC refutes the property when
`ChoseAlike`, `InSeries` or the part about the compared batch's own seed is dropped.
`TableInv`: which
corpus each job has read, what it may still write, and that a derived file is a function of
the fingerprints it names; shards come after the first stage whose lists they score.
`PairsInv`: what is mined so far is right for each repository (`MiningInv`) and what is
frozen was frozen into an empty place (`FrozenInv`). The fairness of the cap comes from the
median of the repositories' counts: at least half of them have as many pairs as the cap, and
at least half no more than one above it (`MedianHalves`).

*Verification and sandbox.* `VerifyInv`: every container and volume is watched by a client
or by the coroutine until a removal is tried (`SandboxInv`); the side that runs is the one
the comparison waits for (`RunningSide`); a head result in use ran to its end with nothing
dropped (`HeadUsable`); and what is reported was in it and not in the base's list.

*Evidence.* `EvidenceInv`: a stream is what is kept of its beginning, what was lost, and
what is kept of its end, in this order (`Split`). Nothing goes to the end before the
beginning is full, and nothing is lost before the end is, so a stream of which nothing was
lost is kept whole, and the wrapper's line is in the end, or in the beginning of a stream
that is short, unless what ran on in the background said more than the end holds.
`FeedKeepsInv` shows it of a chunk of any size: the cut falls in what was kept, in what was
lost, or in the chunk. What the parsers find is in the text they read (`FailuresAre`); a text
with a gap says no failure but those printed and what a piece at the gap reads as
(`Misheard`), so `FailuresAreTrue` follows. What is lost may hold failures of the suite;
`Heard` is what cannot be missed, in the streams that lost nothing, of pytest under its
header and of jest anywhere.

*Detection.* `DetectInv`: the requirements still to expand, those already out and the extras
asked for account, at every turn of `_expand_self`, for each name the metadata reach
(`ExpandFollows`); a verdict is what was known when it was given. What the metadata reach is
said twice: `Including` reads lists as `_dependency_group` and `_requirements_file` do, down
from a name, and `Closure` goes up from the names a step at a time. `ReadsReach` shows the two
meet: what has been reached within some includes and what is read with the includes that are
left are together always the same. A line that names the project and hides it from the split
is in the requirements like any other (`Misread`). `DetectionAssumption` gives the shape of a checkout
(`IsTree`): lists are finite, and no requirement has the name of a file or group. An earlier
`Closure` stopped one include short of the code, which reads at the depth of its cap too
(`depth > 5` refuses the seventh list, not the sixth). No tree of `MCDetection` has a chain
that long, so TLC agreed and only the proof did not.

*Chunks.* A file is cut anew after every line, so the invariant only says that the units are
of the file (`CutInv`), and what is proved is what `chunk_file` returns for any sequence of
lines. One notion carries it: `Tiles`, chunks in order from line i to line j, with every line
that is not blank and nothing too long but a line. It is kept when chunks of neighbouring
lines are joined (`TilesJoin`), and each pass has it of the lines it was given (`SizedTiles`,
`PackedTiles`, `MergedTiles`, `SplitClassTiles`). Six of the passes are folds; each is
unfolded a line at a time (`FoldKeeps`) with an invariant of its own. Of Python it says that
the cursor stands behind the end of a definition or at the first line, which is neither a
comment, nor blank, nor a decorator (`BehindTheCursor`); so the `floor` never takes a comment
from the definition below (`StartsWhole`), which is what makes a definition whole. Of
Markdown it says that the starts are the headings outside of fences (`HeadingsAreHeads`), so a
chunk inside of a fence begins in the middle of a section that `_sized` had to split.
The limit may be less than a line, and the lines of any length; `LineKinds` is never expanded,
so the proof does not rest on which kinds may follow each other. `Holds` is proved with any
lines glued, since a cursor only moves forward whatever the numbers of `ast` mean; that a
definition is whole needs that up to its end no line is (`Unshifted`), where the two
numberings agree.

*Prompt.* `FitInv`: what is spent is the sum of what is shown. `LeftOutForItsSize` speaks of
the first pass, whose costs are the bare renderings; the second pass raises the costs, so
the invariant keeps the bare sums (`BareOf`), which upgrades do not change.

*Diff.* `DiffInv`: between two lines reader and git agree on path and counts left; with one
line under way, the reader is that line behind (`OneLineBehind`). The lines the reader
holds, in closed hunks and in the open one, carry git's numbers. A torn line (`Breaks`) is
two for the reader and one for git, which is where the proof stops and TLC finds the wrong
number of section 7.

*Tools.* `ToolInv`: a file held is the file of the head commit and was paid for once
(`FilesAreTrue`), so what is remembered answers as GitHub would. A search counts its rows
file by file and stops at the cap; that the rows of the files reached are together what
was counted (`TogetherIsSum`), hence at most the cap, and all of them below it, needs that no
file is searched twice. Rows are shown while there is room (`HasRoom`), and more rows
never take less of it, so those shown are the first ones (`UpTo`), all of them exactly when the body
is not marked as cut. `ToolAssumption` says so of `Changed`, which both callers build
with `list(dict.fromkeys(...))` (`jobs/review.py:127`, `jobs/replay.py:151`).

*Past comments.* `SearchInv`: both searches return the best of their rows (`IsTop`), in
order, with nothing better left out. Which of the rows that tie are in is open, but two
such lists agree on the scores place by place: if one were worse at its i-th place, all of
the first i rows of the other would have to stand in its first i - 1 (`TopIsAsGood`). What
survives a filter afterwards is again the best of what the filter allows
(`SurvivorsAreTop`), so it differs from the right answer only where it ends early. Fusion
sorts by weight and then by first appearance; a row that is ahead in both lists weighs no
less and appears earlier, and that no two rows appear at one place makes the order total
(`AheadOrders`).

*Migrations.* `MigratedOnce` alone says nothing of a job that works from a list it read
earlier. `MigrationsInv` does: between two migrations a job has still to run whatever its
checkout has and the table has not. The step that matters is `Record`
(`NextIsSuccessor`): taking the smallest of its list, a job can only record the successor
of what is recorded, because all its checkout has below that is in the table; if it
skipped one, that one would be in the list and smaller. What keeps the order is therefore
the sort and the version key, not the lock, and it survives the pooled endpoint. The lock
only keeps jobs from failing on each other, the last conjunct, and that one needs a session
of their own.

*Counting.* The backends have no induction, and the library's induction theorems take an
operator. `CountingLemmas` goes around that once: every non-empty set of naturals has a
least member (`LeastOf`, from the library's well-foundedness of `<` on `Nat`), so a set that holds 0 and the
successor of each of its members is all of `Nat` (`SetInduction`), and a lemma by induction
names the set of numbers it holds for. From it come ranks in an order (`RanksNumber`),
greatest members, and sums over a finite set (`SumOfPart`, `SumChanges`, `TogetherIsSum`).
The same goes for a recursive function or a fold: that there is a function which satisfies
its equations is proved by the induction over its depth (`FoldsExist`), and what its value
is, by another. So a filter keeps the order and all it is asked to (`KeptIsPart`,
`KeptKeeps`), what each step of a fold keeps holds of its end (`FoldKeeps`), and a list of
lists holds what its lists hold (`FlatKeeps`).

*Only model-checked,* and why:

- `ReviewEnds`, `WalkEnds`, `HeadGetsReviewed`: liveness under fairness, and `ENABLED`, are
  beyond this version of TLAPS.
- `LoopsTypeOK`, `SupportTypeOK`, `OfflineTypeOK`: conjunctions over parts that share no
  variable. For the parts with a module of proofs the type is proved there, as a theorem or
  as the first part of the inductive invariant.

## 6. Not modelled

- *Evaluation arithmetic, reports* (`eval/assembly.py`, `eval/report.py`, `jobs/anchor.py`):
  floating point sums and their rendering. No state, no order, and no arithmetic TLC has.
- *Verdict files, seeding, provider check*: text in and out, run by hand.
- *Text*: prompts, rendering, the parsing of model answers, and the regular expressions that
  screen comments or find an assertion. A text is what the properties tell apart.
- *Scores*: embeddings, BM25, the cross-encoder. `Search` leaves the score free, so what it
  shows holds for any model.
- *Formats like the ones modelled*: three of the five report parsers (what is shown of
  evidence is shown of pytest and jest), `parse_diff_hunk` (the evaluation's own).
- *Sizes*: the capture counts lines, with pieces, where the code counts bytes; a tool's header
  and what a row adds to its line have one length each; shards roll at a number of rows, which
  stands for `MAX_SHARD_BYTES` too.
- *What `npm` reads and the code does not*: `peerDependencies`, `overrides`, `resolutions` and
  the manifests of workspaces are places of `foreign` that nobody looks into. No property
  says a fetch takes nothing from them.
- *Which head a diff is of*: the live path has one diff per review.
- *Docker's isolation flags, the signature check, settings, the payload*: constants and
  input validation.
- *The loop of `jobs/ingest.py` over repositories*, with its time budget, and the selection
  of tests near a diff in `review/verify.py`: left for later, not out of reach.
- *Exceptions of the operating system*: a full disk or a missing archive raises through code
  that documents it never raises (`review/verify.py:117`).
- Provider requests below the level of "answered, limited, failed".

The status and the reason per component are in `PROJECT.json`.

## 7. Findings

Each is a run that TLC finds violated, against a sentence of the repository.

1. `live_redelivery`: redelivering an older push cancels the review of the newest head and
   then stops. `review.yml:22-24` accepts only the case of a delivery against its own run.
2. `replay_rerun`: "re-running a batch after a failure drafts only what is left" fails for
   the pull request whose job died: its claim is held for ever.
3. `corpus_text`: a row whose content did not change keeps the shard it had, although its
   unit moved to another; a hit cannot then be turned back into its text.
4. `cache_overwrite`: a run killed while it overwrites an entry leaves a body that does not
   match its metadata, and a page that returns to its earlier version serves it.
5. `verify_regressions`: a test that failed at the base too is reported as a regression
   when the base run did not list it, which is the case whenever a selected test file is
   new in the pull request and pytest stops at once.
6. `pairs_repeat`: a comment posted while the listing is walked moves the page boundary,
   and the comment at the boundary is listed twice. Nothing removes the second: the frozen
   set holds one query id twice, and `Rows.join` refuses it for ever.

Met while modelling, and not given a run:

- `Toolbox.call` "never raises", but `_as_int` of an infinite number raises
  `OverflowError` (`NeverRaises`).
- A rerank shard is said to be "a function of the candidate lists, and nothing else", but
  it scores the text of the corpus as it is when the shard runs (`ScoredWhatWasRanked`).
- `splitlines()` breaks at form feeds and U+2028 where git does not; with `Breaks = TRUE`
  the rest of such a hunk is numbered wrong (`NumbersAreTrue`).
- `top_k` says ties are broken by index; that holds for the order of what it returns, but
  which of the rows that tie for the last places are in is `argpartition`'s choice (`TopK`).
- In Markdown a section whose heading skips a level takes its next sibling for a child
  in the breadcrumb of its symbol (`chunking.py:136`).

- An item that a moving page lists twice reaches the readers of the corpus twice; the index
  keeps its first text under the shard of its last (`ingest/pipeline.py:128-140`,
  `corpus/writer.py:134-157`).
- `_foreign_sources` says "every dependency that would be fetched from somewhere other than
  a public registry", and looks at three sections of one file (`sandbox/detect.py:642-650`).
- The split at `sandbox/detect.py:479` does not know `(`: `own(>=1)` is installed from the
  registry over the checkout.
- A status-like line that a background process prints after the wrapper's is taken for it
  (`sandbox/runner.py:354-357`).
- Numbers of `ast` index `splitlines()` (`ingest/chunking.py:61`, `:240`): a form feed above
  a class moves the lines of its chunk.
- A push and a dispatch of one batch run at once, and a pull request that one of them gives
  up is passed by the other until the batch is run again (`replay.yml:48`).

Hazards without a property have a note in `PROJECT.json`.

## 8. Plan

Done in this order: ledger and promise, live path, their proofs, pipeline and providers,
replay, corpus, cache, sandbox, verification, fit and migrations; then tools, search,
recall table, query set, detection, output, diff reader and chunks.

Next, to model: the loop of `jobs/ingest.py` with its time budget over `CorpusIngest`;
a research turn of `ReviewPipeline` as a call of `Toolbox`; the selection of tests near a
diff; a diff fetched for a newer head than the one recorded (`jobs/review.py:89-109`).

Proved in this order: ledger and promise, live path, migrations; then the rest of the live
path, pipeline, cache, replay, corpus, recall table, verification, query set, prompt,
diff reader, what `choose()` promises, the tools, the past comments, the
evidence, the promise to readers of the corpus, detection, and the chunks of a file.

Next, to prove: an abstract specification of `review()` for the live path, which takes a
review as one step; the research tools under the calls of `ReviewPipeline`.
