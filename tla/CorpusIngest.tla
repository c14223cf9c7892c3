---------------------------- MODULE CorpusIngest ----------------------------
(***************************************************************************)
(* One repository of a mining run: ingest_repo() of ingest/pipeline.py     *)
(* over corpus/writer.py, corpus/huggingface.py and db/corpus.py.          *)
(*                                                                         *)
(* A run collects units, packs them into shards by kind and id, writes the *)
(* shards that differ from the manifest and the manifest itself, file by   *)
(* file to a local directory or in commits to the dataset repository, then *)
(* upserts the index rows batch by batch, then prunes.  It may raise or be *)
(* killed between any two of these, and the next run starts from what is   *)
(* there.  Runs never overlap (the concurrency group of mine.yml).         *)
(*                                                                         *)
(* What it collects is a list, and nothing on the way from the pages to    *)
(* the shards looks whether it has an item twice: an issue that a moving   *)
(* page boundary gave on both pages, with the same text or another, is     *)
(* packed twice.  The upsert alone keeps the first of a unit.              *)
(***************************************************************************)
EXTENDS Integers, Sequences, FiniteSets, FiniteSetsExt

CONSTANTS
  Units,          \* unit ids
  KindOf,         \* the kind of each
  Rank,           \* the place of each in the order of the ids
  Contents,       \* what a unit's record may hold, its content_hash with it
  Collections,    \* what _collect may return: lists of a unit and its contents
  LongestList,    \* no list is longer
  RowsPerShard,   \* MAX_SHARD_ROWS
  BatchSize,      \* BATCH_SIZE of an upsert
  FilesPerCommit, \* MAX_FILES_PER_COMMIT
  NoRow           \* a unit with no row in corpus_units

(* One kind that is complete every run and one that is a window over the   *)
(* most recent; doc is another of the first, the other two of the second.  *)
Kinds == {"issue", "source"}
COMPLETE_KINDS == {"source"}

Item == [unit : Units, text : Contents]

ShardNames == Kinds \X (0 .. (LongestList - 1) \div RowsPerShard)
Manifest == <<"manifests", 0>>
Files == ShardNames \cup {Manifest}

(* What a shard, or the list of a manifest, holds.  <<>> is no file: no    *)
(* empty shard is ever written.                                            *)
Texts == Seq(Item)
Row == [text : Contents, shard : ShardNames]

ASSUME IngestAssumption ==
  /\ KindOf \in [Units -> Kinds]
  /\ Rank \in [Units -> Nat]
  /\ Collections \subseteq Seq(Item)
  /\ LongestList \in Nat
  /\ \A c \in Collections : Len(c) <= LongestList
  /\ RowsPerShard \in Nat \ {0} /\ BatchSize \in Nat \ {0} /\ FilesPerCommit \in Nat \ {0}
  /\ NoRow \notin Row

-----------------------------------------------------------------------------
(* The places of a unit in a list, the units of a list, and the text that  *)
(* it has of one: _deduplicate keeps the first.                            *)
PlacesOf(c, u) == {i \in DOMAIN c : c[i].unit = u}
UnitsOf(c) == {c[i].unit : i \in DOMAIN c}
FirstPlace(c, u) == Min(PlacesOf(c, u))
TextOf(c, u) == c[FirstPlace(c, u)].text

-----------------------------------------------------------------------------
VARIABLES
  sink,      \* "local" or "hub", for the whole behaviour
  shards,    \* the shard files
  manifest,  \* the manifest file: the contents whose hash it lists, by name
  rows,      \* corpus_units
  pc,        \* where the run is
  units,     \* what it collected
  todo,      \* files of its write() still to go
  done,      \* units upserted so far
  wrote,     \* whether this run wrote a shard, a row, or deleted one
  last       \* what the latest run collected, if it finished; <<>> if not

storeVars == <<shards, manifest>>
runVars == <<units, todo, done, wrote>>
ingestVars == <<sink, storeVars, rows, pc, runVars, last>>

IngestTypeOK ==
  /\ sink \in {"local", "hub"}
  /\ shards \in [ShardNames -> Texts]
  /\ manifest \in [ShardNames -> Texts]
  /\ rows \in [Units -> Row \cup {NoRow}]
  /\ pc \in {"idle", "build", "write", "upsert", "prune", "finish"}
  /\ units \in Collections \cup {<<>>}
  /\ todo \subseteq Files
  /\ done \subseteq UnitsOf(units)
  /\ wrote \in BOOLEAN
  /\ last \in Collections \cup {<<>>}

IngestInit ==
  /\ sink \in {"local", "hub"}
  /\ shards = [s \in ShardNames |-> <<>>]
  /\ manifest = [s \in ShardNames |-> <<>>]
  /\ rows = [u \in Units |-> NoRow]
  /\ pc = "idle"
  /\ units = <<>>
  /\ todo = {}
  /\ done = {}
  /\ wrote = FALSE
  /\ last = <<>>

-----------------------------------------------------------------------------
(***************************************************************************)
(* _build_shards: each kind's units in id order, those of one id as they   *)
(* were listed, RowsPerShard to a shard.  A shard also rolls at            *)
(* MAX_SHARD_BYTES, which RowsPerShard stands for.                         *)
(***************************************************************************)
SortsBefore(c, j, i) ==
  \/ Rank[c[j].unit] < Rank[c[i].unit]
  \/ Rank[c[j].unit] = Rank[c[i].unit] /\ j < i

(* The shard of a place of the list.                                       *)
ShardAt(c, i) ==
  LET kind == KindOf[c[i].unit]
      before == {j \in DOMAIN c : KindOf[c[j].unit] = kind /\ SortsBefore(c, j, i)}
  IN  <<kind, Cardinality(before) \div RowsPerShard>>

PlacesIn(c, s) == {i \in DOMAIN c : ShardAt(c, i) = s}

(* The m-th of some places, sorted.                                        *)
SortedAt(c, places, m) ==
  CHOOSE i \in places : Cardinality({j \in places : SortsBefore(c, j, i)}) = m - 1

BuildShards(c) ==
  [s \in ShardNames |->
     LET places == PlacesIn(c, s)
     IN  [m \in 1 .. Cardinality(places) |-> c[SortedAt(c, places, m)]]]

(* The shards of each list a run may collect, and those of no list.        *)
ShardsOf == [c \in Collections \cup {<<>>} |-> BuildShards(c)]

(* placement, a dictionary filled on the way: the last of a unit stays.    *)
Placement(c, u) == ShardAt(c, Max(PlacesOf(c, u)))

Named(texts) == {s \in ShardNames : texts[s] # <<>>}

(* Mutant: the manifest is only sent along with shards that changed.       *)
ChangedShardsOnly(built) ==
  LET changed == {s \in Named(built) : manifest[s] # built[s]}
  IN  IF changed # {} THEN changed \cup {Manifest} ELSE {}

(* write_units: the shards whose hash is not the listed one, and the       *)
(* manifest when there are any or when the list of names changes.          *)
Changed(built) ==
  LET changed == {s \in Named(built) : manifest[s] # built[s]}
  IN  IF changed # {} \/ Named(manifest) # Named(built)
        THEN changed \cup {Manifest} ELSE {}

(* Mutant: the manifest is written before the shards it lists.             *)
OrderManifestFirst(f) ==
  CASE f[1] = "manifests" -> 0
    [] f[1] = "issue"     -> 1
    [] f[1] = "source"    -> 2

(* LocalSink.write takes the files in the order they were put in, the      *)
(* manifest last; HuggingFaceSink.write sorts their names.                 *)
Order(f) ==
  CASE f[1] = "issue"     -> 0
    [] f[1] = "manifests" -> IF sink = "hub" THEN 1 ELSE 3
    [] f[1] = "source"    -> 2

Before(f, g) == Order(f) < Order(g) \/ (Order(f) = Order(g) /\ f[2] < g[2])

(* What becomes visible at once: a renamed file, or a commit of the Hub.   *)
NextFiles ==
  LET atOnce == IF sink = "hub" THEN FilesPerCommit ELSE 1
  IN  {f \in todo : Cardinality({g \in todo : Before(g, f)}) < atOnce}

-----------------------------------------------------------------------------
Collect ==
  /\ pc = "idle"
  /\ units' \in Collections
  /\ pc' = "build"
  /\ UNCHANGED <<sink, storeVars, rows, todo, done, wrote, last>>

Build ==
  /\ pc = "build"
  /\ todo' = Changed(ShardsOf[units])
  /\ pc' = IF todo' = {} THEN "upsert" ELSE "write"
  /\ UNCHANGED <<sink, storeVars, rows, units, done, wrote, last>>

(* A commit that is retried carries the same files again.                  *)
Write ==
  /\ pc = "write"
  /\ LET built == ShardsOf[units]
         files == NextFiles
     IN  /\ shards' = [s \in ShardNames |-> IF s \in files THEN built[s] ELSE shards[s]]
         /\ manifest' = IF Manifest \in files THEN built ELSE manifest
         /\ todo' = todo \ files
         /\ wrote' = (wrote \/ files # {Manifest})
  /\ pc' = IF todo' = {} THEN "upsert" ELSE "write"
  /\ UNCHANGED <<sink, rows, units, done, last>>

(* Mutant: a conflicting row is always updated.                            *)
TouchedAlways(u) == TRUE

(* Inserted, or updated because its content hash is distinct.              *)
Touched(u) == rows[u] = NoRow \/ rows[u].text # TextOf(units, u)

(* upsert_units, one statement a batch, in the order of _collect.          *)
Sooner(u, v) == FirstPlace(units, u) < FirstPlace(units, v)

Upsert ==
  /\ pc = "upsert"
  /\ LET left == UnitsOf(units) \ done
         batch == {u \in left : Cardinality({v \in left : Sooner(v, u)}) < BatchSize}
         touched == {u \in batch : Touched(u)}
     IN  /\ rows' = [u \in Units |->
                       IF u \in touched
                         THEN [text |-> TextOf(units, u), shard |-> Placement(units, u)]
                         ELSE rows[u]]
         /\ wrote' = (wrote \/ touched # {})
         /\ done' = done \cup batch
         /\ pc' = IF done' = UnitsOf(units) THEN "prune" ELSE "upsert"
  /\ UNCHANGED <<sink, storeVars, units, todo, last>>

(* Mutant: nothing is pruned.                                              *)
PruneNothing ==
  /\ pc = "prune"
  /\ pc' = "finish"
  /\ UNCHANGED <<sink, storeVars, rows, units, todo, done, wrote, last>>

(* prune_missing: the complete kinds, if anything of them was collected.   *)
(* The ids go into a table where each is a key: with one of them twice the *)
(* run can only stop.                                                      *)
Prune ==
  /\ pc = "prune"
  /\ \A i, j \in DOMAIN units :
        units[i].unit = units[j].unit /\ KindOf[units[i].unit] \in COMPLETE_KINDS => i = j
  /\ LET live == {u \in UnitsOf(units) : KindOf[u] \in COMPLETE_KINDS}
     IN  rows' = [u \in Units |->
                    IF live # {} /\ KindOf[u] \in COMPLETE_KINDS /\ u \notin live
                      THEN NoRow ELSE rows[u]]
  /\ wrote' = (wrote \/ rows' # rows)
  /\ pc' = "finish"
  /\ UNCHANGED <<sink, storeVars, units, todo, done, last>>

(* Mutant: the next run starts with the batches of this one behind it.     *)
OverKeepsDone ==
  /\ pc' = "idle"
  /\ units' = <<>>
  /\ todo' = {}
  /\ wrote' = FALSE
  /\ UNCHANGED <<sink, storeVars, rows, done>>

(* The run is over, and what it held in memory with it.                    *)
Over ==
  /\ pc' = "idle"
  /\ units' = <<>>
  /\ todo' = {}
  /\ done' = {}
  /\ wrote' = FALSE
  /\ UNCHANGED <<sink, storeVars, rows>>

Finish == pc = "finish" /\ Over /\ last' = units

(* An exception, recorded in ingest_runs and raised again, or a kill.      *)
Stop == pc # "idle" /\ Over /\ last' = <<>>

IngestNext == Collect \/ Build \/ Write \/ Upsert \/ Prune \/ Finish \/ Stop

IngestSpec == IngestInit /\ [][IngestNext]_ingestVars

-----------------------------------------------------------------------------
(***************************************************************************)
(* Safety.                                                                 *)
(***************************************************************************)
Settled == pc = "idle" /\ last # <<>>

(* "Shards are written before the rows that point at them": no row ever    *)
(* cites a shard that does not exist, whichever runs were cut short before *)
(* and although a shard the manifest lists is not written again.  On the   *)
(* Hub it rests on one commit carrying the write: of two the first carries *)
(* the manifest, and a run stopped after it leaves shards listed that are  *)
(* not there.                                                              *)
RowsHaveShards == \A u \in Units : rows[u] # NoRow => shards[rows[u].shard] # <<>>

(* The Phase 1 gate: a run that finds what the finished run before it      *)
(* found writes no shard and no row and deletes none.                      *)
RerunWritesNothing == pc = "finish" /\ units = last => ~wrote

(* After a finished run the index holds everything collected as it was     *)
(* collected, of a unit listed twice the first, and no source unit the     *)
(* tree has lost, also when earlier runs stopped half way.                 *)
IndexFollowsTree ==
  Settled =>
    /\ \A u \in UnitsOf(last) : rows[u] # NoRow /\ rows[u].text = TextOf(last, u)
    /\ (\E v \in UnitsOf(last) : KindOf[v] \in COMPLETE_KINDS) =>
         \A u \in Units \ UnitsOf(last) : KindOf[u] \in COMPLETE_KINDS => rows[u] = NoRow

(***************************************************************************)
(* What a reader of the corpus sees.                                       *)
(***************************************************************************)

(* read_corpus of eval/corpus.py: the documents of every shard the         *)
(* manifest lists, each as often as it is there.                           *)
Documents(listed, texts) ==
  LET lines == UNION {{s} \X DOMAIN texts[s] : s \in Named(listed)}
      DocumentAt(l) == texts[l[1]][l[2]]
  IN  [d \in {DocumentAt(l) : l \in lines} |-> Cardinality({l \in lines : DocumentAt(l) = d})]

(* The dataset repository stays as it was while runs write a directory.    *)
OnHub(value, else) == IF sink = "hub" THEN value ELSE else

Mining ==
  IF pc = "idle" THEN "no"
  ELSE IF pc \in {"build", "write"} THEN "begun" ELSE "replaced"

Readers == INSTANCE CorpusPromise WITH
  Collections <- Collections,
  PrintOf <- ShardsOf,
  documents <- OnHub(Documents(manifest, shards), <<>>),
  fingerprint <- OnHub(manifest, ShardsOf[<<>>]),
  mining <- OnHub(Mining, "no"),
  latest <- OnHub(last, <<>>)

(* What eval and retrieval load from the dataset repository is one run's   *)
(* corpus: at every moment the documents are all of what one run           *)
(* collected, each as often as the run listed it, the fingerprint is       *)
(* theirs, and after a finished run they are that run's.  That each is     *)
(* there once is not promised: nothing takes a repeat of _collect out.     *)
(* It rests on one commit carrying the write.                              *)
(* A local directory has no such moment: a run stopped between a shard and *)
(* the manifest, then one that finds again what the manifest lists, leaves *)
(* the shard of the stopped run.                                           *)
CorpusKeepsPromise == Readers!Spec

(***************************************************************************)
(* What the documentation says and the code does not do.                   *)
(***************************************************************************)

(* "Postgres stores this so a retrieval hit can be turned back into the    *)
(* text" (corpus/writer.py): after a finished run every row's shard holds  *)
(* the text of its unit.                                                   *)
RowFindsText ==
  Settled =>
    \A u \in Units : rows[u] # NoRow =>
      LET shard == shards[rows[u].shard]
      IN  \E m \in DOMAIN shard : shard[m] = [unit |-> u, text |-> rows[u].text]
=============================================================================
