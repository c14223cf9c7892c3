------------------------------- MODULE QuerySet -------------------------------
(***************************************************************************)
(* The query set of the retrieval evaluation: mined from review comments,  *)
(* screened, capped and frozen under a version name (eval/pairs.py,        *)
(* jobs/pairs.py, eval/split.py).                                          *)
(*                                                                         *)
(* Runs come one at a time (the concurrency group of retrieval.yml) and    *)
(* may die at any step.  Between two of them the listing, the corpus and   *)
(* the pull requests move on.  A comment is its faults, what screening     *)
(* would hold against it; of the listing it matters that a page boundary   *)
(* moves when a comment is posted during the walk, so that the comment at  *)
(* the boundary is listed twice.                                           *)
(***************************************************************************)
EXTENDS Integers, Sequences, FiniteSetsExt

CONSTANTS
  Tune,          \* the repositories of the tune split
  Requests,      \* what --repo may ask for
  ListingOf,     \* the comments of each repository, newest first
  FaultsOf, PullOf, AuthorOf, RankOf,   \* of each comment
  PullAuthor,    \* who opened each pull request
  MAX_PAIRS_PER_PR,
  PageSize,      \* per_page
  MaxPairsRuns

(* The rules of screen_comment, in their order.                            *)
ScreenRules ==
  <<"no_path_or_hunk", "reply", "bot", "emoji_only", "acknowledgement", "short",
    "empty_before_state", "body_quotes_hunk">>

NoFile == [sha256 |-> "no file"]

ASSUME PairsAssumption ==
  /\ IsFiniteSet(Tune) /\ Tune # {} /\ Tune \in Requests
  /\ ListingOf \in [Tune -> Seq(Nat)]
  /\ \A r \in Tune : \A i \in 1 .. Len(ListingOf[r]) :
       /\ FaultsOf[ListingOf[r][i]] \subseteq {ScreenRules[k] : k \in 1 .. Len(ScreenRules)}
       /\ RankOf[ListingOf[r][i]] \in Nat
  /\ MAX_PAIRS_PER_PR \in Nat \ {0} /\ PageSize \in Nat \ {0}
  /\ MaxPairsRuns \in Nat

VARIABLES
  pairsStore,  \* "local" or "hub"
  pairsAt,     \* where the run is
  requested,   \* the repositories it mines
  mined,       \* the result of each it has mined
  payload, frozenManifest,  \* the two files of the version
  everFrozen,  \* every manifest there ever was
  pairsRuns

resultVars == <<requested, mined>>
pairsVars == <<pairsStore, pairsAt, resultVars, payload, frozenManifest, everFrozen, pairsRuns>>

PairsTypeOK ==
  /\ pairsStore \in {"local", "hub"}
  /\ pairsAt \in {"idle", "mine", "payload", "manifest"}
  /\ requested \in Requests \cup {{}}
  /\ DOMAIN mined \subseteq requested
  /\ frozenManifest \in everFrozen \cup {NoFile}
  /\ pairsRuns \in 0 .. MaxPairsRuns

PairsInit ==
  /\ pairsStore \in {"local", "hub"}
  /\ pairsAt = "idle"
  /\ requested = {} /\ mined = <<>>
  /\ payload = NoFile /\ frozenManifest = NoFile
  /\ everFrozen = {}
  /\ pairsRuns = 0

-----------------------------------------------------------------------------
(* The first rule that fires, or "pair".                                   *)
Screen(c) ==
  LET fired == {i \in 1 .. Len(ScreenRules) : ScreenRules[i] \in FaultsOf[c]}
  IN  IF fired = {} THEN "pair" ELSE ScreenRules[Min(fired)]

(* Why a listed comment is out before the caps; facts has the pull         *)
(* requests that were found, and of these merged those that are.           *)
Verdict(c, indexed, merged) ==
  IF Screen(c) # "pair" THEN Screen(c)
  ELSE IF c \notin indexed THEN "gold_not_in_corpus"
  ELSE IF PullOf[c] \notin merged THEN "not_merged"
  ELSE IF PullAuthor[PullOf[c]] = AuthorOf[c] THEN "self_review"
  ELSE "pair"

(* Mutant: the latest comments of a pull request are kept.                 *)
LatestOfPull(listed, passed) ==
  {i \in passed : Cardinality({j \in passed : PullOf[listed[j]] = PullOf[listed[i]]
                                              /\ listed[j] > listed[i]}) < MAX_PAIRS_PER_PR}

(* cap_per_pr: positions in the listing; a comment id grows with time.     *)
CapPerPull(listed, passed) ==
  {i \in passed :
     Cardinality({j \in passed :
       /\ PullOf[listed[j]] = PullOf[listed[i]]
       /\ listed[j] < listed[i] \/ (listed[j] = listed[i] /\ j < i)}) < MAX_PAIRS_PER_PR}

RepoPairs(listed, indexed, merged) ==
  LET passed == {i \in 1 .. Len(listed) : Verdict(listed[i], indexed, merged) = "pair"}
      kept == CapPerPull(listed, passed)
      why(i) == IF i \in passed THEN "per_pr_cap" ELSE Verdict(listed[i], indexed, merged)
  IN  [listed |-> listed, merged |-> merged, indexed |-> indexed, pairs |-> kept,
       dropped |-> [i \in (1 .. Len(listed)) \ kept |-> why(i)]]

(* int() of the median of the counts.                                      *)
Median(counts, repos) ==
  LET Below(n) == Cardinality({r \in repos : counts[r] < n})
      UpTo(n) == Cardinality({r \in repos : counts[r] <= n})
      kth(k) == Min({counts[r] : r \in {q \in repos : UpTo(counts[q]) >= k}})
      n == Cardinality(repos)
  IN  (kth((n + 1) \div 2) + kth(n \div 2 + 1)) \div 2

Repeat(s, n) == SubSeq(s, 1, n) \o SubSeq(s, n, Len(s))

(* A walk of the listing: the last comment of a page may come again.       *)
Walks(r) == {ListingOf[r]} \cup 
            {Repeat(ListingOf[r], n) : n \in {k \in 1 .. Len(ListingOf[r]) : k % PageSize = 0}}

-----------------------------------------------------------------------------
EndRun ==
  /\ pairsAt' = "idle"
  /\ requested' = {} /\ mined' = <<>>

(* require_tune first; then a version that was frozen is read and left.    *)
RunPairs(repos) ==
  /\ pairsAt = "idle" /\ pairsRuns < MaxPairsRuns
  /\ pairsRuns' = pairsRuns + 1
  /\ IF repos \subseteq Tune /\ frozenManifest = NoFile
       THEN pairsAt' = "mine" /\ requested' = repos /\ UNCHANGED mined
       ELSE UNCHANGED <<pairsAt, resultVars>>
  /\ UNCHANGED <<pairsStore, payload, frozenManifest, everFrozen>>

(* A comment that is new since the corpus was mined is not in it; a pull   *)
(* request may be open, or gone.                                           *)
MineRepo(r) ==
  /\ pairsAt = "mine" /\ r \in requested \ DOMAIN mined
  /\ \E listed \in Walks(r) :
     \E indexed \in {{listed[i] : i \in n .. Len(listed)} : n \in 1 .. 2} :
     \E merged \in {DOMAIN PullAuthor, {PullOf[listed[Len(listed)]]}} :
       mined' = [q \in DOMAIN mined \cup {r} |->
                   IF q = r THEN RepoPairs(listed, indexed, merged) ELSE mined[q]]
  /\ pairsAt' = IF requested = DOMAIN mined \cup {r} THEN "payload" ELSE "mine"
  /\ UNCHANGED <<pairsStore, requested, payload, frozenManifest, everFrozen, pairsRuns>>

Cap == Median([r \in requested |-> Cardinality(mined[r].pairs)], requested)

(* cap_per_repo: the first of them by the hash of the id.                  *)
CapPerRepo(r) ==
  LET m == mined[r]
      RanksBefore(j, i) == \/ RankOf[m.listed[j]] < RankOf[m.listed[i]]
                           \/ RankOf[m.listed[j]] = RankOf[m.listed[i]] /\ j < i
      kept == {i \in m.pairs : Cardinality({j \in m.pairs : RanksBefore(j, i)}) < Cap}
  IN  [m EXCEPT !.pairs = kept,
                !.dropped = [i \in (1 .. Len(m.listed)) \ kept |->
                               IF i \in m.pairs THEN "per_repo_cap" ELSE m.dropped[i]]]

Frozen == [r \in requested |-> CapPerRepo(r)]

(* encode_pairs; its digest tells any two of them apart.  What a manifest  *)
(* keeps of before and of each listing is bookkeeping.                     *)
Encoded(results) ==
  UNION {{<<r, results[r].listed[i], i>> : i \in results[r].pairs} : r \in DOMAIN results}

ManifestOf(results) ==
  [sha256 |-> Encoded(results), cap |-> Cap, repos |-> results, before |-> mined]

(* freeze: one commit on the Hub; else a rename each, the pairs first.     *)
Freeze ==
  /\ pairsAt = "payload"
  /\ payload' = Encoded(Frozen)
  /\ IF pairsStore = "hub"
       THEN /\ frozenManifest' = ManifestOf(Frozen)
            /\ everFrozen' = everFrozen \cup {frozenManifest'}
            /\ EndRun
       ELSE pairsAt' = "manifest" /\ UNCHANGED <<frozenManifest, everFrozen, resultVars>>
  /\ UNCHANGED <<pairsStore, pairsRuns>>

FreezeManifest ==
  /\ pairsAt = "manifest"
  /\ frozenManifest' = ManifestOf(Frozen)
  /\ everFrozen' = everFrozen \cup {frozenManifest'}
  /\ EndRun
  /\ UNCHANGED <<pairsStore, payload, pairsRuns>>

(* GitHub refused, the corpus is missing, or the runner is gone.           *)
PairsRunDies ==
  /\ pairsAt # "idle"
  /\ EndRun
  /\ UNCHANGED <<pairsStore, payload, frozenManifest, everFrozen, pairsRuns>>

PairsNext ==
  \/ \E repos \in Requests : RunPairs(repos)
  \/ \E r \in Tune : MineRepo(r)
  \/ Freeze \/ FreezeManifest
  \/ PairsRunDies

PairsSpec == PairsInit /\ [][PairsNext]_pairsVars

-----------------------------------------------------------------------------
(* The comments of a mined repository that nothing speaks against.         *)
SoundOf(m) ==
  {i \in 1 .. Len(m.listed) : /\ FaultsOf[m.listed[i]] = {} /\ m.listed[i] \in m.indexed
                              /\ PullOf[m.listed[i]] \in m.merged
                              /\ PullAuthor[PullOf[m.listed[i]]] # AuthorOf[m.listed[i]]}

UpToHere(m, i) ==
  {j \in SoundOf(m) : PullOf[m.listed[j]] = PullOf[m.listed[i]] /\ m.listed[j] <= m.listed[i]}

PairOrDropped(m) ==
  m.pairs \subseteq SoundOf(m) /\ DOMAIN m.dropped = (1 .. Len(m.listed)) \ m.pairs

FirstOfTheirPull(m) ==
  \A i \in SoundOf(m) \ m.pairs :
    m.dropped[i] = "per_repo_cap" \/ Cardinality(UpToHere(m, i)) > MAX_PAIRS_PER_PR

CappedAtMedian(f) ==
  LET count(r) == Cardinality(f.before[r].pairs)
      repos == DOMAIN f.repos
  IN  /\ \A r \in repos : Cardinality(f.repos[r].pairs) = Min({f.cap, count(r)})
      /\ 2 * Cardinality({r \in repos : count(r) >= f.cap}) >= Cardinality(repos)
      /\ 2 * Cardinality({r \in repos : count(r) <= f.cap + 1}) >= Cardinality(repos)

(* "A version, once written, is never overwritten", whenever a run died:   *)
(* there is one manifest for ever, the pairs beside it have its digest,    *)
(* and load_pairs can read them.  Of a repository every comment seen is a  *)
(* pair or dropped by one rule; no comment of a pull request's first few   *)
(* sound ones is dropped but by the repository's cap; and that cap is at   *)
(* or above the count of half of the repositories, and at or below the     *)
(* count of half of them (but for the halves of a mean, rounded down).     *)
FrozenSetIsFair ==
  frozenManifest # NoFile =>
    /\ everFrozen = {frozenManifest} /\ payload = frozenManifest.sha256
    /\ DOMAIN frozenManifest.repos \subseteq Tune
    /\ \A r \in DOMAIN frozenManifest.repos :
         PairOrDropped(frozenManifest.repos[r]) /\ FirstOfTheirPull(frozenManifest.repos[r])
    /\ CappedAtMedian(frozenManifest)

(***************************************************************************)
(* What the documentation says and the code does not do.                   *)
(***************************************************************************)

(* "two embedding parts hold the same id" (Rows.join): no query id of a    *)
(* frozen set comes twice, or the set can never be embedded and joined.    *)
PairsAreDistinct ==
  frozenManifest # NoFile => \A p, q \in payload : p[1] = q[1] /\ p[2] = q[2] => p = q
=============================================================================
