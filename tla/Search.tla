-------------------------------- MODULE Search --------------------------------
(***************************************************************************)
(* Past comments for a review (review/retrieve.py over retrieval/search.py *)
(* and eval/vectors.py), and the rankings the recall table compares        *)
(* (eval/recall.py): an exact search before the filter, one filtered       *)
(* after, rank fusion with BM25, and a cross-encoder over the first few.   *)
(*                                                                         *)
(* A document is its row and its score for the one query; what a model     *)
(* makes the score of is left out.  Scores tie, and argpartition then      *)
(* takes any of the equals.                                                *)
(***************************************************************************)
EXTENDS Integers, Sequences, FiniteSetsExt

CONSTANTS
  Documents,    \* the corpus in row order: kind, number, body, automated
  Holdout,      \* repositories that are never read
  Repositories, \* those that may come up for review
  MaxScore,
  K,            \* COMMENTS_PER_HUNK, and POST_FILTER_K
  Budgets,      \* POST_FILTER_CANDIDATES, and PLATEAU_DEPTHS
  FUSION_DEPTH, \* how deep the two rankings go that are fused
  RRF_K,
  Scale         \* a number that RRF_K + rank divides, for every rank in use

Rows == 1 .. Len(Documents)

ASSUME SearchAssumption ==
  /\ Documents \in Seq([kind : {"review_comment", "source"}, number : Nat,
                        body : BOOLEAN, automated : BOOLEAN])
  /\ MaxScore \in Nat /\ K \in Nat \ {0}
  /\ IsFiniteSet(Budgets) /\ Budgets # {} /\ Budgets \subseteq Nat \ {0}
  /\ FUSION_DEPTH \in Nat \ {0} /\ RRF_K \in Nat /\ Scale \in Nat
  /\ \A rank \in 1 .. FUSION_DEPTH : Scale % (RRF_K + rank) = 0

VARIABLES
  repository, \* the one under review
  scores,     \* of each row, for this query
  before,     \* the number of the pull request under review
  asked,      \* "new", "searched", "fused", "reranked"; "refused" for the holdout
  found,      \* what the review is shown: rows, nearest first
  deepest,    \* the search of the recall table that filters afterwards
  dense,      \* the rankings that are fused: the exact search,
  lexical,    \* and BM25
  fused,
  reranked    \* fused after the cross-encoder, by depth

rankings == <<found, deepest, dense, lexical, fused, reranked>>
searchVars == <<repository, scores, before, asked, rankings>>

IsRanking(s) ==
  /\ s \in Seq(Rows) /\ \A i, j \in 1 .. Len(s) : s[i] = s[j] => i = j

SearchTypeOK ==
  /\ repository \in Repositories
  /\ scores \in [Rows -> 0 .. MaxScore] /\ before \in Nat
  /\ asked \in {"new", "refused", "searched", "fused", "reranked"}
  /\ \A s \in {found, deepest, dense, lexical, fused} : IsRanking(s)
  /\ \A d \in DOMAIN reranked : IsRanking(reranked[d])

SearchInit ==
  /\ repository \in Repositories
  /\ scores \in [Rows -> 0 .. MaxScore]
  /\ before \in {Documents[r].number : r \in Rows}
  /\ asked = "new"
  /\ found = <<>> /\ deepest = <<>> /\ dense = <<>> /\ lexical = <<>>
  /\ fused = <<>> /\ reranked = <<>>

-----------------------------------------------------------------------------
(* The rows of load_index: comments by people, with a body and a number.   *)
(* A number of 0 is a record without one.                                  *)
Comments ==
  {r \in Rows : /\ Documents[r].kind = "review_comment"
                /\ Documents[r].number # 0
                /\ Documents[r].body
                /\ ~Documents[r].automated}

(* Mutant: the pull request under review is let in.                        *)
AllowedUpTo == {r \in Comments : Documents[r].number <= before}

Allowed == {r \in Comments : Documents[r].number < before}

(* A set in an order that is given by its pairs.                           *)
InOrder(set, pairs) ==
  [i \in 1 .. Cardinality(set) |->
     CHOOSE r \in set : Cardinality({q \in set : <<q, r>> \in pairs}) = i - 1]

(* The order of lexsort: best first, equals by row.                        *)
BestFirst(rows, by) ==
  {p \in rows \X rows : by[p[1]] > by[p[2]] \/ (by[p[1]] = by[p[2]] /\ p[1] < p[2])}

Sorted(rows, by) == InOrder(rows, BestFirst(rows, by))

Least(a, b) == IF a < b THEN a ELSE b

(* The rankings top_k may return: which of the rows that tie for the last  *)
(* places are in is argpartition's choice.                                 *)
TopK(k, allowed) ==
  {Sorted(rows, scores) : rows \in
     {some \in kSubset(Least(k, Cardinality(allowed)), allowed) :
        \A r \in some : \A q \in allowed \ some : scores[r] >= scores[q]}}

Prefix(s, n) == [i \in 1 .. Least(n, Len(s)) |-> s[i]]

(* What is left of the first candidates after the filter.                  *)
Survivors(budget) == {i \in 1 .. Least(budget, Len(deepest)) : deepest[i] \in Allowed}

PostFilter(budget) ==
  LET kept == Survivors(budget)
      order == InOrder(kept, {p \in kept \X kept : p[1] < p[2]})
  IN  [i \in 1 .. Least(K, Cardinality(kept)) |-> deepest[order[i]]]

-----------------------------------------------------------------------------
Refuse ==
  /\ asked = "new" /\ repository \in Holdout
  /\ asked' = "refused"
  /\ UNCHANGED <<repository, scores, before, rankings>>

SearchComments ==
  /\ asked = "new" /\ repository \notin Holdout
  /\ found' \in TopK(K, Allowed)
  /\ deepest' \in TopK(Max(Budgets), Rows)
  /\ asked' = "searched"
  /\ UNCHANGED <<repository, scores, before, dense, lexical, fused, reranked>>

(* Where a ranking has a row: behind all of it, when nowhere.              *)
Place(ranking, r) == Min({i \in 1 .. Len(ranking) : ranking[i] = r} \cup {Len(ranking) + 1})

(* 1 / (RRF_K + rank), times Scale.                                        *)
Share(ranking, r) ==
  IF Place(ranking, r) > Len(ranking) THEN 0 ELSE Scale \div (RRF_K + Place(ranking, r))

Weight(r) == Share(dense, r) + Share(lexical, r)

(* First appearance: the first list, then what only the second has.        *)
Appearance(r) ==
  IF Place(dense, r) <= Len(dense) THEN Place(dense, r) ELSE Len(dense) + Place(lexical, r)

Ranked == {dense[i] : i \in 1 .. Len(dense)} \cup {lexical[i] : i \in 1 .. Len(lexical)}

Ahead(r, q) == Weight(r) > Weight(q) \/ (Weight(r) = Weight(q) /\ Appearance(r) < Appearance(q))

(* reciprocal_rank_fusion.                                                 *)
Fusion == InOrder(Ranked, {p \in Ranked \X Ranked : Ahead(p[1], p[2])})

(* BM25 ranks by scores of its own, as deep as the exact search.           *)
Fuse ==
  /\ asked = "searched"
  /\ dense' \in TopK(FUSION_DEPTH, Rows)
  /\ lexical' \in [1 .. Least(FUSION_DEPTH, Len(Documents)) -> Rows]
  /\ IsRanking(lexical')
  /\ fused' = Prefix(Fusion', FUSION_DEPTH)
  /\ asked' = "fused"
  /\ UNCHANGED <<repository, scores, before, found, deepest, reranked>>

(* The first candidates by the cross-encoder's scores, stably.             *)
Reordered(depth, cross) ==
  LET head == 1 .. Least(depth, Len(fused))
      order == Sorted(head, cross)
  IN  [i \in head |-> fused[order[i]]]

(* rerank_plateau: each candidate is scored once, and each depth reorders  *)
(* only its own prefix, by a prefix of those scores.                       *)
Rerank ==
  /\ asked = "fused"
  /\ \E cross \in [1 .. Len(fused) -> 0 .. MaxScore] :
       reranked' = [d \in Budgets |-> Reordered(d, cross)]
  /\ asked' = "reranked"
  /\ UNCHANGED <<repository, scores, before, found, deepest, dense, lexical, fused>>

SearchNext == Refuse \/ SearchComments \/ Fuse \/ Rerank

SearchSpec == SearchInit /\ [][SearchNext]_searchVars

-----------------------------------------------------------------------------
(* The comments shown are of people and of earlier pull requests, as many  *)
(* as there are, and none that scores more than one shown is left out.     *)
NearestOfThePast ==
  /\ Len(found) = Least(K, Cardinality(Allowed))
  /\ \A i \in 1 .. Len(found) :
       /\ Documents[found[i]].number \in 1 .. before - 1
       /\ ~Documents[found[i]].automated
       /\ \A r \in Comments : Documents[r].number < before /\ scores[r] > scores[found[i]] =>
            Place(found, r) < i

(* Filtering afterwards loses only what the candidate budget ran out of.   *)
FilteringLosesTheRest ==
  \A b \in Budgets :
    /\ \A i \in 1 .. Len(PostFilter(b)) : scores[PostFilter(b)[i]] = scores[found[i]]
    /\ Len(PostFilter(b)) <= Len(found)
    /\ Len(PostFilter(b)) < Len(found) => b < Len(Documents)

(* A row that both lists put ahead of another is ahead of it in the fusion.*)
FusionAgrees ==
  \A r, q \in Rows :
    /\ Place(dense, r) <= Place(dense, q) /\ Place(lexical, r) < Place(lexical, q)
    /\ Place(fused, q) <= Len(fused)
    => Place(fused, r) < Place(fused, q)

(* A cross-encoder brings in nothing that the first stage did not find.    *)
OnlyReorders ==
  \A d \in Budgets :
    {reranked[d][i] : i \in 1 .. Len(reranked[d])} = {fused[i] : i \in 1 .. Least(d, Len(fused))}

(* "A pull request never sees its own review comments, or any later pull   *)
(* request's", nor a robot's, nor too few: the filter runs before the      *)
(* ranking.  What the recall table compares it with, a filter that runs    *)
(* afterwards, rank fusion and a cross-encoder, is what it says it is.     *)
PastOnly ==
  /\ asked \in {"searched", "fused", "reranked"} =>
       repository \notin Holdout /\ NearestOfThePast /\ FilteringLosesTheRest
  /\ asked \in {"fused", "reranked"} => FusionAgrees
  /\ asked = "reranked" => OnlyReorders
=============================================================================
