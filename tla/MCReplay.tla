------------------------------ MODULE MCReplay ------------------------------
(***************************************************************************)
(* Small instances of Replay for TLC: five pull requests of two            *)
(* repositories, two batches with different shuffles and, in some, a third *)
(* that is compared to the first.                                          *)
(***************************************************************************)
EXTENDS Replay, TLC

CONSTANTS j1, j2, j3, p1, p2, p3, q1, q2, P, Q, A, B, C, branch, name

TwoRepos == p1 :> P @@ p2 :> P @@ p3 :> P @@ q1 :> Q @@ q2 :> Q

TwoShuffles ==
  A :> (p1 :> 1 @@ p2 :> 2 @@ p3 :> 3 @@ q1 :> 4 @@ q2 :> 5 @@ P :> 6 @@ Q :> 7) @@
  B :> (q2 :> 1 @@ p1 :> 2 @@ q1 :> 3 @@ p3 :> 4 @@ p2 :> 5 @@ Q :> 6 @@ P :> 7)

ThreeShuffles == TwoShuffles @@ C :> TwoShuffles[B]

NoComparison == A :> <<>> @@ B :> <<>>
ThirdComparesFirst == NoComparison @@ C :> <<A>>

JobSymmetry == Permutations(Jobs) \cup Permutations(Groups)
=============================================================================
