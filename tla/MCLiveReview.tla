---------------------------- MODULE MCLiveReview ----------------------------
(***************************************************************************)
(* Small instances of LiveReview for TLC.                                  *)
(***************************************************************************)
EXTENDS LiveReview, TLC

CONSTANTS a, b, c, r1, r2, r3

Keep(l) == [line |-> l, long |-> FALSE]

(* Nothing kept: the instances about deliveries and runs.                  *)
NothingKept == {<<>>}

(* Batches that share a line, and together are one more than the cap of 2: *)
(* the instance about what is posted.                                      *)
SomeKept == {<<Keep(b), Keep(a)>>, <<Keep(c), Keep(a)>>}

(* Workflow runs are interchangeable.                                      *)
RunSymmetry == Permutations(Runs)
=============================================================================
