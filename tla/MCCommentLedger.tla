--------------------------- MODULE MCCommentLedger ---------------------------
(***************************************************************************)
(* TLC instance of CommentLedger: lists of drafts on distinct lines, as    *)
(* the pipeline's gate produces them, one of which writes.py refuses.      *)
(***************************************************************************)
EXTENDS CommentLedger, TLC

CONSTANTS l1, l2, l3

D(l) == [line |-> l, long |-> FALSE]

\* Lists that share lines in either order, and one long body
SharedBatches ==
  { <<D(l1), D(l2)>>, <<D(l2), D(l1)>>, <<D(l2), D(l3)>>,
    <<[line |-> l1, long |-> TRUE], D(l3)>> }

Symmetry == Permutations(Runs)
=============================================================================
