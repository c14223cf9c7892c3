--------------------------- MODULE CommentPromise ---------------------------
(***************************************************************************)
(* What PR-Lens promises the authors of one pull request, with no tables,  *)
(* runs or requests in sight: its comments appear one at a time, never on  *)
(* a line that already carries one of them, never more than Cap in all,    *)
(* and nothing it does takes one back.  The promise is written down at the *)
(* head of migration 0004_posted_comments.sql and of review/post.py.       *)
(***************************************************************************)
EXTENDS Integers, FiniteSets

CONSTANT Cap        \* most comments PR-Lens leaves on one pull request

VARIABLE comments   \* its comments on GitHub; each has a field "line"

Init == comments = {}

(***************************************************************************)
(* One comment appears.                                                    *)
(***************************************************************************)
Publish ==
  /\ Cardinality(comments) < Cap
  /\ \E c \in comments' :
       /\ \A d \in comments : d.line # c.line
       /\ comments' = comments \cup {c}

Spec == Init /\ [][Publish]_comments
=============================================================================
