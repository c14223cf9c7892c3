----------------------------- MODULE MCQuerySet -----------------------------
(***************************************************************************)
(* A small instance of QuerySet for TLC: three repositories of the tune    *)
(* split, one with two pull requests of three comments each, one of which  *)
(* fails two rules; a page is three comments.                              *)
(***************************************************************************)
EXTENDS QuerySet

ThreeRepos == {"a", "b", "c"}

(* The whole split, a part of it, and a request for the holdout.           *)
ThreeRequests == {ThreeRepos, {"a", "b"}, {"a", "held"}}

ShortListings == [r \in ThreeRepos |->
  CASE r = "a" -> <<16, 15, 14, 13, 12, 11>> [] r = "b" -> <<22, 21>> [] r = "c" -> <<32, 31>>]

CommentIds == 11 .. 16 \cup 21 .. 22 \cup 31 .. 32

TwoFaulty == [c \in CommentIds |->
  CASE c = 15 -> {"short", "reply"} [] c = 32 -> {"bot"} [] OTHER -> {}]

PullsOfThree == [c \in CommentIds |->
  CASE c \in {14, 15, 16} -> "p" [] c \in {11, 12, 13} -> "q" [] c > 20 -> "r"]

(* One comment is the author's own.                                        *)
OneByTheAuthor == [c \in CommentIds |-> IF c = 16 THEN "x" ELSE "y"]
OneOpener == [p \in {"p", "q", "r"} |-> "x"]

Shuffled == [c \in CommentIds |-> (c * 7) % 11]
=============================================================================
