--------------------------- MODULE MCCorpusIngest ---------------------------
(***************************************************************************)
(* A small instance of CorpusIngest for TLC: three source units and three  *)
(* issues, two rows to a shard, a window of two issues.                    *)
(***************************************************************************)
EXTENDS CorpusIngest, TLC

CONSTANTS s1, s2, s3, i1, i2, i3

SixKinds == s1 :> "source" @@ s2 :> "source" @@ s3 :> "source" @@
            i1 :> "issue" @@ i2 :> "issue" @@ i3 :> "issue"

SixRanks == s1 :> 1 @@ s2 :> 2 @@ s3 :> 3 @@ i1 :> 4 @@ i2 :> 5 @@ i3 :> 6

Listed(u) == [unit |-> u, text |-> 1]
Edited(u) == [unit |-> u, text |-> 2]

(* The tree: two files, a third that sorts first, one edited.              *)
Tree == <<Listed(s2), Listed(s3)>>
Grown == <<Listed(s2), Listed(s1), Listed(s3)>>

(* The issues, newest first: the two most recent, a newer one in the place *)
(* of one of them.                                                         *)
Window == <<Listed(i2), Listed(i1)>>
Moved == <<Listed(i3), Listed(i2)>>

(* Two pages gave an issue twice, when the boundary moved; in the second   *)
(* it was edited between the pages.  Sorted, its two lines are in one      *)
(* shard, or the first in one and the second in the next.                  *)
Twice == <<Listed(i3), Listed(i2), Listed(i2)>>
TwiceEdited == <<Listed(i2), Edited(i2), Listed(i1)>>

(* With a tree and without.                                                *)
TreesAndWindows ==
  { Tree \o Window, Grown \o Moved, <<Edited(s2)>> \o Moved, Moved,
    Tree \o Twice, TwiceEdited }
=============================================================================
