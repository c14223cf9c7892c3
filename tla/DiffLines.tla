------------------------------ MODULE DiffLines ------------------------------
(***************************************************************************)
(* ingest/diff.py: the reader that turns a unified diff into hunks and a   *)
(* hunk into numbered lines.  Beside it stands git, which writes the diff  *)
(* one line at a time and knows where in the new file each line stands;    *)
(* what the reader says of the numbers is compared with that.              *)
(*                                                                         *)
(* Two shapes arrive: the patch of one file, whose path the caller knows,  *)
(* and a whole diff, whose paths stand in its "+++" lines.  A line is its  *)
(* first character, what follows it ("heads" reads like the rest of a      *)
(* file's header line), and for headers their path or counts.  A line      *)
(* that holds one of the breaks str.splitlines knows and git does not      *)
(* (form feed, U+2028, ...) reaches the reader as two.  The mark "blank"   *)
(* stands for the blank that begins an unchanged line.                     *)
(***************************************************************************)
EXTENDS Integers, Sequences, SequencesExt, FiniteSetsExt

CONSTANTS
  DiffPaths,  \* the files of the pull request
  MaxHunks,   \* a bound on the hunks git writes
  MaxSide,    \* a bound on a hunk's lines on either side
  MaxDiffLines,   \* a bound on the lines of all sides of all hunks
  Breaks      \* whether a line may hold a break that is not a newline

ASSUME DiffAssumption == DiffPaths # {} /\ MaxSide \in Nat \ {0} /\ Breaks \in BOOLEAN

NoPath == "no path"      \* None: no "+++" line yet, or "+++ /dev/null"
NoHeader == <<>>
LeftOut == 0 - 1          \* a header that leaves a count out

VARIABLES
  git,      \* the writer: where it stands and the lines it has put in the new file
  wire,     \* the physical lines written and not yet read
  parser    \* _parse: its path, header, body, counts left, and hunks

diffVars == <<git, wire, parser>>

Marks == {"+", "-", "blank", "\\", "@", "d", "x"}
Texts == {"plain", "heads", "torn"}

Content(mark, text) == [mark |-> mark, text |-> text, path |-> NoPath, counts |-> <<>>]
Preamble(p) == [mark |-> "+", text |-> "heads", path |-> p, counts |-> <<>>]
Opening(start, old, new) ==
  [mark |-> "@", text |-> "plain", path |-> NoPath, counts |-> <<start, old, new>>]

-----------------------------------------------------------------------------
(* git.  A shape is chosen once; the hunks of a file do not touch.         *)
DiffInit ==
  /\ \E whole \in BOOLEAN :
     \E shape \in IF whole THEN {NoPath} ELSE {CHOOSE p \in DiffPaths : TRUE} :
       /\ git = [path |-> shape, whole |-> whole, files |-> {}, hunks |-> 0, size |-> 0,
                 at |-> 1, old |-> 0, new |-> 0, marked |-> FALSE, last |-> "blank",
                 shut |-> FALSE, lines |-> {}]
       /\ parser = [path |-> shape, header |-> NoHeader, body |-> <<>>, old |-> 0,
                    new |-> 0, hunks |-> <<>>, over |-> FALSE]
  /\ wire = <<>>

Between == wire = <<>> /\ ~parser.over /\ git.old = 0 /\ git.new = 0

(* "diff --git", "--- a/x" and "+++ b/x", or "+++ /dev/null".              *)
WriteFile(p, deleted) ==
  /\ Between /\ git.whole /\ p \notin git.files
  /\ git' = [git EXCEPT !.path = IF deleted THEN NoPath ELSE p, !.files = @ \cup {p},
                        !.at = 1, !.marked = FALSE, !.last = "blank", !.shut = FALSE]
  /\ wire' = << Content("d", "plain"), Content("-", "heads"),
                Preamble(IF deleted THEN NoPath ELSE p) >>
  /\ UNCHANGED parser

(* The counts are left out when they are 1.  A deleted file has no new     *)
(* side; nothing follows the hunk that held the file's last line.          *)
WriteHunk(old, new) ==
  /\ Between /\ ~git.shut /\ ~git.marked /\ git.hunks < MaxHunks
  /\ old + new > 0 /\ git.size + old + new <= MaxDiffLines
  /\ git.whole => git.files # {}
  /\ git.path = NoPath => new = 0
  /\ LET count(n) == IF n = 1 THEN LeftOut ELSE n
         start == git.at + 1
     IN /\ git' = [git EXCEPT !.hunks = @ + 1, !.size = @ + old + new, !.at = start,
                              !.old = old, !.new = new, !.last = "blank",
                              !.shut = git.path = NoPath]
        /\ wire' = <<Opening(start, count(old), count(new))>>
  /\ UNCHANGED parser

(* A content line: what is removed stands before what is added in its      *)
(* place; one with a break in it is two physical lines.                    *)
WriteLine(mark, text) ==
  /\ wire = <<>> /\ mark \in {"+", "-", "blank"}
  /\ (text = "torn" => Breaks) /\ (text = "heads" => mark # "blank")
  /\ ~(mark = "-" /\ git.last = "+")
  /\ mark # "+" => git.old > 0
  /\ mark # "-" => git.new > 0
  /\ git' = [git EXCEPT !.old = IF mark = "+" THEN @ ELSE @ - 1,
                        !.new = IF mark = "-" THEN @ ELSE @ - 1,
                        !.at = IF mark = "-" THEN @ ELSE @ + 1,
                        !.last = mark,
                        !.lines = IF mark = "-" THEN @ ELSE @ \cup
                           {[path |-> git.path, at |-> git.at, mark |-> mark, text |-> text]}]
  /\ wire' = IF text = "torn" THEN <<Content(mark, text), Content("x", "plain")>>
                              ELSE <<Content(mark, text)>>
  /\ UNCHANGED parser

(* "\ No newline at end of file", after the last line of either side.      *)
WriteNoNewline ==
  /\ wire = <<>> /\ ~parser.over /\ git.hunks > 0
  /\ ~(git.last # "+" /\ git.old > 0) /\ ~(git.last # "-" /\ git.new > 0)
  /\ parser.body # <<>> /\ Last(parser.body).mark # "\\"
  /\ git' = [git EXCEPT !.marked = TRUE]
  /\ wire' = <<Content("\\", "plain")>>
  /\ UNCHANGED parser

-----------------------------------------------------------------------------
(* The reader.                                                             *)
NextLine == Head(wire)

Left(count) == IF count = LeftOut THEN 1 ELSE count

Flushed ==
  IF parser.header = NoHeader \/ parser.path = NoPath THEN parser.hunks
  ELSE Append(parser.hunks,
              [path |-> parser.path, start |-> parser.header[1], lines |-> parser.body])

(* Mutant: what reads like a file's header ends the hunk.                  *)
UntilAHeader ==
  /\ parser.header # NoHeader /\ (parser.old > 0 \/ parser.new > 0)
  /\ ~(NextLine.mark = "+" /\ NextLine.text = "heads")

(* Inside a hunk the counts decide what is content, never the text.        *)
InHunk == parser.header # NoHeader /\ (parser.old > 0 \/ parser.new > 0)

TakeContent ==
  /\ InHunk
  /\ parser' = [parser EXCEPT
       !.body = Append(@, NextLine),
       !.old = IF NextLine.mark \in {"+", "\\"} THEN @ ELSE @ - 1,
       !.new = IF NextLine.mark \in {"-", "\\"} THEN @ ELSE @ - 1]

TakeTrailer ==
  /\ ~InHunk /\ parser.header # NoHeader /\ NextLine.mark = "\\"
  /\ parser' = [parser EXCEPT !.body = Append(@, NextLine)]

TakeHeader ==
  /\ ~InHunk /\ NextLine.mark = "@"
  /\ parser' = [parser EXCEPT !.hunks = Flushed, !.header = NextLine.counts, !.body = <<>>,
                              !.old = Left(NextLine.counts[2]),
                              !.new = Left(NextLine.counts[3])]

TakePreamble ==
  /\ ~InHunk /\ NextLine.mark # "@"
  /\ ~(parser.header # NoHeader /\ NextLine.mark = "\\")
  /\ parser' = [parser EXCEPT !.hunks = Flushed, !.header = NoHeader, !.body = <<>>,
       !.path = IF NextLine.mark = "+" /\ NextLine.text = "heads" THEN NextLine.path ELSE @]

ReadLine ==
  /\ wire # <<>>
  /\ TakeContent \/ TakeTrailer \/ TakeHeader \/ TakePreamble
  /\ wire' = Tail(wire)
  /\ UNCHANGED git

ReadAll ==
  /\ Between /\ parser' = [parser EXCEPT !.hunks = Flushed, !.header = NoHeader, !.over = TRUE]
  /\ UNCHANGED <<git, wire>>

DiffNext ==
  \/ \E p \in DiffPaths, deleted \in BOOLEAN : WriteFile(p, deleted)
  \/ \E old \in 0 .. MaxSide, new \in 0 .. MaxSide : WriteHunk(old, new)
  \/ \E mark \in Marks, text \in Texts : WriteLine(mark, text)
  \/ WriteNoNewline
  \/ ReadLine
  \/ ReadAll

DiffSpec == DiffInit /\ [][DiffNext]_diffVars

-----------------------------------------------------------------------------
(* Hunk.new_file_lines: every line but the removed ones and the marks is   *)
(* counted from the header's start; only "+" and "blank" are given out.    *)
Counted(lines) == {k \in DOMAIN lines : lines[k].mark \notin {"-", "\\"}}

CountedBefore(lines, k) == {i \in Counted(lines) : i < k}

Numbered(path, start, lines, k) ==
  [path |-> path, at |-> start + Cardinality(CountedBefore(lines, k)),
   mark |-> lines[k].mark, text |-> lines[k].text]

NewFileLines(hunk) ==
  {Numbered(hunk.path, hunk.start, hunk.lines, k) :
     k \in {i \in DOMAIN hunk.lines : hunk.lines[i].mark \in {"+", "blank"}}}

DiffLine == [mark : Marks, text : Texts, path : DiffPaths \cup {NoPath}, counts : Seq(Int)]
Hunk == [path : DiffPaths, start : Int, lines : Seq(DiffLine)]
GitLine == [path : DiffPaths \cup {NoPath}, at : Int, mark : Marks, text : Texts]

DiffTypeOK ==
  /\ git \in [path : DiffPaths \cup {NoPath}, whole : BOOLEAN, files : SUBSET DiffPaths,
              hunks : Nat, size : Nat, at : Nat, old : 0 .. MaxSide, new : 0 .. MaxSide,
              marked : BOOLEAN, last : Marks, shut : BOOLEAN, lines : SUBSET GitLine]
  /\ wire \in Seq(DiffLine)
  /\ parser \in [path : DiffPaths \cup {NoPath}, header : Seq(Int), body : Seq(DiffLine),
                 old : Int, new : Int, hunks : Seq(Hunk), over : BOOLEAN]

(* When a diff has been read to its end, the lines its hunks carry, with   *)
(* path, number and text, are exactly the lines git put there: no line     *)
(* that reads like a header cut a hunk short, no mark shifted a number, no *)
(* hunk went to another file, none of a deleted file is left.  These       *)
(* numbers are where comments are posted (diff.py:41, pipeline.py:243).    *)
NumbersAreTrue ==
  parser.over =>
    UNION {NewFileLines(parser.hunks[i]) : i \in DOMAIN parser.hunks} = git.lines
=============================================================================
