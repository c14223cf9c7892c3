-------------------------------- MODULE Chunks --------------------------------
(***************************************************************************)
(* ingest/chunking.py and the naming in ingest/mine.py: a file cut into    *)
(* chunks along the structure it has, each chunk a corpus unit under       *)
(* <<symbol, ordinal>>.  The file grows by a line at a time, and after     *)
(* every push it is cut anew; so every prefix is a file that was mined.    *)
(*                                                                         *)
(* A line is its kind and its length.  In Python: code, note (a comment),  *)
(* blank, deco (a decorator), def and class at the top, meth and attr in a *)
(* class, in (the body of a function).  In Markdown: h1, h2, fence, code   *)
(* and blank; in reStructuredText an underline, under, which may stand     *)
(* anywhere and be too short.  Anything else is packed line by line.       *)
(*                                                                         *)
(* The lines are those of splitlines(), which also ends one at a form feed *)
(* or a line separator; to ast such a line is glued to the next, and the   *)
(* numbers it gives count the line breaks that it sees.                    *)
(***************************************************************************)
EXTENDS Integers, Sequences, SequencesExt, FiniteSetsExt

CONSTANTS
  MAX_CHARS, MIN_CHARS,
  Lengths,      \* the lengths of a line; only code and underlines vary
  BrokenKinds,  \* the kinds of line that a break only splitlines sees may end
  MaxFile       \* a bound on the lines of a file

ASSUME ChunksAssumption ==
  /\ MAX_CHARS \in Nat /\ MIN_CHARS \in 1 .. MAX_CHARS /\ MaxFile \in Nat
  /\ Lengths \subseteq Nat \ {0}

VARIABLES
  suffix,   \* "py", "md", "rst" or "txt"
  source,   \* the lines of the file
  fileUnits     \* the units of the file, in order

chunkVars == <<suffix, source, fileUnits>>

NoSymbol == <<>>

-----------------------------------------------------------------------------
(* Lines from i to j as one chunk, and the length of its text: the lines   *)
(* joined by newlines.                                                     *)
TextLength(lines, i, j) ==
  SumFunctionOnSet([k \in DOMAIN lines |-> lines[k].length], i .. j) + (j - i)
Blank(lines, i, j) == \A k \in i .. j : lines[k].kind = "blank"
Chunk(lines, i, j, symbol) ==
  [from |-> i, to |-> j, symbol |-> symbol, length |-> TextLength(lines, i, j)]

Across(first, last) == [k \in 1 .. last - first + 1 |-> first + k - 1]

(* A chunk with nothing in it is none.                                     *)
WithChunk(chunks, lines, i, j, symbol) ==
  IF Blank(lines, i, j) THEN chunks ELSE Append(chunks, Chunk(lines, i, j, symbol))

(* chunk_lines: whole lines packed up to the limit; a line longer than the *)
(* limit stands alone.                                                     *)
PackLine(lines, symbol, acc, k) ==
  LET cost == lines[k].length + 1
  IN IF acc.size > 0 /\ acc.size + cost > MAX_CHARS
       THEN [chunks |-> WithChunk(acc.chunks, lines, acc.from, k - 1, symbol),
             from |-> k, size |-> cost]
       ELSE [acc EXCEPT !.size = @ + cost]

Packed(lines, first, last, symbol) ==
  LET end == FoldLeft(LAMBDA acc, k : PackLine(lines, symbol, acc, k),
                      [chunks |-> <<>>, from |-> first, size |-> 0], Across(first, last))
  IN IF end.from <= last THEN WithChunk(end.chunks, lines, end.from, last, symbol) ELSE end.chunks

(* _sized: one chunk if it fits, windows under the same symbol if not; the *)
(* text is split anew for them, without an empty line at its very end.     *)
Sized(lines, i, j, symbol) ==
  IF i > j \/ Blank(lines, i, j) THEN <<>>
  ELSE IF TextLength(lines, i, j) <= MAX_CHARS THEN <<Chunk(lines, i, j, symbol)>>
  ELSE Packed(lines, i, IF lines[j].kind = "blank" THEN j - 1 ELSE j, symbol)

(* The chunks so far, and what stands between the cursor and line j.       *)
UpTo(lines, acc, j, symbol) == acc.chunks \o Sized(lines, acc.cursor, j, symbol)

(* _merge_runts: what is almost empty goes into what follows, if it fits.  *)
Merge(done, chunk) ==
  LET before == Last(done)
      joined == before.length + 1 + chunk.length
  IN IF done # <<>> /\ before.length < MIN_CHARS /\ joined <= MAX_CHARS
       THEN Append(Front(done), [before EXCEPT !.to = chunk.to, !.length = joined])
       ELSE Append(done, chunk)

Merged(chunks) == FoldLeft(Merge, <<>>, chunks)

-----------------------------------------------------------------------------
(* Python.  ast.parse fails on a decorator with nothing under it.          *)
Parses(lines) == Last(lines).kind # "deco"

Inside(kind) ==
  {"in", "note", "blank"} \cup IF kind = "class" THEN {"meth", "attr"} ELSE {}

(* A line as ast numbers it.                                               *)
AstLine(lines, k) == 1 + Cardinality({n \in 1 .. k - 1 : ~lines[n].glued})

(* What one line of ast may hold: one kind of text, and nothing more.      *)
MayShare(a, b) == "blank" \in {a, b} \/ (a = b /\ a \in {"code", "in", "note"})
Readable(lines) ==
  \A n, k \in DOMAIN lines :
    n < k /\ AstLine(lines, n) = AstLine(lines, k) => MayShare(lines[n].kind, lines[k].kind)

(* Where a definition ends, after the last line of its body, and where it  *)
(* begins: the decorators belong to it.                                    *)
EndsAt(lines, i) ==
  Max({j \in i .. Len(lines) :
         /\ \A k \in i + 1 .. j : lines[k].kind \in Inside(lines[i].kind)
         /\ lines[j].kind \notin {"note", "blank"}})

DeclaredAt(lines, i) ==
  Min({k \in 1 .. i : \A n \in k .. i - 1 : lines[n].kind = "deco"})

(* node.end_lineno and _declaration_line, the numbers of ast for the two.  *)
(* They are used as numbers of splitlines().                               *)
EndOf(lines, i) == AstLine(lines, EndsAt(lines, i))
DeclarationLine(lines, i) == AstLine(lines, DeclaredAt(lines, i))

(* Mutant: the comments above the definition stay where they were.         *)
FromTheDeclaration(lines, declaration, floor) == declaration

(* _leading_comment_start: back over the comments and blank lines above,   *)
(* not past the floor, then forward over the blank ones.                   *)
LeadingCommentStart(lines, declaration, floor) ==
  LET back == Min({declaration} \cup
                    {k \in floor .. declaration - 1 :
                       \A n \in k .. declaration - 1 : lines[n].kind \in {"note", "blank"}})
  IN Min({k \in back .. declaration : k = declaration \/ lines[k].kind # "blank"})

(* _split_class: the header and what stands between, and the methods.      *)
AddMethod(lines, i, acc, m) ==
  LET from == LeadingCommentStart(lines, AstLine(lines, m), acc.cursor)
      to == EndOf(lines, m)
  IN IF lines[m].kind # "meth" THEN acc
     ELSE [chunks |-> UpTo(lines, acc, from - 1, <<i>>) \o Sized(lines, from, to, <<i, m>>),
           cursor |-> to + 1]

SplitClass(lines, i, start, end) ==
  LET methods == FoldLeft(LAMBDA acc, m : AddMethod(lines, i, acc, m),
                          [chunks |-> <<>>, cursor |-> start], Across(i, EndsAt(lines, i)))
  IN Merged(UpTo(lines, methods, end, <<i>>))

AddDefinition(lines, acc, i) ==
  LET start == LeadingCommentStart(lines, DeclarationLine(lines, i), acc.cursor)
      end == EndOf(lines, i)
      split == lines[i].kind = "class" /\ TextLength(lines, start, end) > MAX_CHARS
  IN IF lines[i].kind \notin {"def", "class"} THEN acc
     ELSE [chunks |-> UpTo(lines, acc, start - 1, NoSymbol)
             \o (IF split THEN SplitClass(lines, i, start, end) ELSE Sized(lines, start, end, <<i>>)),
           cursor |-> end + 1]

ChunkPython(lines) ==
  LET definitions == FoldLeft(LAMBDA acc, i : AddDefinition(lines, acc, i),
                              [chunks |-> <<>>, cursor |-> 1], Across(1, Len(lines)))
  IN UpTo(lines, definitions, Len(lines), NoSymbol)

-----------------------------------------------------------------------------
(* Markdown.  Headings outside fences start a section; its name is the     *)
(* trail of headings, cut to the heading's level.                          *)
Level(kind) == IF kind = "h1" THEN 1 ELSE 2

AddHeading(lines, acc, k) ==
  LET kind == lines[k].kind
      trail == Append(SubSeq(acc.trail, 1, Min({Level(kind) - 1, Len(acc.trail)})), k)
  IN IF kind = "fence" THEN [acc EXCEPT !.fenced = ~@]
     ELSE IF acc.fenced \/ kind \notin {"h1", "h2"} THEN acc
     ELSE [acc EXCEPT !.trail = trail, !.starts = Append(@, [at |-> k, symbol |-> trail])]

Headings(lines) ==
  FoldLeft(LAMBDA acc, k : AddHeading(lines, acc, k),
           [fenced |-> FALSE, trail |-> <<>>, starts |-> <<>>], Across(1, Len(lines))).starts

(* chunk_rst: a heading is any line with an underline as long below it.    *)
IsTitle(lines, k) ==
  /\ k < Len(lines) /\ lines[k].kind # "blank" /\ lines[k + 1].kind = "under"
  /\ lines[k + 1].length >= lines[k].length
AddTitle(lines, starts, k) ==
  IF IsTitle(lines, k) THEN Append(starts, [at |-> k, symbol |-> <<k>>]) ELSE starts
Underlined(lines) ==
  FoldLeft(LAMBDA starts, k : AddTitle(lines, starts, k), <<>>, Across(1, Len(lines)))

(* _sections: what stands before the first heading has no name.            *)
Sections(lines, starts) ==
  LET all == IF starts = <<>> \/ Head(starts).at > 1
               THEN <<[at |-> 1, symbol |-> NoSymbol]>> \o starts ELSE starts
      end(n) == IF n < Len(all) THEN all[n + 1].at - 1 ELSE Len(lines)
  IN Merged(FlattenSeq([n \in DOMAIN all |-> Sized(lines, all[n].at, end(n), all[n].symbol)]))

ChunkFile(kind, lines) ==
  IF lines = <<>> THEN <<>>
  ELSE IF kind = "md" THEN Sections(lines, Headings(lines))
  ELSE IF kind = "rst" THEN Sections(lines, Underlined(lines))
  ELSE IF kind = "py" /\ Parses(lines) THEN ChunkPython(lines)
  ELSE Packed(lines, 1, Len(lines), NoSymbol)

(* source_and_doc_units: an ordinal for each symbol.                       *)
Numbered(chunks) ==
  [n \in DOMAIN chunks |->
    [chunk |-> chunks[n],
     ordinal |-> Cardinality({k \in 1 .. n - 1 : chunks[k].symbol = chunks[n].symbol})]]
SourceUnits(kind, lines) == Numbered(ChunkFile(kind, lines))

-----------------------------------------------------------------------------
(* Where a Python line may stand: the definition it would be in.           *)
Opened ==
  LET starts == {i \in DOMAIN source : source[i].kind \in {"def", "class", "code", "deco"}}
  IN IF starts = {} THEN "code" ELSE source[Max(starts)].kind
InMethod ==
  LET starts == {i \in DOMAIN source : source[i].kind \in {"meth", "attr", "class"}}
  IN starts # {} /\ source[Max(starts)].kind = "meth"

MayFollow(kind) ==
  CASE suffix = "md" -> kind \in {"h1", "h2", "fence", "code", "blank"}
    [] suffix = "rst" -> kind \in {"code", "under", "blank"}
    [] suffix = "txt" -> kind \in {"code", "blank"}
    [] OTHER ->
         /\ kind \in {"meth", "attr"} => Opened = "class"
         /\ kind = "in" => Opened = "def" \/ (Opened = "class" /\ InMethod)
         /\ Last(<<[kind |-> "code"]>> \o source).kind = "deco" =>
              kind \in {"deco", "def", "class"}
         /\ kind \notin {"h1", "h2", "fence", "under"}

LineKinds == {"code", "note", "blank", "deco", "def", "class", "meth", "attr", "in",
          "h1", "h2", "fence", "under"}

ChunksInit == suffix \in {"py", "md", "rst", "txt"} /\ source = <<>> /\ fileUnits = <<>>

Push(kind, length, glued) ==
  /\ Len(source) < MaxFile /\ MayFollow(kind)
  /\ length = Min(Lengths) \/ kind \in {"code", "in", "under"}
  /\ glued => suffix = "py" /\ kind \in BrokenKinds
  /\ source' = Append(source, [kind |-> kind, length |-> IF kind = "blank" THEN 0 ELSE length,
                               glued |-> glued])
  /\ Readable(source')
  /\ fileUnits' = SourceUnits(suffix, source')
  /\ UNCHANGED suffix

ChunksNext == \E kind \in LineKinds, length \in Lengths, glued \in BOOLEAN : Push(kind, length, glued)
ChunksSpec == ChunksInit /\ [][ChunksNext]_chunkVars

ChunksTypeOK ==
  /\ suffix \in {"py", "md", "rst", "txt"} /\ Len(source) <= MaxFile
  /\ \A n \in DOMAIN fileUnits :
       fileUnits[n].chunk.from \in DOMAIN source /\ fileUnits[n].chunk.to \in DOMAIN source

(* In order, nowhere overlapping, every line that is not blank in one of   *)
(* them, and none longer than the limit but a line that is.                *)
Holds(lines, chunks) ==
  /\ \A n \in 1 .. Len(chunks) - 1 : chunks[n].to < chunks[n + 1].from
  /\ \A k \in DOMAIN lines : lines[k].kind # "blank" =>
       \E n \in DOMAIN chunks : k \in chunks[n].from .. chunks[n].to
  /\ \A n \in DOMAIN chunks : chunks[n].length <= MAX_CHARS \/ chunks[n].from = chunks[n].to

(* What a definition is for a reader: its decorators, its body, and the    *)
(* comments above it with nothing else in between.                         *)
WholeFrom(lines, i) ==
  LET d == DeclaredAt(lines, i)
      notes == {k \in 1 .. d - 1 : /\ lines[k].kind = "note"
                                   /\ \A n \in k .. d - 1 : lines[n].kind \in {"note", "blank"}}
  IN Min(notes \cup {d})

(* Up to the end of the definition ast and splitlines number alike.        *)
Unshifted(lines, i) == \A n \in 1 .. EndsAt(lines, i) - 1 : ~lines[n].glued

DefinitionsAreWhole(lines, chunks) ==
  \A i \in {k \in DOMAIN lines : lines[k].kind \in {"def", "class"}} :
    Unshifted(lines, i) /\ TextLength(lines, WholeFrom(lines, i), EndsAt(lines, i)) <= MAX_CHARS =>
      \E n \in DOMAIN chunks : /\ chunks[n].from = WholeFrom(lines, i)
                               /\ chunks[n].to = EndsAt(lines, i) /\ chunks[n].symbol = <<i>>

InFence(lines, k) == Cardinality({n \in 1 .. k - 1 : lines[n].kind = "fence"}) % 2 = 1

(* The section a line is in, by the headings that stand outside of fences. *)
SectionTooLong(lines, k) ==
  LET heads == {h \in DOMAIN lines : lines[h].kind \in {"h1", "h2"} /\ ~InFence(lines, h)}
      start == Max({1} \cup {h \in heads : h <= k})
      end == Min({Len(lines)} \cup {h - 1 : h \in {n \in heads : n > k}})
  IN TextLength(lines, start, end) > MAX_CHARS

(* Whatever a file holds and wherever it stops, its chunks are in order    *)
(* and do not overlap, every line that is not blank is in one, and none is *)
(* longer than MAX_CHARS but a line that is; a Python definition that fits *)
(* is one chunk under its own name, comments and decorators with it and    *)
(* nothing else, where nothing above its end makes splitlines number the   *)
(* lines otherwise than ast; and a Markdown example is cut only where its  *)
(* section is too long (chunking.py:1-12, :119, :157, :243).               *)
ChunksKeepTheFile ==
  LET chunks == [n \in DOMAIN fileUnits |-> fileUnits[n].chunk]
  IN /\ Holds(source, chunks)
     /\ suffix = "py" /\ source # <<>> /\ Parses(source) => DefinitionsAreWhole(source, chunks)
     /\ suffix = "md" =>
          \A n \in DOMAIN chunks :
            InFence(source, chunks[n].from) => SectionTooLong(source, chunks[n].from)
=============================================================================
