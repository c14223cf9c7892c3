------------------------------- MODULE Toolbox -------------------------------
(***************************************************************************)
(* The tools of the drafting agent (review/tools.py), bound to one pull    *)
(* request: read_file, grep and search_history at its head commit.         *)
(*                                                                         *)
(* One action is one Toolbox.call.  A file is its lines, each with its     *)
(* length, and which of them the pattern matches; GitHub may refuse any    *)
(* read.  What the model asks for is whatever a JSON object may hold.  The *)
(* body of an answer is a header and rows, and is cut at its length.       *)
(***************************************************************************)
EXTENDS Integers, Sequences, FiniteSets, Functions

CONSTANTS
  Paths,           \* files of the repository
  LinesOf,         \* how many lines each has at the head commit
  HitsOf,          \* the lines of each that the pattern matches
  Changed,         \* the files of the pull request, in order, each once
  Numbers,         \* the line numbers a model asks for
  NoNumber,        \* none given, or one that int() refuses
  Infinite,        \* JSON's Infinity, or a float as large
  NoFile,          \* a path that was not read yet
  MaxReadLines, MaxGrepMatches,
  CharsOf,         \* the length of each line
  HeaderChars,     \* what the first line of a body takes,
  RowChars,        \* and what a row takes beside the text of its line
  MAX_ROW_CHARS,   \* what grep shows of a line
  MAX_RESULT_CHARS,
  MaxToolCalls

ASSUME ToolAssumption ==
  /\ LinesOf \in [Paths -> Nat]
  /\ \A p \in Paths : HitsOf[p] \subseteq 1 .. LinesOf[p]
  /\ Changed \in Seq(Paths)
  /\ \A i, j \in 1 .. Len(Changed) : Changed[i] = Changed[j] => i = j
  /\ Numbers \subseteq Int /\ {NoNumber, Infinite} \cap Int = {}
  /\ NoFile \notin Nat
  /\ MaxReadLines \in Nat \ {0} /\ MaxGrepMatches \in Nat \ {0} /\ MaxToolCalls \in Nat
  /\ \A p \in Paths : CharsOf[p] \in [1 .. LinesOf[p] -> Nat]
  /\ {HeaderChars, RowChars, MAX_ROW_CHARS, MAX_RESULT_CHARS} \subseteq Nat

Given == Numbers \cup {NoNumber, Infinite}

VARIABLES
  files,      \* _files: the lines held of each path
  hasIndex,   \* whether this repository has a comment index
  used,       \* the record: whether each call was answered
  reply,      \* what the last call came to
  requests    \* reads of each path that GitHub answered

toolVars == <<files, hasIndex, used, reply, requests>>

NoReply == [outcome |-> "none", why |-> "", from |-> NoNumber, stated |-> 0,
            shown |-> {}, cut |-> FALSE, searched |-> {}]

ToolTypeOK ==
  /\ files \in [Paths -> Nat \cup {NoFile}]
  /\ hasIndex \in BOOLEAN
  /\ used \in Seq(BOOLEAN) /\ Len(used) <= MaxToolCalls
  /\ reply.outcome \in {"none", "answered", "failed", "raised"}
  /\ reply.shown \subseteq Paths \X Nat /\ reply.searched \subseteq Paths
  /\ reply.stated \in Nat /\ reply.cut \in BOOLEAN
  /\ requests \in [Paths -> Nat]

(* The head of the ranked files was read for the windows already.          *)
ToolInit ==
  /\ \E n \in 0 .. Len(Changed) :
       files = [p \in Paths |-> IF \E i \in 1 .. n : Changed[i] = p THEN LinesOf[p] ELSE NoFile]
  /\ hasIndex \in BOOLEAN
  /\ used = <<>>
  /\ reply = NoReply
  /\ requests = [p \in Paths |-> 0]

-----------------------------------------------------------------------------
ToolReady == Len(used) < MaxToolCalls /\ reply.outcome # "raised"

Held(p) == files[p] # NoFile

(* A row is a path and a line.  Rows come in the order of the paths.       *)
Sooner(paths, q, r) ==
  \/ q[1] = r[1] /\ q[2] <= r[2]
  \/ \E i, j \in 1 .. Len(paths) : i < j /\ paths[i] = q[1] /\ paths[j] = r[1]

UpTo(paths, rows, r) == {q \in rows : Sooner(paths, q, r)}

HasRoom(size, rows) == HeaderChars + SumFunctionOnSet(size, rows) <= MAX_RESULT_CHARS

(* _answered: the header counts the rows; a body that is too long is cut,  *)
(* and says so at its end.  shown are the rows that stand in it whole.     *)
(* from is the line a read_file starts at, as it was asked.                *)
Replied(from, paths, rows, size, searched) ==
  /\ reply' = [NoReply EXCEPT !.outcome = "answered", !.from = from,
                              !.stated = Cardinality(rows),
                              !.shown = {r \in rows : HasRoom(size, UpTo(paths, rows, r))},
                              !.cut = ~HasRoom(size, rows),
                              !.searched = searched]
  /\ used' = Append(used, TRUE)

Failed(why) ==
  /\ reply' = [NoReply EXCEPT !.outcome = "failed", !.why = why]
  /\ used' = Append(used, FALSE)

(* An OverflowError of int() is caught nowhere on the way out of call().   *)
Raised ==
  /\ reply' = [NoReply EXCEPT !.outcome = "raised"]
  /\ UNCHANGED <<used, files, requests>>

(* Mutant: a read that GitHub refused is remembered as an empty file.      *)
ReadsAndRefusals(wanted, refused) ==
  /\ files' = [p \in Paths |-> IF p \notin wanted \/ Held(p) THEN files[p]
                               ELSE IF p \in refused THEN 0 ELSE LinesOf[p]]
  /\ requests' = [p \in Paths |->
                    IF p \in wanted \ refused /\ ~Held(p) THEN requests[p] + 1 ELSE requests[p]]

(* _lines of each path: from memory, or read once and kept.                *)
Reads(wanted, refused) ==
  LET got == {p \in wanted \ refused : ~Held(p)}
  IN  /\ files' = [p \in Paths |-> IF p \in got THEN LinesOf[p] ELSE files[p]]
      /\ requests' = [p \in Paths |-> IF p \in got THEN requests[p] + 1 ELSE requests[p]]

AsInt(value, fallback) == IF value = NoNumber THEN fallback ELSE value

Clamp(n, low, high) == IF n < low THEN low ELSE IF n > high THEN high ELSE n

(* The lines a read_file of a file of n lines shows.                       *)
Window(start, end, n) ==
  LET from == AsInt(start, 1)
      to == AsInt(end, from + MaxReadLines - 1)
      first == Clamp(from, 1, n)
      last == Clamp(to, first, IF first + MaxReadLines - 1 < n THEN first + MaxReadLines - 1 ELSE n)
  IN  first .. last

WholeLines(rows) == [r \in rows |-> RowChars + CharsOf[r[1]][r[2]]]

LinesCut(rows) ==
  [r \in rows |-> RowChars + Clamp(CharsOf[r[1]][r[2]], 0, MAX_ROW_CHARS)]

(* read_file with a path: the numbers are read first, then the file.       *)
ReadFile(p, start, end) ==
  /\ ToolReady
  /\ IF Infinite \in {start, end} THEN Raised
     ELSE \E refused \in SUBSET ({p} \ {q \in Paths : Held(q)}) :
            /\ Reads({p}, refused)
            /\ IF refused # {} THEN Failed("refused")
               ELSE IF files'[p] = 0 THEN Failed("empty")
               ELSE LET rows == {p} \X Window(start, end, files'[p])
                    IN  Replied(AsInt(start, 1), <<p>>, rows, WholeLines(rows), {p})
  /\ UNCHANGED hasIndex

(* The files grep reaches, in order: it goes on while it has room.  Rows   *)
(* are counted over the files before that could be read.                   *)
RowsBefore(paths, readable, i) ==
  SumFunctionOnSet([j \in 1 .. Len(paths) |-> Cardinality(HitsOf[paths[j]])],
                   {j \in 1 .. i - 1 : paths[j] \in readable})

Reached(paths, readable) ==
  {i \in 1 .. Len(paths) : RowsBefore(paths, readable, i) < MaxGrepMatches}

FirstHits(p, n) ==
  {h \in HitsOf[p] : Cardinality({g \in HitsOf[p] : g < h}) < n}

SearchedOf(paths, readable) == {paths[i] : i \in Reached(paths, readable)} \cap readable

RowsOf(paths, readable) ==
  UNION {{paths[i]} \X FirstHits(paths[i], MaxGrepMatches - RowsBefore(paths, readable, i)) :
           i \in {j \in Reached(paths, readable) : paths[j] \in readable}}

Grep(paths) ==
  /\ ToolReady
  /\ IF paths = <<>> THEN Failed("nothing to search") /\ UNCHANGED <<files, requests>>
     ELSE \E refused \in SUBSET {p \in Paths : ~Held(p) /\ \E i \in 1 .. Len(paths) : paths[i] = p} :
       LET readable == Paths \ refused
           searched == SearchedOf(paths, readable)
           rows == RowsOf(paths, readable)
       IN  /\ Reads({paths[i] : i \in Reached(paths, readable)}, refused)
           /\ IF searched = {} THEN Failed("refused")
                               ELSE Replied(NoNumber, paths, rows, LinesCut(rows), searched)
  /\ UNCHANGED hasIndex

(* Found or not, it answers, if there is an index to search.  What it      *)
(* finds is in the module Search.                                          *)
SearchHistory ==
  /\ ToolReady
  /\ IF hasIndex THEN Replied(NoNumber, <<>>, {}, <<>>, {}) ELSE Failed("no index")
  /\ UNCHANGED <<files, hasIndex, requests>>

(* Not JSON, not an object, no such tool, or an argument missing.          *)
Malformed ==
  /\ ToolReady
  /\ Failed("malformed")
  /\ UNCHANGED <<files, hasIndex, requests>>

ToolNext ==
  \/ \E p \in Paths : \E start \in Given : \E end \in Given : ReadFile(p, start, end)
  \/ \E p \in Paths : Grep(<<p>>)
  \/ Grep(Changed)
  \/ SearchHistory
  \/ Malformed

ToolSpec == ToolInit /\ [][ToolNext]_toolVars

-----------------------------------------------------------------------------
(* The matches of the files a search read, and where a window begins: the  *)
(* line asked for, or the nearest there is.                                *)
HitsIn(searched) == UNION {{p} \X HitsOf[p] : p \in searched}

Nearest(p, from) == Clamp(from, 1, LinesOf[p])

(* The rows of a search, whole or cut: matches, of each file the first     *)
(* ones; the header counts them, and below the cap counts every match; and *)
(* below the cap, if the body is not marked as cut, every match is shown.  *)
SearchIsTrue(r) ==
  /\ r.shown \subseteq HitsIn(r.searched) /\ r.stated <= MaxGrepMatches
  /\ \A row \in r.shown : {row[1]} \X {h \in HitsOf[row[1]] : h < row[2]} \subseteq r.shown
  /\ ~r.cut => Cardinality(r.shown) = r.stated
  /\ r.stated < MaxGrepMatches =>
       /\ r.stated = Cardinality(HitsIn(r.searched))
       /\ ~r.cut => r.shown = HitsIn(r.searched)

(* The header of a window names lines the file has, no more than the cap,  *)
(* from the line asked for or the nearest there is; the rows are the first *)
(* of these, and fewer exactly when the body is marked as cut.             *)
WindowIsTrue(r) ==
  \E p \in r.searched : \E n \in 0 .. r.stated :
    /\ r.stated \in 1 .. MaxReadLines /\ Nearest(p, r.from) + r.stated - 1 <= LinesOf[p]
    /\ r.shown = {p} \X (Nearest(p, r.from) .. Nearest(p, r.from) + n - 1)
    /\ r.cut <=> n < r.stated

(* "A tool that fails is silence for that claim, never a guess in its      *)
(* place", whatever was asked and refused before: an answer that leaves    *)
(* something out, because of a cap or because it would be too long, says   *)
(* so, and what it does show and count is so at the head commit; a file is *)
(* called empty only if it was read and is; and no file is paid for twice. *)
AnswersAreHonest ==
  /\ \A p \in Paths : files[p] \in {NoFile, LinesOf[p]} /\ requests[p] <= 1
  /\ reply.outcome = "answered" =>
       IF reply.from = NoNumber THEN SearchIsTrue(reply) ELSE WindowIsTrue(reply)
  /\ reply.why = "empty" => \E p \in Paths : Held(p) /\ LinesOf[p] = 0

(***************************************************************************)
(* What the documentation says and the code does not do.                   *)
(***************************************************************************)

(* "Run one tool.  Never raises: a failure is a sentence, not an           *)
(* exception" (Toolbox.call).                                              *)
NeverRaises == reply.outcome # "raised"
=============================================================================
