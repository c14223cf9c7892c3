----------------------------- MODULE SuiteOutput -----------------------------
(***************************************************************************)
(* From what a test suite prints to the evidence a drafting model reads:   *)
(* the capped capture of two streams and the status line of the wrapper    *)
(* (_Capture, _read_status of sandbox/runner.py), and the parsers, tried   *)
(* in order (sandbox/evidence.py).  Before it, the fetch that drops what   *)
(* has no wheel and tries again (fetch_dropping_unavailable).              *)
(*                                                                         *)
(* A stream is lines, and its cap counts lines; but it cuts at a byte, so  *)
(* of the first and the last line that is lost a piece may be left, which  *)
(* reads as something else.  The suite may print any line, the wrapper's   *)
(* included, in chunks of any size, and what it left running in the        *)
(* background goes on printing after the wrapper has reported.             *)
(***************************************************************************)
EXTENDS Integers, SequencesExt, FiniteSetsExt

CONSTANTS
  OutLines, ErrLines,   \* what a suite prints to each stream
  MaxLines,
  Pieces,               \* what a piece of each line may read as
  OUTPUT_CAP,           \* OUTPUT_CAP_BYTES
  MAX_FAILURES,
  Requirements,         \* what a fetch is asked for
  MAX_DROPPED_REQUIREMENTS

ASSUME OutputAssumption ==
  /\ MaxLines \in Nat /\ OUTPUT_CAP \in Nat \ {0} /\ MAX_FAILURES \in Nat
  /\ IsFiniteSet(Requirements) /\ MAX_DROPPED_REQUIREMENTS \in Nat

Formats == <<"pytest", "jest">>
NoEvidence == [parser |-> "unread", failures |-> <<>>, reported |-> 0, omitted |-> 0, excerpt |-> FALSE]
StatusLine == [format |-> "wrapper", what |-> "status", test |-> "real"]
Streams == {"stdout", "stderr"}

VARIABLES
  outputAt,    \* where the run is
  noWheel,     \* requirements without a wheel, transitive ones included
  fetching, droppedOnes,   \* the requirements left, and those given up
  framework,   \* the detected one
  head, tail, lost,        \* of each stream: kept, and how many were not
  said,        \* all that was printed to each
  status,      \* the status line that was read
  evidence

fetchVars == <<noWheel, fetching, droppedOnes>>
captureVars == <<head, tail, lost, said>>
outputVars == <<outputAt, fetchVars, framework, captureVars, status, evidence>>

OutputTypeOK ==
  /\ outputAt \in {"fetch", "install_failed", "running", "reported", "ended", "read"}
  /\ fetching \subseteq Requirements /\ droppedOnes \in Seq(Requirements)
  /\ Len(droppedOnes) <= MAX_DROPPED_REQUIREMENTS
  /\ framework \in {"pytest", "jest", "unknown"}
  /\ \A s \in Streams : head[s] \in Seq(OutLines \cup ErrLines \cup {StatusLine}) /\ lost[s] \in Nat
  /\ evidence.parser \in {"unread", "none", "pytest", "jest"}

OutputInit ==
  /\ outputAt = "fetch"
  /\ framework \in {"pytest", "jest", "unknown"}
  /\ fetching = IF framework = "pytest" THEN Requirements ELSE {}
  /\ noWheel \in SUBSET (fetching \cup {"transitive"}) /\ droppedOnes = <<>>
  /\ head = [s \in Streams |-> <<>>] /\ tail = [s \in Streams |-> <<>>]
  /\ lost = [s \in Streams |-> 0]
  /\ said = [s \in Streams |-> <<>>]
  /\ status = "unread"
  /\ evidence = NoEvidence

-----------------------------------------------------------------------------
(* The fetch is over: the suite runs, or the result is install_failed.     *)
FetchEnds(next) ==
  /\ outputAt' = next
  /\ UNCHANGED <<fetchVars, framework, captureVars, status, evidence>>

Drop(culprit) ==
  /\ droppedOnes' = Append(droppedOnes, culprit)
  /\ fetching' = fetching \ {culprit}
  /\ UNCHANGED <<outputAt, noWheel, framework, captureVars, status, evidence>>

(* Mutant: whatever pip names is dropped, however many there were.         *)
FetchUnbounded ==
  /\ outputAt = "fetch"
  /\ LET missing == noWheel \cap (fetching \cup {"transitive"})
     IN  \/ missing = {} /\ FetchEnds("running")
         \/ FetchEnds("install_failed")
         \/ \E culprit \in missing \cap fetching : Drop(culprit)

(* pip resolves, or fails; when it failed for one package it has no wheel  *)
(* for, that was asked for, and there is a drop left, it is tried without. *)
Fetch ==
  /\ outputAt = "fetch"
  /\ LET missing == noWheel \cap (fetching \cup {"transitive"})
     IN  \/ missing = {} /\ FetchEnds("running")
         \/ FetchEnds("install_failed")
         \/ \E culprit \in missing \cap fetching :
              Len(droppedOnes) < MAX_DROPPED_REQUIREMENTS /\ Drop(culprit)

HeadCap == OUTPUT_CAP \div 4
TailCap == OUTPUT_CAP - HeadCap

(* What the tail keeps: the last of it.                                    *)
KeptTail(kept, more) ==
  LET all == kept \o more
  IN  SubSeq(all, Max({1, Len(all) - TailCap + 1}), Len(all))

(* _Capture.feed.                                                          *)
Feed(s, chunk) ==
  LET room == Max({0, HeadCap - Len(head[s])})
      first == SubSeq(chunk, 1, Min({room, Len(chunk)}))
      rest == SubSeq(chunk, room + 1, Len(chunk))
  IN  /\ head' = [head EXCEPT ![s] = @ \o first]
      /\ tail' = [tail EXCEPT ![s] = IF rest = <<>> THEN @ ELSE KeptTail(@, rest)]
      /\ lost' = [lost EXCEPT ![s] = @ + Max({0, Len(tail[s]) + Len(rest) - TailCap})]
      /\ said' = [said EXCEPT ![s] = @ \o chunk]

Printed == Len(said["stdout"]) + Len(said["stderr"])

SuitePrints(s, chunk) ==
  /\ outputAt \in {"running", "reported"}
  /\ Printed + Len(chunk) <= MaxLines
  /\ Feed(s, chunk)
  /\ UNCHANGED <<outputAt, fetchVars, framework, status, evidence>>

(* The command is over, and the wrapper reports.                           *)
WrapperReports ==
  /\ outputAt = "running"
  /\ outputAt' = "reported"
  /\ Feed("stderr", <<StatusLine>>)
  /\ UNCHANGED <<fetchVars, framework, status, evidence>>

(* The wrapper exits, or the container is killed, before or after it has   *)
(* reported; with it ends all that ran inside.                             *)
SuiteOver ==
  /\ outputAt \in {"running", "reported"}
  /\ outputAt' = "ended"
  /\ UNCHANGED <<fetchVars, framework, captureVars, status, evidence>>

-----------------------------------------------------------------------------
Gap == [format |-> "wrapper", what |-> "dropped", test |-> "none"]

(* The lines on either side of the gap, of which a piece may be left.      *)
FirstLost(s) == said[s][Len(head[s]) + 1]
LastLost(s) == said[s][Len(head[s]) + lost[s]]

LeftOf(line) == {<<>>} \cup {<<piece>> : piece \in Pieces[line]}

(* _Capture.text: what it may be.                                          *)
TextsOf(s) ==
  IF lost[s] = 0 THEN {head[s] \o tail[s]}
  ELSE {head[s] \o left[1] \o <<Gap>> \o left[2] \o tail[s] :
          left \in LeftOf(FirstLost(s)) \X LeftOf(LastLost(s))}

(* The last status line of stderr, and stderr without it.                  *)
StatusAt(text) == Max({0} \cup {i \in 1 .. Len(text) : text[i].what = "status"})

Without(text, i) == IF i = 0 THEN text ELSE RemoveAt(text, i)

(* The failures a parser finds: pytest's only under its summary header.    *)
FailedAt(format, text) ==
  {i \in 1 .. Len(text) : text[i].format = format /\ text[i].what = "failed"}

SummaryAt(format, text) ==
  IF format # "pytest" THEN 0
  ELSE Min({Len(text)} \cup {i \in 1 .. Len(text) : text[i].what = "header"})

ListedAt(format, text) == {i \in FailedAt(format, text) : i > SummaryAt(format, text)}

Failures(format, text) ==
  LET at == ListedAt(format, text)
  IN  [k \in 1 .. Cardinality(at) |-> text[CHOOSE i \in at : Cardinality({j \in at : j <= i}) = k].test]

(* Of the totals the last count: how many failed.                          *)
TotalsAt(format, text) ==
  {i \in 1 .. Len(text) : text[i].format = format /\ text[i].what = "totals"}

Totals(format, text) ==
  LET at == TotalsAt(format, text) IN IF at = {} THEN 0 ELSE text[Max(at)].test

Finds(format, text) == Failures(format, text) # <<>> \/ TotalsAt(format, text) # {}

(* Mutant: the parser of the framework alone.                              *)
OwnOrder == SelectSeq(Formats, LAMBDA f : f = framework)

(* The parsers: the framework's own first, then the others.                *)
Order == IF framework = "jest" THEN <<"jest", "pytest">> ELSE Formats

(* parse: the first parser that finds anything, or an excerpt.             *)
Parse(text) ==
  LET first == {i \in 1 .. Len(Order) : Finds(Order[i], text)}
      chosen == Order[Min(first)]
      all == Failures(chosen, text)
  IN  IF first = {}
        THEN [NoEvidence EXCEPT !.parser = "none", !.excerpt = TRUE]
        ELSE [parser |-> chosen,
              failures |-> SubSeq(all, 1, Min({Len(all), MAX_FAILURES})),
              reported |-> Totals(chosen, text),
              omitted |-> Max({0, Len(all) - MAX_FAILURES}),
              excerpt |-> Totals(chosen, text) > 0 /\ all = <<>>]

ReadOutput ==
  /\ outputAt = "ended"
  /\ outputAt' = "read"
  /\ \E out \in TextsOf("stdout") : \E error \in TextsOf("stderr") :
       LET at == StatusAt(error)
       IN  /\ status' = IF at = 0 THEN "none" ELSE error[at].test
           /\ evidence' = Parse(out \o Without(error, at))
  /\ UNCHANGED <<fetchVars, framework, captureVars>>

OutputNext ==
  \/ Fetch
  \/ \E line \in OutLines : SuitePrints("stdout", <<line>>)
  \/ \E line, next \in ErrLines : SuitePrints("stderr", <<line>>) \/ SuitePrints("stderr", <<line, next>>)
  \/ WrapperReports \/ SuiteOver \/ ReadOutput

OutputSpec == OutputInit /\ [][OutputNext]_outputVars

-----------------------------------------------------------------------------
(* Whatever the chunks, a stream keeps its first lines and its last, and  *)
(* counts the rest.                                                        *)
StreamsAreKept ==
  \A s \in Streams :
    /\ Len(head[s]) + Len(tail[s]) + lost[s] = Len(said[s])
    /\ Len(head[s]) + Len(tail[s]) <= OUTPUT_CAP
    /\ IsPrefix(head[s], said[s]) /\ IsSuffix(tail[s], said[s])
    /\ lost[s] > 0 => Len(head[s]) + Len(tail[s]) = OUTPUT_CAP

(* No suite runs but over all of what it asked for, save what was dropped, *)
(* which had no wheel.                                                     *)
AllWasFetched ==
  /\ framework = "pytest" => /\ Len(droppedOnes) = Cardinality(Requirements \ fetching)
                             /\ Requirements \ fetching \subseteq noWheel
  /\ said # [s \in Streams |-> <<>>] => noWheel \cap (fetching \cup {"transitive"}) = {}

(* The tests that lines of a format say have failed, and those a reader of *)
(* that format lists of a text.                                            *)
FailedIn(format, text) == {text[i].test : i \in FailedAt(format, text)}

ListedIn(format, text) == {text[i].test : i \in ListedAt(format, text)}

(* Said in all that was printed; misheard in what is left of a lost line;  *)
(* heard in the streams of which nothing was lost.                         *)
Said(format) == FailedIn(format, said["stdout"]) \cup FailedIn(format, said["stderr"])

Misheard(format) ==
  UNION {{piece.test : piece \in {p \in Pieces[FirstLost(s)] \cup Pieces[LastLost(s)] :
                                    p.format = format /\ p.what = "failed"}} :
           s \in {t \in Streams : lost[t] > 0}}

Heard(format) == UNION {ListedIn(format, said[s]) : s \in {t \in Streams : lost[t] = 0}}

FailuresAreTrue ==
  LET shown == evidence.failures
  IN  /\ Len(shown) <= MAX_FAILURES /\ (evidence.omitted > 0 => Len(shown) = MAX_FAILURES)
      /\ \A i \in 1 .. Len(shown) : shown[i] \in Said(evidence.parser) \cup Misheard(evidence.parser)
      /\ shown = <<>> /\ evidence.omitted = 0 /\ evidence.reported > 0 => evidence.excerpt
      /\ \A format \in ToSet(Formats) :
           /\ Heard(format) # {} => evidence.parser # "none"
           /\ evidence.parser = format =>
                Len(shown) + evidence.omitted >= Cardinality(Heard(format))

(* The wrapper's line is the one that counts, unless what survived it said *)
(* something like it, or so much that the line itself was lost.            *)
StatusIsTrue ==
  \A n \in 1 .. Len(said["stderr"]) :
    /\ said["stderr"][n] = StatusLine /\ Len(said["stderr"]) - n < TailCap
    /\ \A m \in n + 1 .. Len(said["stderr"]) : said["stderr"][m].what # "status"
    => status = "real"

(* What reaches the model is bounded, and is what the suite said: the      *)
(* streams are kept so; a line like the wrapper's that the suite printed   *)
(* before it ("it can print anything it likes") is not taken for it; the   *)
(* failures listed are those one reporter's lines name, or a piece of a    *)
(* lost line, and with the ones left out they are all of that reporter     *)
(* that a stream which lost nothing lists, pytest's under its header; a    *)
(* suite that listed failures there is never evidence of nothing; and all  *)
(* was fetched that the suite ran over.                                    *)
EvidenceIsHonest ==
  /\ StreamsAreKept /\ AllWasFetched
  /\ outputAt = "read" => StatusIsTrue /\ FailuresAreTrue
=============================================================================
