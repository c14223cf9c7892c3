--------------------------- MODULE CorpusPromise ---------------------------
(***************************************************************************)
(* What mining promises the readers of one repository's corpus, with no    *)
(* shards, commits or rows in sight: a run replaces the documents and the  *)
(* fingerprint they are known by in one step, by what it collected, or     *)
(* leaves them; and one that finished left there what it collected.  The   *)
(* promise is what eval/corpus.py builds on: whatever is derived carries   *)
(* the fingerprint, "and is stale the moment the corpus moves".            *)
(***************************************************************************)
EXTENDS FiniteSets

CONSTANTS
  Collections,   \* what a run may collect: lists of documents
  PrintOf        \* the fingerprint of each, and of nothing at all

VARIABLES
  documents,     \* what a reader gets: how often it gets each document
  fingerprint,
  mining,        \* "no", or whether the run has made its replacement
  latest         \* what the latest run collected, if it finished; <<>> if not

corpusVars == <<documents, fingerprint, mining, latest>>

(* Each as often as it is listed.                                          *)
DocumentsOf(c) == [d \in {c[i] : i \in DOMAIN c} |-> Cardinality({i \in DOMAIN c : c[i] = d})]

Shows(c) == documents = DocumentsOf(c) /\ fingerprint = PrintOf[c]

Init == Shows(<<>>) /\ mining = "no" /\ latest = <<>>

Begin == mining = "no" /\ mining' = "begun" /\ UNCHANGED <<documents, fingerprint, latest>>

Replace ==
  /\ mining = "begun" /\ mining' = "replaced"
  /\ \E c \in Collections : documents' = DocumentsOf(c) /\ fingerprint' = PrintOf[c]
  /\ UNCHANGED latest

Finish ==
  /\ mining = "replaced" /\ mining' = "no"
  /\ latest' \in Collections /\ Shows(latest')
  /\ UNCHANGED <<documents, fingerprint>>

Fail == mining # "no" /\ mining' = "no" /\ latest' = <<>> /\ UNCHANGED <<documents, fingerprint>>

Next == Begin \/ Replace \/ Finish \/ Fail

Spec == Init /\ [][Next]_corpusVars
=============================================================================
