------------------------------ MODULE MCSupport ------------------------------
(***************************************************************************)
(* The parts around the review that share no state with it nor with each   *)
(* other, checked in one run: a behaviour belongs to one of them, and the  *)
(* variables of the others rest.                                           *)
(***************************************************************************)
EXTENDS Verification, PromptFit, Migrations, Toolbox, Search, DiffLines,
        MCDetection, SuiteOutput, TLC

(* The research tools: three files, the last of them empty.                *)
CONSTANTS f, g, h
ThreeFiles == f :> 5 @@ g :> 3 @@ h :> 0
ThreeHits == f :> {1, 2, 4} @@ g :> {1, 3} @@ h :> {}
FilesInOrder == <<g, f, h>>
(* The third line of f is longer than grep shows, and three rows may be    *)
(* too much for one answer.                                                *)
LineLengths == f :> <<1, 2, 6, 1, 3>> @@ g :> <<2, 0, 4>> @@ h :> <<>>
AskedNumbers == {-1, 0, 1, 3, 5, 7}

(* Past comments of three pull requests, one of them by a bot, and a row   *)
(* of source.                                                              *)
CONSTANTS repo, held
Document(kind, number, automated) ==
  [kind |-> kind, number |-> number, body |-> TRUE, automated |-> automated]
FiveDocuments ==
  << Document("review_comment", 1, FALSE), Document("review_comment", 2, FALSE),
     Document("review_comment", 1, TRUE), Document("source", 0, FALSE),
     Document("review_comment", 3, FALSE) >>

(* A suite that prints pytest's report, and to stderr what reads like a    *)
(* failure of jest and like the wrapper's status line.                     *)
Line(format, what, test) == [format |-> format, what |-> what, test |-> test]
PytestLines ==
  {Line("pytest", "header", "none"), Line("pytest", "failed", "a"), Line("pytest", "totals", 1)}
StrayLines == {Line("jest", "failed", "c"), Line("wrapper", "status", "fake")}
(* What is left of a line that was cut: the shorter name of a test, or a   *)
(* line that begins or ends too soon and reads as it did.                  *)
LinePieces ==
  [l \in PytestLines \cup StrayLines \cup {StatusLine} |->
     CASE l = Line("pytest", "failed", "a") -> {Line("pytest", "failed", "a cut")}
       [] l.what \in {"header", "totals"} -> {l}
       [] OTHER -> {}]

VARIABLE part

vars == <<verificationVars, fitVars, migrationVars, toolVars,
          searchVars, diffVars, detectVars, outputVars, part>>

AnyTree == CHOOSE t \in Trees : TRUE

(* How the variables of a part rest while another is looked at.            *)
Rest(p) == part # p

Init ==
  /\ part \in {"verify", "fit", "migrate", "tools", "search",
               "diff", "detect", "output"}
  /\ IF Rest("verify") THEN fails = [s \in Sides |-> {}] ELSE TRUE
  /\ IF Rest("fit") THEN blocks = <<>> /\ budget = 0 ELSE TRUE
  /\ IF Rest("migrate") THEN pooled = FALSE /\ ships = [j \in MigrationJobs |-> 0] ELSE TRUE
  /\ IF Rest("tools") THEN hasIndex = TRUE /\ files = [p \in Paths |-> NoFile] ELSE TRUE
  /\ IF Rest("search")
       THEN repository = repo /\ before = 1 /\ scores = [r \in Rows |-> 0] ELSE TRUE
  /\ IF Rest("detect") THEN tree = AnyTree ELSE TRUE
  /\ IF Rest("output") THEN framework = "unknown" /\ noWheel = {} ELSE TRUE
  /\ VerifyInit /\ FitInit /\ MigrationsInit /\ ToolInit /\ SearchInit
  /\ DiffInit /\ (Rest("diff") => git.whole)
  /\ DetectInit /\ OutputInit

Next ==
  \/ /\ part = "verify" /\ VerifyNext
     /\ UNCHANGED <<fitVars, migrationVars, toolVars, searchVars,
                   diffVars, detectVars, outputVars, part>>
  \/ /\ part = "fit" /\ FitNext
     /\ UNCHANGED <<verificationVars, migrationVars, toolVars, searchVars,
                   diffVars, detectVars, outputVars, part>>
  \/ /\ part = "migrate" /\ MigrationsNext
     /\ UNCHANGED <<verificationVars, fitVars, toolVars, searchVars,
                   diffVars, detectVars, outputVars, part>>
  \/ /\ part = "tools" /\ ToolNext
     /\ UNCHANGED <<verificationVars, fitVars, migrationVars, searchVars,
                   diffVars, detectVars, outputVars, part>>
  \/ /\ part = "search" /\ SearchNext
     /\ UNCHANGED <<verificationVars, fitVars, migrationVars, toolVars,
                   diffVars, detectVars, outputVars, part>>
  \/ /\ part = "diff" /\ DiffNext
     /\ UNCHANGED <<verificationVars, fitVars, migrationVars, toolVars,
                   searchVars, detectVars, outputVars, part>>
  \/ /\ part = "detect" /\ DetectNext
     /\ UNCHANGED <<verificationVars, fitVars, migrationVars, toolVars,
                   searchVars, diffVars, outputVars, part>>
  \/ /\ part = "output" /\ OutputNext
     /\ UNCHANGED <<verificationVars, fitVars, migrationVars, toolVars,
                   searchVars, diffVars, detectVars, part>>

Spec == Init /\ [][Next]_vars

SupportTypeOK ==
  /\ VerifyTypeOK /\ FitTypeOK /\ MigrationsTypeOK /\ ToolTypeOK
  /\ SearchTypeOK /\ DiffTypeOK /\ DetectTypeOK /\ OutputTypeOK
=============================================================================
