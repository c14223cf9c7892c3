----------------------------- MODULE MCDetection -----------------------------
(***************************************************************************)
(* Small checkouts for Detection.                                          *)
(***************************************************************************)
EXTENDS Detection, TLC

(* Requirement lines; own is the project itself, with extras.             *)
RequirementLines ==
  {"setuptools", "pytest", "lib", "tool", "own", "own[a]", "own[b,a]", "own(>=1)", "lib(>=2)", "git+url"}
NameOfLine ==
  [l \in RequirementLines |-> CASE l \in {"own", "own[a]", "own[b,a]", "own(>=1)"} -> "own"
                               [] l = "lib(>=2)" -> "lib" [] OTHER -> l]
NameSplit == [l \in RequirementLines |-> IF l \in {"own(>=1)", "lib(>=2)"} THEN l ELSE NameOfLine[l]]
ExtrasOfLine == [l \in RequirementLines |-> CASE l = "own[a]" -> <<"a">> [] l = "own[b,a]" -> <<"b", "a">> [] OTHER -> <<>>]
CheckedLines == RequirementLines \ {"git+url"}
(* A project with one dependency; one whose extras name each other and     *)
(* itself and whose groups include each other; and one that is not         *)
(* installable, with requirements files that include each other and one    *)
(* that is not there.                                                      *)
Bare == [build |-> <<"setuptools">>, dependencies |-> <<"lib">>, ownName |-> "none",
         extraOrder |-> <<>>, extras |-> <<>>, groups |-> <<>>, defaultGroups |-> <<>>,
         elsewhere |-> <<>>, fileOrder |-> <<>>, files |-> <<>>, installable |-> TRUE]
Projects == {
  Bare,
  [Bare EXCEPT !.ownName = "own", !.extraOrder = <<"a", "b">>,
     !.extras = [e \in {"a", "b"} |-> IF e = "a" THEN <<"tool", "own[b,a]">> ELSE <<"own", "git+url">>],
     !.groups = [g \in {"test", "docs", "lint"} |->
                   CASE g = "test" -> <<"own[a]", "docs">> [] g = "docs" -> <<"test", "lib(>=2)", "own(>=1)">> [] OTHER -> <<"git+url">>],
     !.defaultGroups = <<"lint", "test">>],
  [Bare EXCEPT !.build = <<>>, !.dependencies = <<>>, !.installable = FALSE, !.elsewhere = <<"tool", "pytest", "lib">>,
     !.fileOrder = <<"requirements.txt", "requirements/dev.txt">>,
     !.files = [f \in {"requirements.txt", "requirements/dev.txt"} |->
                  IF f = "requirements.txt" THEN <<"lib", "requirements/dev.txt", "outside.txt">>
                  ELSE <<"requirements.txt", "tool", "setuptools">>]] }
(* No package.json, one that does not parse, one without a test script;    *)
(* and a suite under every mix of what declares the manager.               *)
Scripts ==
  {[package |-> p, declared |-> "none", lockfiles |-> {}, yarnrc |-> FALSE, foreign |-> {}] :
     p \in {"absent", "invalid", "no test", "placeholder"}} \cup
  {s \in [package : {"suite"}, declared : {"none", "npm", "yarn", "yarn2", "bun"},
          lockfiles : {{}, {"npm", "yarn"}, {"pnpm", "yarn"}, {"yarn"}, {"bun"}}, yarnrc : BOOLEAN,
          foreign : {{}, {"devDependencies"}, {"npm"}, {"yarn"}, {"overrides", "peerDependencies"}}] :
     s.foreign \cap {"npm", "yarn"} \subseteq s.lockfiles}
(* Counted test files; the last checkout has more files than are scanned.  *)
Suites == {[pytestConfig |-> FALSE, pythonTests |-> 0, jsTests |-> 2, huge |-> FALSE],
           [pytestConfig |-> TRUE, pythonTests |-> 0, jsTests |-> 0, huge |-> FALSE],
           [pytestConfig |-> FALSE, pythonTests |-> 2, jsTests |-> 2, huge |-> TRUE]}
SmallTrees == {s @@ j @@ p @@ [otherLanguage |-> "Go"] : s \in Suites, j \in Scripts, p \in Projects}
=============================================================================
