------------------------------ MODULE Detection ------------------------------
(***************************************************************************)
(* How a repository runs its tests, or that it does not: detect() of       *)
(* sandbox/detect.py, over the files of an extracted checkout.             *)
(*                                                                         *)
(* A repository is what detect reads of it.  Of the Python side these are  *)
(* requirement lines, groups and files that include each other, round in   *)
(* circles if they like, and the project's own extras; of the JavaScript   *)
(* side the test script, the lockfiles and where dependencies come from.   *)
(***************************************************************************)
EXTENDS Integers, SequencesExt, FiniteSetsExt

CONSTANTS
  Trees,        \* the repositories
  NameOf,       \* the project each requirement line names
  SplitName,    \* what the split at "[", a space, "<", "=" and the like leaves of it
  ExtrasIn,     \* the extras it asks for, in order
  Checked,      \* the lines check_requirement lets pass
  MAX_REQUIREMENTS,
  GroupDepth, FileDepth   \* includes that are followed: 5, and 3

GROUP_KEYS == <<"test", "dev">>
ManagerOrder == <<"npm", "pnpm", "yarn", "bun">>
SectionsRead == {"dependencies", "devDependencies", "optionalDependencies"}

Lines == DOMAIN NameOf

(* The shape of a checkout: whatever the order an extra is read in, all of *)
(* them are; and what includes another file or group is no requirement.    *)
IsTree(t) ==
  /\ {t.build, t.dependencies, t.elsewhere} \subseteq Seq(Lines)
  /\ t.extraOrder \in Seq(DOMAIN t.extras) /\ ToSet(t.extraOrder) = DOMAIN t.extras
  /\ \A e \in DOMAIN t.extras : t.extras[e] \in Seq(Lines)
  /\ \A table \in {t.groups, t.files} :
       /\ DOMAIN table \cap Lines = {}
       /\ \A name \in DOMAIN table : table[name] \in Seq(ToSet(table[name]))
  /\ t.defaultGroups \in Seq(ToSet(t.defaultGroups)) /\ t.fileOrder \in Seq(DOMAIN t.files)
  /\ t.lockfiles \subseteq ToSet(ManagerOrder) /\ {t.pythonTests, t.jsTests} \subseteq Nat
  /\ t.foreign \cap ToSet(ManagerOrder) \subseteq t.lockfiles
  /\ t.package \in {"absent", "invalid", "no test", "placeholder", "suite"}

ASSUME DetectionAssumption ==
  /\ Checked \subseteq Lines /\ DOMAIN ExtrasIn = Lines
  /\ \A line \in Lines : ExtrasIn[line] \in Seq(ToSet(ExtrasIn[line]))
  /\ MAX_REQUIREMENTS \in Nat /\ GroupDepth \in Nat /\ FileDepth \in Nat
  /\ \A t \in Trees : IsTree(t)
  /\ DOMAIN SplitName = Lines
  /\ \A line \in Lines : \A t \in Trees : SplitName[line] # NameOf[line] => SplitName[line] # t.ownName

VARIABLES
  tree,       \* the checkout
  detectAt,   \* the part of detect() that runs
  counted,    \* test files _scan counted: Python's, and JavaScript's
  pending, expanded, lines,   \* _expand_self; the lines it has yielded, each once
  python, javascript, detection   \* verdicts

expandVars == <<pending, expanded, lines>>
detectVars == <<tree, detectAt, counted, expandVars, python, javascript, detection>>

None == [found |-> FALSE, why |-> "none"]
NotRun(why) == [found |-> FALSE, why |-> why]
Undecided == NotRun("undecided")

DetectTypeOK ==
  /\ detectAt \in {"scan", "python", "expand", "javascript", "choose", "done"}
  /\ counted.python \in Nat /\ counted.javascript \in Nat
  /\ pending \in Seq(Lines) /\ lines \in Seq(Lines)
  /\ \A verdict \in {python, javascript, detection} : verdict.found \in BOOLEAN

DetectInit ==
  /\ tree \in Trees
  /\ detectAt = "scan"
  /\ counted = [python |-> 0, javascript |-> 0]
  /\ pending = <<>> /\ expanded = {} /\ lines = <<>>
  /\ python = Undecided /\ javascript = Undecided /\ detection = Undecided

-----------------------------------------------------------------------------
(* A tree of more than MAX_FILES_SCANNED files is counted in part.         *)
Scan ==
  /\ detectAt = "scan"
  /\ \E p \in 0 .. tree.pythonTests : \E j \in 0 .. tree.jsTests :
       /\ tree.huge \/ (p = tree.pythonTests /\ j = tree.jsTests)
       /\ counted' = [python |-> p, javascript |-> j]
  /\ detectAt' = "python"
  /\ UNCHANGED <<tree, expandVars, python, javascript, detection>>

(* What a comprehension with a condition leaves of a list.                 *)
Kept(s, set) ==
  FoldLeft(LAMBDA kept, x : IF x \in set THEN Append(kept, x) ELSE kept, <<>>, s)

(* An entry is a line, or the name of what it includes.  Past the depth    *)
(* nothing is read, which ends a circle.                                   *)
Including(depth, entriesOf) ==
  LET read[d \in 0 .. depth + 1] ==
        [name \in DOMAIN entriesOf |->
           IF d = 0 THEN <<>>
           ELSE FlattenSeq([i \in DOMAIN entriesOf[name] |->
                  LET entry == entriesOf[name][i]
                  IN  IF entry \in Lines THEN <<entry>>
                      ELSE IF entry \in DOMAIN entriesOf THEN read[d - 1][entry]
                      ELSE <<>>])]
  IN  read[depth + 1]

(* GROUP_KEYS that there are, then the default groups.                     *)
GroupsRead ==
  LET others == ToSet(tree.defaultGroups) \ ToSet(GROUP_KEYS)
  IN  Kept(GROUP_KEYS \o Kept(tree.defaultGroups, others), DOMAIN tree.groups)

(* _python_requirements, in the order it reads: the build requirements,    *)
(* those of the project, its extras, groups, setup.cfg and Poetry, and the *)
(* requirements files.                                                     *)
RawRequirements ==
  LET groups == Including(GroupDepth, tree.groups)
      files == Including(FileDepth, tree.files)
  IN  tree.build \o tree.dependencies
      \o FlattenSeq([i \in DOMAIN tree.extraOrder |-> tree.extras[tree.extraOrder[i]]])
      \o FlattenSeq([i \in DOMAIN GroupsRead |-> groups[GroupsRead[i]]])
      \o tree.elsewhere
      \o FlattenSeq([i \in DOMAIN tree.fileOrder |-> files[tree.fileOrder[i]]])

DetectPython ==
  /\ detectAt = "python"
  /\ IF ~tree.pytestConfig /\ counted.python = 0
       THEN python' = None /\ detectAt' = "javascript" /\ UNCHANGED pending
       ELSE pending' = RawRequirements /\ detectAt' = "expand" /\ UNCHANGED python
  /\ UNCHANGED <<tree, counted, expanded, lines, javascript, detection>>

(* A line like own(>=1) is not recognised: the split leaves all of it.     *)
IsOwn(line) == SplitName[line] = tree.ownName

(* One line of _expand_self: the project's own extras instead of itself,   *)
(* each extra once.                                                        *)
Expand ==
  /\ detectAt = "expand" /\ pending # <<>>
  /\ LET line == Head(pending)
         new == Kept(ExtrasIn[line], ToSet(ExtrasIn[line]) \ expanded)
         asked == FlattenSeq([i \in DOMAIN new |->
                    IF new[i] \in DOMAIN tree.extras THEN tree.extras[new[i]] ELSE <<>>])
     IN  IF IsOwn(line)
           THEN /\ pending' = Tail(pending) \o asked
                /\ expanded' = expanded \cup ToSet(new)
                /\ UNCHANGED lines
           ELSE /\ pending' = Tail(pending)
                /\ lines' = IF Contains(lines, line) THEN lines ELSE Append(lines, line)
                /\ UNCHANGED expanded
  /\ UNCHANGED <<tree, detectAt, counted, python, javascript, detection>>

(* _clean: those that name an index package, and of these the first.       *)
Cleaned ==
  LET kept == Kept(lines, Checked)
  IN  SubSeq(kept, 1, Min({Len(kept), MAX_REQUIREMENTS}))

PythonFound ==
  /\ detectAt = "expand" /\ pending = <<>>
  /\ python' = [found |-> TRUE, why |-> "python", requirements |-> Cleaned,
                setup |-> tree.installable]
  /\ detectAt' = "javascript"
  /\ UNCHANGED <<tree, counted, expandVars, javascript, detection>>

-----------------------------------------------------------------------------
(* A declared manager wins, then the first in order with a lockfile.       *)
Manager ==
  IF tree.declared # "none" THEN IF tree.declared = "yarn2" THEN "yarn" ELSE tree.declared
  ELSE IF tree.lockfiles = {} THEN "npm"
  ELSE ManagerOrder[Min({i \in 1 .. Len(ManagerOrder) : ManagerOrder[i] \in tree.lockfiles})]

(* What packageManager says, before the marks yarn leaves.                 *)
IsYarnBerry ==
  IF tree.declared \in {"yarn", "yarn2"} THEN tree.declared = "yarn2" ELSE tree.yarnrc

(* A dependency in one of three sections of the topmost package.json, or   *)
(* in the lockfile this manager reads, from elsewhere than a public        *)
(* registry; or that lockfile is too large.  tree.foreign also holds the   *)
(* places nobody looks into: peerDependencies, overrides, a workspace.     *)
ForeignSources == tree.foreign \cap (SectionsRead \cup {Manager})

Fetcher ==
  CASE Manager = "npm"  -> IF "npm" \in tree.lockfiles THEN "npm-ci" ELSE "npm-install"
    [] Manager = "pnpm" -> "pnpm"
    [] OTHER            -> "yarn"

(* Why the test script is not run, in the order it is looked into.         *)
Refusal ==
  IF tree.package # "suite" THEN tree.package
  ELSE IF Manager = "bun" THEN "bun"
  ELSE IF Manager = "yarn" /\ IsYarnBerry THEN "yarn berry"
  ELSE IF ForeignSources # {} THEN "foreign"
  ELSE "none"

DetectJavaScript ==
  /\ detectAt = "javascript"
  /\ javascript' = IF tree.package = "absent" THEN None
                   ELSE IF Refusal # "none" THEN NotRun(Refusal)
                   ELSE [found |-> TRUE, why |-> "javascript", manager |-> Manager, fetcher |-> Fetcher]
  /\ detectAt' = "choose"
  /\ UNCHANGED <<tree, counted, expandVars, python, detection>>

(* Mutant: the larger suite, whether or not it can be run.                 *)
LargerSuite ==
  IF python # None /\ javascript # None
    THEN IF counted.javascript > counted.python THEN javascript ELSE python
  ELSE IF python # None THEN python ELSE javascript

(* Two suites: more test files, and Python if as many.                     *)
Chosen ==
  IF python # None /\ javascript.found
    THEN IF counted.javascript > counted.python THEN javascript ELSE python
  ELSE IF python # None THEN python
  ELSE IF javascript # None THEN javascript
  ELSE NotRun(tree.otherLanguage)

Choose ==
  /\ detectAt = "choose"
  /\ detection' = Chosen
  /\ detectAt' = "done"
  /\ UNCHANGED <<tree, counted, expandVars, python, javascript>>

DetectNext ==
  Scan \/ DetectPython \/ Expand \/ PythonFound \/ DetectJavaScript \/ Choose

DetectSpec == DetectInit /\ [][DetectNext]_detectVars

-----------------------------------------------------------------------------
(* What is reached from these names by as many includes, however they are  *)
(* nested.                                                                 *)
Closure(entriesOf, start, depth) ==
  LET within[n \in 0 .. depth + 1] ==
        IF n = 0 THEN start
        ELSE within[n - 1] \cup UNION {ToSet(entriesOf[x]) : x \in within[n - 1] \cap DOMAIN entriesOf}
  IN  within[depth + 1]

(* What a person who follows every reference would find, and wants.        *)
Referred ==
  ToSet(tree.build) \cup ToSet(tree.dependencies) \cup ToSet(tree.elsewhere)
    \cup Closure(tree.groups, ToSet(GroupsRead), GroupDepth)
    \cup Closure(tree.files, ToSet(tree.fileOrder), FileDepth)
    \cup (UNION {ToSet(tree.extras[e]) : e \in DOMAIN tree.extras})
Wanted == {line \in Referred \cap Lines : NameOf[line] # tree.ownName /\ line \in Checked}

(* Lines that name the project under review and hide it from the split.    *)
Misread ==
  {line \in Referred \cap Lines : /\ NameOf[line] = tree.ownName /\ SplitName[line] # NameOf[line]
                                  /\ line \in Checked}

(* "Nothing here guesses silently": a suite that can be run is never       *)
(* hidden by one that cannot; of two, the one with fewer test files is not *)
(* chosen; nothing is fetched if one of the sections that are read, or the *)
(* lockfile of the manager that will fetch, names a source of its own; and *)
(* the requirements of a Python suite are what its metadata names, through *)
(* circles of groups, files and its own extras: each once, all of them up  *)
(* to the cap, and the project under review only where its name is hidden. *)
DetectionIsSound ==
  detectAt = "done" =>
    /\ detection.found <=> (python.found \/ javascript.found)
    /\ python.found /\ javascript.found =>
         detection = IF counted.python < counted.javascript THEN javascript ELSE python
    /\ detection.found /\ detection.why = "javascript" =>
         /\ tree.foreign \cap (SectionsRead \cup {detection.manager}) = {}
         /\ tree.declared \in {"npm", "pnpm", "yarn"} => detection.manager = tree.declared
         /\ tree.declared = "none" /\ tree.lockfiles # {} => detection.manager \in tree.lockfiles
    /\ python.found =>
         LET r == python.requirements
         IN  /\ \A i, j \in 1 .. Len(r) : r[i] = r[j] => i = j
             /\ ToSet(r) \subseteq Wanted \cup Misread
             /\ Len(r) = Min({MAX_REQUIREMENTS, Cardinality(Wanted \cup Misread)})
=============================================================================
