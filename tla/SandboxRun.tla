------------------------------ MODULE SandboxRun ------------------------------
(***************************************************************************)
(* One run of a repository's tests at one commit: run_detected of          *)
(* sandbox/session.py over execute, fetch_dropping_unavailable and         *)
(* deps_volume of sandbox/runner.py.                                       *)
(*                                                                         *)
(* A volume is created, dependencies are fetched in one container and the  *)
(* tests run in another, each started by a docker client process and cut   *)
(* off by a wall clock.  The docker daemon goes its own way meanwhile: it  *)
(* may start a container late, lose it to the kernel, or refuse a command. *)
(* The job may be cancelled, once, at any await.                           *)
(***************************************************************************)
EXTENDS Integers, FiniteSets

CONSTANTS
  NTests,       \* tests the command selects, in the order they are reported
  MaxFailures,  \* MAX_FAILURES of sandbox/evidence.py
  MaxDropped    \* MAX_DROPPED_REQUIREMENTS

Tests == 1 .. NTests

ASSUME SandboxAssumption ==
  NTests \in Nat /\ MaxFailures \in Nat \ {0} /\ MaxDropped \in Nat

VARIABLES
  runAt,       \* where run_detected is
  step,        \* the container it is about: "fetch" or "run"
  client,      \* the docker client: "none", "running", or how it exited
  container,   \* whether the container is running
  volume,      \* whether the dependency volume exists
  failing,     \* the tests that fail at this commit
  report,      \* the wrapper's status line, or NoReport
  printed,     \* the failures the suite printed
  timedOut,    \* the wall clock passed
  dropped,     \* requirements dropped
  cancelled,   \* CancelledError on its way up
  row,         \* the row's outcome
  listed,      \* the failures of the row's evidence
  spoiled      \* docker refused a removal, or the cancel hit the cleaning up

sandboxVars == <<runAt, step, client, container, volume, failing, report, printed,
                 timedOut, dropped, cancelled, row, listed, spoiled>>

NoReport == [exit |-> "none", oom |-> FALSE]
Report == [exit : {"zero", "tests", "nonzero"}, oom : BOOLEAN]
Outcomes == {"passed", "failed", "no_tests", "timed_out", "oom_killed", "error"}
Stages == {"idle", "pull", "create_volume", "start", "wait", "kill", "kill_wait",
           "remove", "read", "remove_volume", "over"}

SandboxTypeOK ==
  /\ runAt \in Stages
  /\ step \in {"fetch", "run"}
  /\ client \in {"none", "running", "exited", "killed"}
  /\ container \in BOOLEAN /\ volume \in BOOLEAN
  /\ failing \subseteq Tests /\ printed \subseteq failing /\ listed \subseteq Tests
  /\ report \in Report \cup {NoReport}
  /\ timedOut \in BOOLEAN /\ cancelled \in BOOLEAN /\ spoiled \in BOOLEAN
  /\ dropped \in 0 .. MaxDropped
  /\ row \in Outcomes \cup {"none", "install_failed", "raised"}

SandboxInit ==
  /\ runAt = "idle" /\ step = "fetch" /\ client = "none"
  /\ container = FALSE /\ volume = FALSE
  /\ failing = {} /\ report = NoReport /\ printed = {}
  /\ timedOut = FALSE /\ dropped = 0 /\ cancelled = FALSE
  /\ row = "none" /\ listed = {} /\ spoiled = FALSE

commitVars == <<failing, dropped, row, listed>>
dockerVars == <<client, container, volume, report, printed>>

-----------------------------------------------------------------------------
(***************************************************************************)
(* run_detected at a commit where these tests fail.                        *)
(***************************************************************************)
Begin(fails) ==
  /\ runAt' = "pull" /\ step' = "fetch" /\ client' = "none"
  /\ container' = FALSE /\ volume' = FALSE
  /\ failing' = fails /\ report' = NoReport /\ printed' = {}
  /\ timedOut' = FALSE /\ dropped' = 0 /\ cancelled' = FALSE
  /\ row' = "none" /\ listed' = {} /\ spoiled' = FALSE

Pull ==
  /\ runAt = "pull"
  /\ \/ runAt' = "create_volume" /\ UNCHANGED row
     \/ runAt' = "over" /\ row' = "raised"
  /\ UNCHANGED <<step, dockerVars, failing, timedOut, dropped, cancelled, listed, spoiled>>

CreateVolume ==
  /\ runAt = "create_volume"
  /\ \/ runAt' = "start" /\ volume' = TRUE /\ UNCHANGED row
     \/ runAt' = "over" /\ row' = "raised" /\ UNCHANGED volume
  /\ UNCHANGED <<step, client, container, report, printed, failing, timedOut, dropped,
                 cancelled, listed, spoiled>>

(***************************************************************************)
(* execute(): the client process, the wall clock, and what follows either. *)
(***************************************************************************)
Start ==
  /\ runAt = "start"
  /\ runAt' = "wait"
  /\ client' = "running"
  /\ report' = NoReport /\ printed' = {} /\ timedOut' = FALSE
  /\ UNCHANGED <<step, container, volume, commitVars, cancelled, spoiled>>

Exited == client \in {"exited", "killed"}

Waited ==
  /\ runAt \in {"wait", "kill_wait"}
  /\ Exited
  /\ runAt' = "remove"
  /\ UNCHANGED <<step, dockerVars, commitVars, timedOut, cancelled, spoiled>>

WallClock ==
  /\ runAt = "wait"
  /\ client = "running"
  /\ timedOut' = TRUE
  /\ runAt' = "kill"
  /\ UNCHANGED <<step, dockerVars, commitVars, cancelled, spoiled>>

(* docker kill: it may come before the container started, or be refused.   *)
KillContainer ==
  /\ runAt = "kill"
  /\ runAt' = "kill_wait"
  /\ \/ container /\ container' = FALSE /\ client' = "killed"
     \/ UNCHANGED <<container, client>>
  /\ UNCHANGED <<step, volume, report, printed, commitVars, timedOut, cancelled, spoiled>>

(* KILL_WAIT_SECONDS pass: the client goes, the container may stay.        *)
KillClient ==
  /\ runAt = "kill_wait"
  /\ client = "running"
  /\ client' = "killed"
  /\ runAt' = "remove"
  /\ UNCHANGED <<step, container, volume, report, printed, commitVars, timedOut,
                 cancelled, spoiled>>

(* Mutant: the container is left to --rm.                                  *)
LeaveToRm ==
  /\ runAt = "remove"
  /\ runAt' = IF cancelled THEN "remove_volume" ELSE "read"
  /\ UNCHANGED <<step, dockerVars, commitVars, timedOut, cancelled, spoiled>>

(* docker rm --force; a refusal is logged.                                 *)
RemoveContainer ==
  /\ runAt = "remove"
  /\ \/ container' = FALSE /\ UNCHANGED spoiled
     \/ container /\ spoiled' = TRUE /\ UNCHANGED container
  /\ runAt' = IF cancelled THEN "remove_volume" ELSE "read"
  /\ UNCHANGED <<step, client, volume, report, printed, commitVars, timedOut, cancelled>>

-----------------------------------------------------------------------------
(* SandboxResult.outcome, with the OOM flag of execute(): the cgroup's     *)
(* counter if the wrapper reported, else an exit of 137 (client "killed")  *)
(* that the wall clock did not cause.  Then _outcome of session.py.        *)
OomKilled == IF report # NoReport THEN report.oom ELSE ~timedOut /\ client = "killed"

Outcome ==
  CASE timedOut -> "timed_out"
    [] ~timedOut /\ OomKilled -> "oom_killed"
    [] ~timedOut /\ ~OomKilled /\ report = NoReport -> "error"
    [] OTHER -> IF report.exit = "zero" THEN "passed"
                ELSE IF report.exit = "tests" /\ step = "run" THEN "no_tests"
                ELSE "failed"

(* parsed.failures[:MAX_FAILURES].                                         *)
Shown(fails) == {t \in fails : Cardinality({s \in fails : s < t}) < MaxFailures}

(***************************************************************************)
(* What follows a container that was not cancelled: the fetch again with a *)
(* requirement less, the tests, or the end.                                *)
(***************************************************************************)
Read ==
  /\ runAt = "read"
  /\ IF step = "run"
       THEN /\ row' = Outcome
            /\ listed' = Shown(printed)
            /\ runAt' = "remove_volume"
            /\ UNCHANGED <<step, dropped>>
       ELSE /\ UNCHANGED listed
            /\ \/ /\ Outcome = "passed"
                  /\ step' = "run" /\ runAt' = "start"
                  /\ UNCHANGED <<dropped, row>>
               \/ /\ Outcome # "passed" /\ dropped < MaxDropped
                  /\ dropped' = dropped + 1 /\ runAt' = "start"
                  /\ UNCHANGED <<step, row>>
               \/ /\ Outcome # "passed"
                  /\ row' = "install_failed" /\ runAt' = "remove_volume"
                  /\ UNCHANGED <<step, dropped>>
  /\ UNCHANGED <<dockerVars, failing, timedOut, cancelled, spoiled>>

(* docker volume rm --force: refused while a container has it.             *)
RemoveVolume ==
  /\ runAt = "remove_volume"
  /\ \/ ~container /\ volume' = FALSE /\ UNCHANGED spoiled
     \/ ~container /\ spoiled' = TRUE /\ UNCHANGED volume
     \/ container /\ UNCHANGED <<volume, spoiled>>
  /\ row' = IF cancelled THEN "raised" ELSE row
  /\ runAt' = "over"
  /\ UNCHANGED <<step, client, container, report, printed, failing, timedOut, dropped,
                 cancelled, listed>>

-----------------------------------------------------------------------------
(***************************************************************************)
(* CancelledError at an await.  In front of execute's finally it runs the  *)
(* clean-up, and the volume's goes after it; inside the clean-up it skips  *)
(* the rest of it, and in deps_volume's create it skips the removal, while *)
(* the docker command already sent takes effect or not.                    *)
(***************************************************************************)
CancelWaiting ==
  /\ runAt = "wait"
  /\ runAt' = IF Exited THEN "remove" ELSE "kill"
  /\ UNCHANGED <<container, volume, spoiled>>

CancelElsewhere ==
  \/ /\ runAt \in {"pull", "create_volume"}
     /\ runAt' = "over"
     /\ volume' \in {volume, runAt = "create_volume"}
     /\ spoiled' = (runAt = "create_volume")
     /\ UNCHANGED container
  \/ /\ runAt \in {"start", "read"}
     /\ runAt' = "remove_volume"
     /\ UNCHANGED <<container, volume, spoiled>>
  \/ /\ runAt \in {"kill", "kill_wait", "remove"}
     /\ runAt' = "remove_volume"
     /\ container' \in {container, FALSE}
     /\ spoiled' = TRUE
     /\ UNCHANGED volume

Cancel ==
  /\ ~cancelled
  /\ cancelled' = TRUE
  /\ CancelWaiting \/ CancelElsewhere
  /\ row' = IF runAt' = "over" THEN "raised" ELSE row
  /\ UNCHANGED <<step, client, report, printed, failing, timedOut, dropped, listed>>

-----------------------------------------------------------------------------
(***************************************************************************)
(* The docker daemon and what runs in the container.                       *)
(***************************************************************************)
ContainerStarts ==
  /\ client = "running" /\ ~container
  /\ container' = TRUE
  /\ UNCHANGED <<runAt, step, client, volume, report, printed, commitVars, timedOut,
                 cancelled, spoiled>>

(* The command ends and the wrapper reports.  A suite that fails prints    *)
(* the tests that fail, or stops before it has any; a process of it may    *)
(* have been killed for memory; a test command may find no test.           *)
SuiteEnds ==
  /\ client = "running" /\ container
  /\ container' = FALSE /\ client' = "exited"
  /\ \E exit \in {"zero", "tests", "nonzero"}, oom \in BOOLEAN :
       /\ report' = [exit |-> exit, oom |-> oom]
       /\ step = "run" /\ exit = "zero" => failing = {}
       /\ printed' \in IF step = "run" /\ exit = "nonzero" THEN {failing, {}} ELSE {{}}
  /\ UNCHANGED <<runAt, step, volume, commitVars, timedOut, cancelled, spoiled>>

(* The container is killed by the kernel, or never starts properly.        *)
ContainerDies ==
  /\ client = "running"
  /\ container' = FALSE
  /\ client' \in (IF container THEN {"killed", "exited"} ELSE {"exited"})
  /\ UNCHANGED <<runAt, step, volume, report, printed, commitVars, timedOut, cancelled,
                 spoiled>>

DockerStep == ContainerStarts \/ SuiteEnds \/ ContainerDies

RunStep ==
  \/ Pull \/ CreateVolume \/ Start \/ Waited \/ WallClock \/ KillContainer \/ KillClient
  \/ RemoveContainer \/ Read \/ RemoveVolume

SandboxStep == RunStep \/ Cancel \/ DockerStep

-----------------------------------------------------------------------------
(***************************************************************************)
(* Safety.                                                                 *)
(***************************************************************************)

(* However a run ends - a result, a wall clock, a cancelled job, a client  *)
(* that had to be killed - no container of it is running and no volume of  *)
(* it is left, unless docker refused a removal or the cancel came inside   *)
(* the cleaning up or the creation of the volume.                          *)
LeavesNothing == runAt = "over" /\ ~spoiled => ~container /\ ~volume
=============================================================================
