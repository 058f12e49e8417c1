------------------------ MODULE ShutdownCoordinator ------------------------
(***************************************************************************)
(* The shutdown life cycle of the hub daemon: every graceful trigger shares*)
(* one cleanup, a watchdog or a second signal forces the exit, and later   *)
(* triggers may raise the exit code.  The process exits for good, so that  *)
(* nothing happens once exitCode is set.                                   *)
(***************************************************************************)
EXTENDS Integers

VARIABLES
  shutdown,            \* state
  requestedExitCode,
  watchdog,            \* the deadline timer is set
  cleanup,             \* "none" until shutdownPromise exists
  exitCode             \* what the process exited with, -1 while it runs

coordinatorVars == <<shutdown, requestedExitCode, watchdog, cleanup, exitCode>>

ExitCode == {0, 1}

CoordinatorTypeOK ==
  /\ shutdown \in {"idle", "shutting_down", "forced", "finished"}
  /\ requestedExitCode \in ExitCode
  /\ watchdog \in BOOLEAN
  /\ cleanup \in {"none", "due", "running", "done"}
  /\ exitCode \in ExitCode \cup {-1}

CoordinatorInit ==
  /\ shutdown = "idle" /\ requestedExitCode = 0 /\ watchdog = FALSE
  /\ cleanup = "none" /\ exitCode = -1

\* A new process, after the last one exited or crashed.
CoordinatorRestarts ==
  /\ shutdown' = "idle" /\ requestedExitCode' = 0 /\ watchdog' = FALSE
  /\ cleanup' = "none" /\ exitCode' = -1

\* Mutant of RaisedTo: the codes are added.
RaisedBy(code) == requestedExitCode + code

RaisedTo(code) == IF code > requestedExitCode THEN code ELSE requestedExitCode

\* Mutants of Request: only the first request counts; no watchdog.
RequestOnce(code) ==
  /\ IF cleanup = "none"
       THEN shutdown' = "shutting_down" /\ watchdog' = TRUE /\ cleanup' = "due"
            /\ requestedExitCode' = code
       ELSE UNCHANGED <<shutdown, watchdog, cleanup, requestedExitCode>>
  /\ UNCHANGED exitCode

RequestUnwatched(code) ==
  /\ requestedExitCode' = RaisedTo(code)
  /\ IF cleanup = "none"
       THEN shutdown' = "shutting_down" /\ cleanup' = "due"
       ELSE UNCHANGED <<shutdown, cleanup>>
  /\ UNCHANGED <<watchdog, exitCode>>

Request(code) ==
  /\ requestedExitCode' = RaisedTo(code)
  /\ IF cleanup = "none"
       THEN shutdown' = "shutting_down" /\ watchdog' = TRUE /\ cleanup' = "due"
       ELSE UNCHANGED <<shutdown, watchdog, cleanup>>
  /\ UNCHANGED exitCode

ForceExit(code) ==
  /\ requestedExitCode' = RaisedTo(code)
  /\ shutdown' = "forced"
  /\ watchdog' = FALSE
  /\ exitCode' = RaisedTo(code)
  /\ UNCHANGED cleanup

CleanupStarts ==
  /\ cleanup = "due" /\ cleanup' = "running"
  /\ UNCHANGED <<shutdown, requestedExitCode, watchdog, exitCode>>

CleanupEnds(ok) ==
  /\ cleanup = "running" /\ cleanup' = "done"
  /\ requestedExitCode' = IF ok THEN requestedExitCode ELSE 1
  /\ shutdown' = "finished"
  /\ watchdog' = FALSE
  /\ exitCode' = requestedExitCode'

=============================================================================
