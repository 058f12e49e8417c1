----------------------------- MODULE AgendaTasks -----------------------------
(***************************************************************************)
(* The tasks of the hub's agenda: AgendaTaskManager over the tables        *)
(* agenda_tasks and agenda_task_runs and the spec file of each task.  One  *)
(* process runs it, on one event loop: what stands between two awaits of   *)
(* the session runtime is one step, or several that nothing comes between  *)
(* (Busy), but a crash: every statement of the store commits by itself, so *)
(* that a run may be written and its task not (torn).  A chain is          *)
(* an asynchronous call that begins with a reconciliation of the files; it *)
(* waits where the reconciliation aborts a session.  The automation is a   *)
(* client like others.                                                     *)
(***************************************************************************)
EXTENDS Integers, FiniteSets

CONSTANTS
  Task,
  Chain,       \* calls that may be under way at a time
  NoTask, NoRun,
  MaxRun,      \* bound: runs of a task
  Bounds       \* bound: what TLC looks at, see Bound

ASSUME TaskAssumption == NoTask \notin Task
ASSUME MaxRunAssumption == MaxRun \in Nat

Run == Task \X (1 .. MaxRun)
ASSUME RunAssumption == NoRun \notin Run

\* "chains" make the calls of clients; any chain may reconcile after a run.
Bound == [tasks : SUBSET Task, chains : SUBSET Chain, runs : [Task -> 0 .. MaxRun],
          edits : [Task -> Nat], files : SUBSET Task, expiring : SUBSET Task, faults : Nat]
ASSUME BoundsAssumption == Bounds \subseteq Bound

VARIABLES
  \* agenda_tasks
  status, revision, approvedRevision, currentRun, archived,
  \* agenda_task_runs
  runStatus, runRevision,
  \* the world
  file,        \* a task's spec file, compared with the row
  overdue,     \* expiresAt is past
  \* the manager
  life,
  awaited,     \* the executions a disposal waits for
  activeRuns,
  phase,       \* where the execution of a run stands
  from,        \* the status of the task its execution has read
  pc, call, subject, asked,   \* a chain: where, what, for which task and revision
  listed,      \* the tasks its reconciliation has still to archive, as it read them
  \* history
  faults,      \* crashes and disposals
  sanctioned,  \* the revisions an approval was asked for
  torn,        \* runs whose outcome a crash kept from their task
  bound        \* chosen from Bounds

taskVars == <<status, revision, approvedRevision, currentRun, archived>>
runVars == <<runStatus, runRevision>>
execVars == <<activeRuns, phase, from>>
chainVars == <<pc, call, subject, asked, listed>>
worldVars == <<file, overdue>>
history == <<faults, sanctioned, torn, bound>>
vars == <<taskVars, runVars, execVars, chainVars, worldVars, life, awaited, history>>

Cancelled == {"cancelled", "deleted"}  \* "deleted": the spec was, see Restored
Closed == {"completed", "expired"} \cup Cancelled
Status == {"pending_approval", "approved", "in_progress", "failed"} \cup Closed
Terminal == {"completed", "failed", "cancelled", "interrupted"}
Revision == Nat \ {0}
Unlisted == [status |-> "unlisted", revision |-> 1]
Listing(t) == [status |-> status[t], revision |-> revision[t]]

TypeOK ==
  /\ status \in [Task -> Status]
  /\ revision \in [Task -> Revision]
  /\ approvedRevision \in [Task -> Revision \cup {0}]
  /\ currentRun \in [Task -> Run \cup {NoRun}]
  /\ archived \in [Task -> BOOLEAN]
  /\ runStatus \in [Run -> Terminal \cup {"none", "starting", "running"}]
  /\ runRevision \in [Run -> Revision]
  /\ file \in [Task -> {"same", "edited", "missing"}]
  /\ overdue \in [Task -> BOOLEAN]
  /\ life \in {"up", "disposing", "settling", "down"}
  /\ awaited \subseteq Run
  /\ activeRuns \in [Task -> Run \cup {NoRun}]
  /\ phase \in [Run -> {"none", "starting", "running", "closing", "done"}]
  /\ from \in [Run -> {"approved", "failed"}]
  /\ pc \in [Chain -> {"idle", "reconcile", "loop", "abort"}]
  /\ call \in [Chain -> {"read", "approve", "run", "update"}]
  /\ subject \in [Chain -> Task \cup {NoTask}]
  /\ asked \in [Chain -> Revision]
  /\ listed \in [Chain -> [Task -> [status : Status \cup {"unlisted", "cancelling"},
                                  revision : Revision]]]
  /\ faults \in 0 .. bound.faults
  /\ bound \in Bound
  /\ sanctioned \in [Task -> SUBSET Revision] /\ torn \subseteq Run

Init ==
  /\ status = [t \in Task |-> "pending_approval"]
  /\ revision = [t \in Task |-> 1] /\ approvedRevision = [t \in Task |-> 0]
  /\ currentRun = [t \in Task |-> NoRun] /\ archived = [t \in Task |-> FALSE]
  /\ runStatus = [r \in Run |-> "none"] /\ runRevision = [r \in Run |-> 1]
  /\ file = [t \in Task |-> "same"] /\ overdue = [t \in Task |-> FALSE]
  /\ life = "up" /\ awaited = {} /\ activeRuns = [t \in Task |-> NoRun]
  /\ phase = [r \in Run |-> "none"] /\ from = [r \in Run |-> "approved"]
  /\ pc = [c \in Chain |-> "idle"] /\ call = [c \in Chain |-> "read"]
  /\ subject = [c \in Chain |-> NoTask] /\ asked = [c \in Chain |-> 1]
  /\ listed = [c \in Chain |-> [t \in Task |-> Unlisted]]
  /\ bound \in Bounds /\ faults = 0 /\ sanctioned = [t \in Task |-> {}] /\ torn = {}

\* A chain has the event loop.
Busy == \E c \in Chain : pc[c] \in {"reconcile", "loop"}
Free == ~Busy /\ life # "down"

-----------------------------------------------------------------------------
(* Parts of the handlers. *)

Live(r) == r # NoRun /\ runStatus[r] \in {"starting", "running"}

\* A row's new status, approval and run.
SetTask(t, s, approval, r) ==
  /\ status' = [status EXCEPT ![t] = s]
  /\ approvedRevision' = [approvedRevision EXCEPT ![t] = approval]
  /\ currentRun' = [currentRun EXCEPT ![t] = r]

SetRun(r, s) == runStatus' = [runStatus EXCEPT ![r] = s]
Forget(t) == activeRuns' = [activeRuns EXCEPT ![t] = NoRun]

\* The body of cancelTask for a task that is not closed: its run, which may have
\* none, is cancelled, and it leaves s behind.
CancelBody(t, s) ==
  /\ runStatus' = [r \in Run |->
       IF r = currentRun[t] /\ Live(r) THEN "cancelled" ELSE runStatus[r]]
  /\ Forget(t)
  /\ SetTask(t, s, 0, NoRun)

\* expireTask: what is under way or closed does not expire.
Expirable(t) ==
  /\ overdue[t] /\ currentRun[t] = NoRun /\ ~archived[t]
  /\ status[t] \in {"pending_approval", "approved", "failed"}

\* bound.runs bounds the runs of a task.
RunsLeft(t) == \E r \in Run : r[1] = t /\ r[2] <= bound.runs[t] /\ runStatus[r] = "none"

Idle(c) ==
  /\ pc' = [pc EXCEPT ![c] = "idle"]
  /\ call' = [call EXCEPT ![c] = "read"]
  /\ subject' = [subject EXCEPT ![c] = NoTask]
  /\ asked' = [asked EXCEPT ![c] = 1]
  /\ listed' = [listed EXCEPT ![c] = [t \in Task |-> Unlisted]]

-----------------------------------------------------------------------------
(* Calls of clients, watchers and timers that reconcile the files first. *)

\* A file that is back takes its row out of the archive; a task that was cancelled
\* because it was deleted is to be approved again.
Restored(t) == archived[t] /\ file[t] # "missing"
StatusRestored(t) ==
  IF Restored(t) /\ status[t] = "deleted" THEN "pending_approval" ELSE status[t]

\* An edit is applied, deferred while the task runs, and undone if it is closed.
Edited(t) == file[t] = "edited" /\ StatusRestored(t) \in {"pending_approval", "approved", "failed"}

\* reconcileFileStore up to the tasks whose file is missing, which it lists.
Reconcile(c) ==
  /\ status' = [t \in Task |->
       IF Edited(t) THEN "pending_approval" ELSE StatusRestored(t)]
  /\ revision' = [t \in Task |-> IF Edited(t) THEN revision[t] + 1 ELSE revision[t]]
  /\ approvedRevision' = [t \in Task |->
       IF Edited(t) \/ StatusRestored(t) # status[t] THEN 0 ELSE approvedRevision[t]]
  /\ currentRun' = [t \in Task |-> IF Edited(t) THEN NoRun ELSE currentRun[t]]
  /\ archived' = [t \in Task |-> IF Restored(t) THEN FALSE ELSE archived[t]]
  /\ file' = [t \in Task |->
       IF file[t] = "edited" /\ status[t] # "in_progress" THEN "same" ELSE file[t]]
  /\ overdue' = [t \in Task |-> IF Edited(t) THEN FALSE ELSE overdue[t]]
  /\ listed' = [listed EXCEPT ![c] = [t \in Task |->
       IF file[t] = "missing" /\ ~archived[t] THEN Listing(t) ELSE Unlisted]]
  /\ pc' = [pc EXCEPT ![c] = "loop"]
  /\ UNCHANGED <<runVars, execVars, life, awaited, faults, torn, bound>>

Uncalled(c) == Free /\ life = "up" /\ pc[c] = "idle" /\ c \in bound.chains

\* A client asks to approve, run or update the revision it has seen.
Ask(c, what, t) ==
  /\ Uncalled(c)
  /\ t \in bound.tasks
  /\ call' = [call EXCEPT ![c] = what]
  /\ subject' = [subject EXCEPT ![c] = t]
  /\ asked' = [asked EXCEPT ![c] = revision[t]]
  /\ sanctioned' = [sanctioned EXCEPT ![t] =
       IF what = "approve" THEN @ \cup {revision[t]} ELSE @]
  /\ Reconcile(c)

\* Listings and the watchers of the files.
Read(c) ==
  /\ Uncalled(c)
  /\ Reconcile(c)
  /\ UNCHANGED <<call, subject, asked, sanctioned>>

\* The reconciliation after a run, and that of the start.
ReconcileFiles(c) ==
  /\ pc[c] = "reconcile" /\ life = "up"
  /\ Reconcile(c)
  /\ UNCHANGED <<call, subject, asked, sanctioned>>

\* Once disposed a reconciliation does nothing.
ReconcileNothing(c) ==
  /\ pc[c] = "reconcile" /\ life # "up"
  /\ pc' = [pc EXCEPT ![c] = "loop"]
  /\ UNCHANGED <<taskVars, runVars, execVars, worldVars, call, subject, asked, listed,
                 life, awaited, history>>

\* A task is archived as it was listed.
ArchivedAs(s) == IF s \in Closed THEN s ELSE "deleted"

Archive(c, t) ==
  LET s == listed[c][t].status
  IN /\ pc[c] = "loop" /\ s \notin {"unlisted", "in_progress"}
     /\ SetTask(t, ArchivedAs(s), 0, NoRun)
     /\ archived' = [archived EXCEPT ![t] = TRUE]
     /\ listed' = [listed EXCEPT ![c][t] = Unlisted]
     /\ UNCHANGED <<revision, runVars, execVars, worldVars, pc, call, subject, asked, life,
                    awaited, history>>

\* One that was listed in progress is cancelled first; its session is aborted, which
\* the chain waits for, if the run has one.
InProgressListed(c, t) == pc[c] = "loop" /\ listed[c][t].status = "in_progress"
Refuses(c, t) ==
  \/ life # "up" \/ status[t] \in {"completed", "expired"}
  \/ revision[t] # listed[c][t].revision

ListedIsCancelled(c, t) ==
  InProgressListed(c, t) /\ ~Refuses(c, t) /\ status[t] \notin Cancelled

CancelListed(c, t) ==
  /\ ListedIsCancelled(c, t)
  /\ CancelBody(t, "deleted")
  /\ listed' = [listed EXCEPT ![c][t].status = "cancelling"]
  /\ pc' = [pc EXCEPT ![c] = IF currentRun[t] # NoRun THEN "abort" ELSE "loop"]
  /\ UNCHANGED <<revision, archived, runRevision, phase, from, worldVars, call, subject,
                 asked, life, awaited, history>>

AlreadyCancelled(c, t) ==
  /\ InProgressListed(c, t) /\ ~Refuses(c, t) /\ status[t] \in Cancelled
  /\ listed' = [listed EXCEPT ![c][t].status = "cancelling"]
  /\ UNCHANGED <<taskVars, runVars, execVars, worldVars, pc, call, subject, asked, life,
                 awaited, history>>

\* cancelTask throws: the reconciliation ends there, and with it an approval or a run;
\* an update goes on.
CancelThrows(c, t) ==
  /\ InProgressListed(c, t) /\ Refuses(c, t)
  /\ IF call[c] = "update"
       THEN /\ listed' = [listed EXCEPT ![c] = [x \in Task |-> Unlisted]]
            /\ UNCHANGED <<pc, call, subject, asked>>
       ELSE Idle(c)
  /\ UNCHANGED <<taskVars, runVars, execVars, worldVars, life, awaited, history>>

AbortReturns(c) ==
  /\ Free /\ pc[c] = "abort"
  /\ pc' = [pc EXCEPT ![c] = "loop"]
  /\ UNCHANGED <<taskVars, runVars, execVars, worldVars, call, subject, asked, listed,
                 life, awaited, history>>

-----------------------------------------------------------------------------
(* What a call does after its reconciliation. *)

LoopEnds(c, what) ==
  /\ pc[c] = "loop" /\ call[c] = what
  /\ \A t \in Task : listed[c][t] = Unlisted

Reconciled(c, what) == LoopEnds(c, what) /\ Idle(c)

\* Mutant of Verified: whatever revision the client has seen.
VerifiedUnasked(c) == ~archived[subject[c]] /\ file[subject[c]] = "same"

\* refreshAndVerifyTaskIntent and assertRevision: the row is that of the file, and of
\* the revision the client has seen.
Verified(c) ==
  LET t == subject[c]
  IN ~archived[t] /\ file[t] = "same" /\ revision[t] = asked[c]

ReadEnds(c) ==
  /\ Reconciled(c, "read")
  /\ UNCHANGED <<taskVars, runVars, execVars, worldVars, life, awaited, history>>

Approvable(t) == ~overdue[t] /\ status[t] \in {"pending_approval", "failed"}

Approve(c) ==
  LET t == subject[c]
  IN /\ Reconciled(c, "approve")
     /\ Verified(c) /\ Approvable(t)
     /\ SetTask(t, "approved", revision[t], currentRun[t])
     /\ UNCHANGED <<revision, archived, runVars, execVars, worldVars, life, awaited, history>>

\* The unique index over the live runs of a task has the last word.
Runnable(t) ==
  /\ ~overdue[t] /\ status[t] \in {"approved", "failed"}
  /\ approvedRevision[t] = revision[t]
  /\ activeRuns[t] = NoRun /\ currentRun[t] = NoRun
  /\ \A r \in Run : r[1] = t => ~Live(r)
  /\ RunsLeft(t)

\* createRun.
CreateRun(c, r) ==
  LET t == subject[c]
  IN /\ LoopEnds(c, "run")
     /\ Verified(c) /\ Runnable(t)
     /\ r[1] = t /\ runStatus[r] = "none"
     /\ \A x \in Run : x[1] = t /\ x[2] < r[2] => runStatus[x] # "none"
     /\ SetRun(r, "starting")
     /\ runRevision' = [runRevision EXCEPT ![r] = revision[t]]

RunTask(c) ==
  LET t == subject[c]
  IN /\ \E r \in Run :
          /\ CreateRun(c, r)
          /\ SetTask(t, status[t], approvedRevision[t], r)
          /\ activeRuns' = [activeRuns EXCEPT ![t] = r]
          /\ phase' = [phase EXCEPT ![r] = "starting"]
          /\ from' = [from EXCEPT ![r] = status[t]]
     /\ Idle(c)
     /\ UNCHANGED <<revision, archived, worldVars, life, awaited, history>>

\* An update is refused while the task runs and once it is closed.
Editable(t) ==
  /\ status[t] \in {"pending_approval", "approved", "failed"}
  /\ revision[t] <= bound.edits[t]
Updatable(c) ==
  LET t == subject[c]
  IN file[t] = "same" /\ revision[t] = asked[c] /\ Editable(t)

Update(c) ==
  LET t == subject[c]
  IN /\ Reconciled(c, "update") /\ Updatable(c)
     /\ revision' = [revision EXCEPT ![t] = @ + 1]
     /\ SetTask(t, "pending_approval", 0, NoRun)
     /\ archived' = [archived EXCEPT ![t] = FALSE]
     /\ overdue' = [overdue EXCEPT ![t] = FALSE]
     /\ UNCHANGED <<runVars, execVars, file, life, awaited, history>>

\* Any other call is refused; if the task is overdue it expires.
Refused(c) ==
  LET t == subject[c]
  IN /\ Reconciled(c, call[c]) /\ call[c] # "read"
     /\ ~(/\ call[c] = "approve" /\ Verified(c) /\ Approvable(t))
     /\ ~(/\ call[c] = "run" /\ Verified(c) /\ Runnable(t))
     /\ ~(call[c] = "update" /\ Updatable(c))
     /\ IF call[c] # "update" /\ Verified(c) /\ Expirable(t)
          THEN SetTask(t, "expired", 0, NoRun)
          ELSE UNCHANGED <<status, approvedRevision, currentRun>>
     /\ UNCHANGED <<revision, archived, runVars, execVars, worldVars, life, awaited, history>>

\* cancelTask, which does not look at the files.
Cancellable(t) == t \in bound.tasks /\ Free /\ life = "up" /\ status[t] \notin Closed

CancelTask(t) ==
  /\ Cancellable(t)
  /\ CancelBody(t, "cancelled")
  /\ UNCHANGED <<revision, archived, runRevision, phase, from, chainVars, worldVars, life,
                 awaited, history>>

-----------------------------------------------------------------------------
(* The execution of a run. *)

\* Mutant of StartStands: only the row's approval is looked at again.
StartStandsIfApproved(r) == Live(r) /\ approvedRevision[r[1]] = revision[r[1]]

\* What is read again once the session has started.
StartStands(r) ==
  /\ Live(r) /\ status[r[1]] = from[r] /\ currentRun[r[1]] = r

SessionStarted(r) ==
  LET t == r[1]
  IN /\ Free /\ phase[r] = "starting" /\ StartStands(r)
     /\ SetRun(r, "running")
     /\ SetTask(t, "in_progress", approvedRevision[t], currentRun[t])
     /\ activeRuns' = [activeRuns EXCEPT ![t] = r]
     /\ phase' = [phase EXCEPT ![r] = "running"]
     /\ UNCHANGED <<revision, archived, runRevision, from, chainVars, worldVars, life,
                    awaited, history>>

\* The session is aborted and the call fails; what finishRunFailure finds has ended.
SessionRefused(r) ==
  /\ Free /\ phase[r] = "starting" /\ ~StartStands(r)
  /\ runStatus' = IF Live(r) THEN [runStatus EXCEPT ![r] = "cancelled"] ELSE runStatus
  /\ Forget(r[1])
  /\ phase' = [phase EXCEPT ![r] = "done"]
  /\ UNCHANGED <<taskVars, runRevision, from, chainVars, worldVars, life, awaited, history>>

\* finishRunFailure: the run fails, and its task if it is still the task's run.
TaskFails(r) == Live(r) /\ status[r[1]] \notin Cancelled /\ currentRun[r[1]] = r
Failure(r) ==
  /\ runStatus' = IF Live(r) THEN [runStatus EXCEPT ![r] = "failed"] ELSE runStatus
  /\ IF TaskFails(r) THEN SetTask(r[1], "failed", approvedRevision[r[1]], NoRun)
     ELSE UNCHANGED <<status, approvedRevision, currentRun>>

StartFails(r) ==
  /\ Free /\ phase[r] = "starting"
  /\ Failure(r)
  /\ IF Live(r) /\ status[r[1]] \notin Cancelled THEN Forget(r[1]) ELSE UNCHANGED activeRuns
  /\ phase' = [phase EXCEPT ![r] = "done"]
  /\ UNCHANGED <<revision, archived, runRevision, from, chainVars, worldVars, life,
                 awaited, history>>

\* The finally block of finishRun: chain c reconciles the files.
Finally(r, c) ==
  /\ pc[c] = "idle"
  /\ Forget(r[1])
  /\ phase' = [phase EXCEPT ![r] = "done"]
  /\ pc' = [pc EXCEPT ![c] = "reconcile"]
  /\ UNCHANGED <<revision, archived, runRevision, from, call, subject, asked, listed,
                 worldVars, life, awaited, history>>

\* Mutant of Completes: it completes whatever has become of it meanwhile.
CompletesAlways(r) ==
  /\ SetRun(r, "completed")
  /\ SetTask(r[1], "completed", approvedRevision[r[1]], NoRun)

Completes(r) ==
  IF Live(r)
    THEN /\ SetRun(r, "completed")
         /\ SetTask(r[1], "completed", approvedRevision[r[1]], NoRun)
    ELSE UNCHANGED <<runStatus, status, approvedRevision, currentRun>>

\* runSession's answer: completed or failed.
TurnEnds(r, c) ==
  /\ Free /\ phase[r] = "running"
  /\ Completes(r) \/ Failure(r)
  /\ Finally(r, c)

\* It answers that the session was cancelled: cancelTask, for the revision that was run.
CancelTaskFails(r) ==
  life # "up" \/ revision[r[1]] # runRevision[r] \/ status[r[1]] \in {"completed", "expired"}
TurnIsCancelled(r) ==
  /\ Free /\ phase[r] = "running" /\ Live(r)
  /\ ~CancelTaskFails(r) /\ status[r[1]] \notin Cancelled
TurnCancelled(r) ==
  /\ TurnIsCancelled(r)
  /\ CancelBody(r[1], "cancelled")
  /\ phase' = [phase EXCEPT ![r] = "closing"]
  /\ UNCHANGED <<revision, archived, runRevision, from, chainVars, worldVars, life,
                 awaited, history>>
TurnFoundCancelled(r, c) ==
  /\ Free /\ phase[r] = "running"
  /\ ~CancelTaskFails(r) /\ status[r[1]] \in Cancelled
  /\ Finally(r, c)
  /\ UNCHANGED <<runStatus, status, approvedRevision, currentRun>>
TurnClosed(r, c) ==
  /\ Free /\ phase[r] = "closing"
  /\ Finally(r, c)
  /\ UNCHANGED <<runStatus, status, approvedRevision, currentRun>>

-----------------------------------------------------------------------------
(* Time, files, and the process. *)

Expire(t) ==
  /\ Free /\ life = "up" /\ Expirable(t)
  /\ SetTask(t, "expired", 0, NoRun)
  /\ UNCHANGED <<revision, archived, runVars, execVars, chainVars, worldVars, life,
                 awaited, history>>

Deadline(t) ==
  /\ ~Busy /\ ~overdue[t] /\ t \in bound.expiring
  /\ overdue' = [overdue EXCEPT ![t] = TRUE]
  /\ UNCHANGED <<taskVars, runVars, execVars, chainVars, file, life, awaited, history>>

FileChanges(t) ==
  /\ t \in bound.files /\ ~Busy
  /\ \E f \in {"same", "edited", "missing"} :
       /\ f # file[t] /\ file' = [file EXCEPT ![t] = f]
       /\ f = "edited" => revision[t] <= bound.edits[t]
  /\ UNCHANGED <<taskVars, runVars, execVars, chainVars, overdue, life, awaited, history>>

Dispose ==
  /\ Free /\ life = "up" /\ faults < bound.faults
  /\ life' = "disposing" /\ faults' = faults + 1
  /\ UNCHANGED <<taskVars, runVars, execVars, chainVars, worldVars, awaited, sanctioned, torn,
                 bound>>

\* The sessions that activeRuns knows have been aborted.
AwaitRuns ==
  /\ Free /\ life = "disposing"
  /\ life' = "settling" /\ awaited' = {r \in Run : phase[r] \in {"running", "closing"}}
  /\ UNCHANGED <<taskVars, runVars, execVars, chainVars, worldVars, history>>

\* Of the process nothing is left.
Ends ==
  /\ life' = "down" /\ awaited' = {}
  /\ activeRuns' = [t \in Task |-> NoRun]
  /\ phase' = [r \in Run |-> IF phase[r] = "none" THEN "none" ELSE "done"]
  /\ pc' = [c \in Chain |-> "idle"] /\ call' = [c \in Chain |-> "read"]
  /\ subject' = [c \in Chain |-> NoTask] /\ asked' = [c \in Chain |-> 1]
  /\ listed' = [c \in Chain |-> [t \in Task |-> Unlisted]]
  /\ UNCHANGED <<archived, from, sanctioned, bound>>

\* The loop that ends a disposal interrupts a run, then fails its task; so far it has
\* written these runs, and settled these of their tasks.
Known == {r \in Run : activeRuns[r[1]] = r}
Settled == Free /\ life = "settling" /\ \A r \in awaited : phase[r] = "done"

Interrupt(written) ==
  runStatus' = [r \in Run |-> IF r \in written THEN "interrupted" ELSE runStatus[r]]
DisposeOf(written, settled) ==
  /\ Interrupt(written)
  /\ status' = [t \in Task |-> IF activeRuns[t] \in settled THEN "failed" ELSE status[t]]
  /\ currentRun' = [t \in Task |-> IF activeRuns[t] \in settled THEN NoRun ELSE currentRun[t]]
  /\ UNCHANGED <<revision, approvedRevision, runRevision, worldVars>>

Disposed ==
  /\ Settled
  /\ DisposeOf(Known, Known)
  /\ Ends
  /\ UNCHANGED <<faults, torn>>

\* Mutant of Interrupted: only runs that were starting are recovered.
InterruptedStarting == {r \in Run : runStatus[r] = "starting"}

\* recoverInterruptedRuns: each run that lives is interrupted, then its task settled if
\* it is the task's run; one that had not started leaves its task approved if the
\* approval still stands.
Interrupted == {r \in Run : Live(r)}
Untouched(t) ==
  LET r == currentRun[t]
  IN /\ runStatus[r] = "starting" /\ ~overdue[t]
     /\ approvedRevision[t] = runRevision[r] /\ revision[t] = runRevision[r]
Recovered(t) ==
  IF status[t] \in Closed THEN status[t]
  ELSE IF Untouched(t) THEN "approved"
  ELSE IF runStatus[currentRun[t]] = "starting" THEN "pending_approval" ELSE "failed"

Recover(written, settled) ==
  /\ Interrupt(written)
  /\ status' = [t \in Task |-> IF currentRun[t] \in settled THEN Recovered(t) ELSE status[t]]
  /\ approvedRevision' = [t \in Task |->
       IF currentRun[t] \in settled /\ Recovered(t) = "pending_approval" THEN 0
       ELSE approvedRevision[t]]
  /\ currentRun' = [t \in Task |-> IF currentRun[t] \in settled THEN NoRun ELSE currentRun[t]]
  /\ UNCHANGED <<revision, runRevision, worldVars>>

\* Then chain c reconciles the files.
Start(c) ==
  /\ life = "down"
  /\ life' = "up"
  /\ Recover(Interrupted, Interrupted)
  /\ pc' = [pc EXCEPT ![c] = "reconcile"]
  /\ UNCHANGED <<archived, execVars, call, subject, asked, listed, awaited, history>>

-----------------------------------------------------------------------------
(* The process is gone: between two handlers, or between two statements of one, the *)
(* second of which is not executed.                                                 *)

Fault == faults < bound.faults /\ faults' = faults + 1

Crash ==
  /\ life # "down" /\ Fault
  /\ Ends
  /\ UNCHANGED <<status, revision, approvedRevision, currentRun, runVars, worldVars, torn>>

\* A handler is to write run r as s, and then its task.
Writes(r, s) ==
  /\ Live(r)
  /\ \/ s = "running" /\ Free /\ phase[r] = "starting" /\ StartStands(r)
     \/ s = "completed" /\ Free /\ phase[r] = "running"
     \/ s = "failed" /\ Free /\ phase[r] \in {"starting", "running"}
     \/ /\ s = "cancelled" /\ currentRun[r[1]] = r
        /\ \/ Cancellable(r[1])
           \/ TurnIsCancelled(r)
           \/ \E c \in Chain : ListedIsCancelled(c, r[1])

CrashBetween(r, s) ==
  /\ Writes(r, s) /\ Fault
  /\ SetRun(r, s)
  /\ torn' = IF s \in Terminal THEN torn \cup {r} ELSE torn
  /\ Ends
  /\ UNCHANGED <<status, revision, approvedRevision, currentRun, runRevision, worldVars>>

CrashCreating(c) ==
  /\ Fault
  /\ \E r \in Run : CreateRun(c, r)
  /\ Ends
  /\ UNCHANGED <<status, revision, approvedRevision, currentRun, worldVars, torn>>

\* updateTask writes the task itself twice, the run it leaves the second time.
CrashUpdating(c, t) ==
  /\ \/ LoopEnds(c, "update") /\ Updatable(c) /\ t = subject[c]
     \/ /\ Uncalled(c) \/ (pc[c] = "reconcile" /\ life = "up")
        /\ Edited(t) /\ ~archived[t]
  /\ Fault
  /\ SetTask(t, "pending_approval", 0, currentRun[t])
  /\ revision' = [revision EXCEPT ![t] = @ + 1]
  /\ file' = [file EXCEPT ![t] = "same"] /\ overdue' = [overdue EXCEPT ![t] = FALSE]
  /\ Ends
  /\ UNCHANGED <<runVars, torn>>

\* A loop gets as far as run r, whose task it does not settle if it is written.
CrashDisposing ==
  /\ Settled /\ Fault
  /\ \E written \in SUBSET Known, r \in Known :
       DisposeOf(written, written \ {r}) /\ torn' = torn \cup (written \cap {r})
  /\ Ends

CrashRecovering ==
  /\ life = "down" /\ Fault
  /\ \E written \in SUBSET Interrupted, r \in Interrupted :
       Recover(written, written \ {r}) /\ torn' = torn \cup (written \cap {r})
  /\ Ends

CrashWithin ==
  \/ \E r \in Run, s \in Terminal \cup {"running"} : CrashBetween(r, s)
  \/ \E c \in Chain : CrashCreating(c)
  \/ \E c \in Chain, t \in Task : CrashUpdating(c, t)
  \/ CrashDisposing \/ CrashRecovering

\* Steps of a chain that has the event loop.
Proceed(c) ==
  \/ ReconcileFiles(c) \/ ReconcileNothing(c)
  \/ \E t \in Task : \/ Archive(c, t) \/ CancelListed(c, t) \/ AlreadyCancelled(c, t)
                      \/ CancelThrows(c, t)
  \/ ReadEnds(c) \/ Approve(c) \/ RunTask(c) \/ Update(c) \/ Refused(c)

Step(c) ==
  \/ \E what \in {"approve", "run", "update"}, t \in Task : Ask(c, what, t)
  \/ Read(c) \/ Proceed(c) \/ AbortReturns(c) \/ Start(c)

Execute(r) ==
  \/ SessionStarted(r) \/ SessionRefused(r) \/ StartFails(r)
  \/ TurnCancelled(r)
  \/ \E c \in Chain : TurnEnds(r, c) \/ TurnFoundCancelled(r, c) \/ TurnClosed(r, c)

Next ==
  \/ \E c \in Chain : Step(c)
  \/ \E r \in Run : Execute(r)
  \/ \E t \in Task : CancelTask(t) \/ Expire(t) \/ Deadline(t) \/ FileChanges(t)
  \/ Dispose \/ AwaitRuns \/ Disposed
  \/ Crash \/ CrashWithin

Spec == Init /\ [][Next]_vars

\* The event loop goes on and gets to the answers of the runtime, which answers every
\* call in the end; a process that has gone is started again.  There are finitely many
\* aborts and runs, so that it is enough that some of them is always attended to.
Fairness ==
  /\ WF_vars(\E c \in Chain : Proceed(c) \/ Start(c))
  /\ SF_vars(\E c \in Chain : AbortReturns(c))
  /\ SF_vars(\E r \in Run : Execute(r))
  /\ SF_vars(AwaitRuns \/ Disposed)
FairSpec == Spec /\ Fairness
-----------------------------------------------------------------------------
(* Properties. *)

\* A task that is in progress is executed: by one run, its current one, of the
\* revision that was approved, whose session is at work.  It is not if the process was
\* gone after it had written how the run ended and before it had written the task:
\* recoverInterruptedRuns looks at runs that live only.
InProgressIsExecuted ==
  \A t \in Task : status[t] = "in_progress" /\ life # "down" =>
    LET r == currentRun[t]
    IN /\ r \in Run /\ r[1] = t
       /\ runRevision[r] = revision[t] /\ approvedRevision[t] = revision[t]
       /\ r \in torn \/ (runStatus[r] = "running" /\ phase[r] = "running")

\* No turn is run but on an intent somebody has asked to approve, as he had seen it.
OnlySanctionedIntentRuns ==
  \A r \in Run : phase[r] = "running" => runRevision[r] \in sanctioned[r[1]]

\* What every step keeps.
TasksInv == TypeOK /\ InProgressIsExecuted

\* An outcome that is recorded stays, whatever the session answers later; only a
\* disposal may call a failed run interrupted.
OutcomesAreFinal ==
  [][\A r \in Run : runStatus[r] \in Terminal =>
       \/ runStatus'[r] = runStatus[r]
       \/ runStatus[r] = "failed" /\ runStatus'[r] = "interrupted"]_vars

\* No task stays in progress for ever: the end of its session, a cancellation, the
\* deletion of its file, a disposal, or the recovery after a crash settles it; but for
\* the task whose run a crash tore from it, which a client must cancel.
TasksSettle == \A t \in Task : []<>(status[t] # "in_progress" \/ currentRun[t] \in torn)

=============================================================================
