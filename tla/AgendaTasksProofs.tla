-------------------------- MODULE AgendaTasksProofs --------------------------
(***************************************************************************)
(* Theorems about the tasks of the agenda, for any number of tasks, runs   *)
(* and calls under way.  What a task is executed for is decided when its   *)
(* run is created; the argument is that while a run stays the current one  *)
(* of its task neither revision nor approval change, and that torn knows   *)
(* the runs a crash has kept from their task.                              *)
(***************************************************************************)
EXTENDS AgendaTasks, TLAPS

-----------------------------------------------------------------------------
(* Types. *)

LEMMA ReconcileType ==
  ASSUME TypeOK, NEW c \in Chain, Reconcile(c)
  PROVE  /\ status' \in [Task -> Status] /\ revision' \in [Task -> Revision]
         /\ approvedRevision' \in [Task -> Revision \cup {0}]
         /\ currentRun' \in [Task -> Run \cup {NoRun}] /\ archived' \in [Task -> BOOLEAN]
         /\ runStatus' = runStatus /\ runRevision' = runRevision
         /\ file' \in [Task -> {"same", "edited", "missing"}] /\ overdue' \in [Task -> BOOLEAN]
         /\ life' = life /\ awaited' = awaited /\ activeRuns' = activeRuns /\ phase' = phase
         /\ from' = from /\ pc' \in [Chain -> {"idle", "reconcile", "loop", "abort"}]
         /\ listed' \in [Chain -> [Task -> [status : Status \cup {"unlisted", "cancelling"},
                                             revision : Revision]]]
         /\ faults' = faults /\ torn' = torn /\ bound' = bound
<1> USE DEF TypeOK, Reconcile
<1>1. \A t \in Task : StatusRestored(t) \in Status
  BY DEF StatusRestored, Status, Closed
<1>2. status' \in [Task -> Status]
  BY <1>1 DEF Status
<1>3. revision' \in [Task -> Revision] /\ approvedRevision' \in [Task -> Revision \cup {0}]
  BY DEF Revision
<1>4. [t \in Task |-> IF file[t] = "missing" /\ ~archived[t] THEN Listing(t) ELSE Unlisted]
        \in [Task -> [status : Status \cup {"unlisted", "cancelling"}, revision : Revision]]
  BY DEF Listing, Unlisted, Revision
<1>5. listed' \in [Chain -> [Task -> [status : Status \cup {"unlisted", "cancelling"},
                                       revision : Revision]]]
  BY <1>4
<1> QED BY <1>2, <1>3, <1>5 DEF runVars, execVars

LEMMA IdleType ==
  ASSUME TypeOK, NEW c \in Chain, Idle(c)
  PROVE  /\ pc' \in [Chain -> {"idle", "reconcile", "loop", "abort"}]
         /\ call' \in [Chain -> {"read", "approve", "run", "update"}]
         /\ subject' \in [Chain -> Task \cup {NoTask}]
         /\ asked' \in [Chain -> Revision]
         /\ listed' \in [Chain -> [Task -> [status : Status \cup {"unlisted", "cancelling"},
                                             revision : Revision]]]
<1>1. [t \in Task |-> Unlisted]
        \in [Task -> [status : Status \cup {"unlisted", "cancelling"}, revision : Revision]]
  BY DEF Unlisted, Revision
<1> QED BY <1>1 DEF TypeOK, Idle, Revision

\* A call and the task it is about.
LEMMA ChainSteps ==
  ASSUME TypeOK, NEW c \in Chain,
         \/ \E what \in {"approve", "run", "update"}, t \in Task : Ask(c, what, t)
         \/ Read(c) \/ ReconcileFiles(c) \/ ReconcileNothing(c) \/ AbortReturns(c)
  PROVE  TypeOK'
<1>1. ASSUME NEW what \in {"approve", "run", "update"}, NEW t \in Task, Ask(c, what, t)
      PROVE  TypeOK'
  <2>1. Reconcile(c)
    BY <1>1 DEF Ask
  <2>2. /\ call' \in [Chain -> {"read", "approve", "run", "update"}]
        /\ subject' \in [Chain -> Task \cup {NoTask}] /\ asked' \in [Chain -> Revision]
        /\ sanctioned' \in [Task -> SUBSET Revision]
    BY <1>1 DEF Ask, TypeOK
  <2> QED BY <2>1, <2>2, ReconcileType DEF TypeOK
<1>2. CASE Read(c) \/ ReconcileFiles(c)
  <2>1. Reconcile(c) /\ UNCHANGED <<call, subject, asked, sanctioned>>
    BY <1>2 DEF Read, ReconcileFiles
  <2> QED BY <2>1, ReconcileType DEF TypeOK
<1>3. CASE ReconcileNothing(c)
  BY <1>3 DEF TypeOK, ReconcileNothing, taskVars, runVars, execVars, worldVars, history
<1>4. CASE AbortReturns(c)
  BY <1>4 DEF TypeOK, AbortReturns, taskVars, runVars, execVars, worldVars, history
<1> QED BY <1>1, <1>2, <1>3, <1>4

LEMMA ListedSteps ==
  ASSUME TypeOK, NEW c \in Chain, NEW t \in Task,
         Archive(c, t) \/ CancelListed(c, t) \/ AlreadyCancelled(c, t) \/ CancelThrows(c, t)
  PROVE  TypeOK'
<1> DEFINE L == [status : Status \cup {"unlisted", "cancelling"}, revision : Revision]
<1>1. CASE Archive(c, t)
  <2>1. listed' \in [Chain -> [Task -> L]]
    <3>1. Unlisted \in L
      BY DEF Unlisted, Revision
    <3> HIDE DEF L
    <3> QED BY <1>1, <3>1 DEF Archive, TypeOK, L
  <2>2. ArchivedAs(listed[c][t].status) \in Status
    BY DEF ArchivedAs, Status, Closed, Cancelled
  <2> QED BY <1>1, <2>1, <2>2
        DEF Archive, SetTask, TypeOK, runVars, execVars, worldVars, history, Revision
<1>2. ASSUME listed' = [listed EXCEPT ![c][t].status = "cancelling"]
      PROVE  listed' \in [Chain -> [Task -> L]]
  <2>0. listed[c][t] \in L
    BY DEF TypeOK
  <2>1. [listed[c][t] EXCEPT !.status = "cancelling"] \in L
    BY <2>0
  <2>2. listed' = [listed EXCEPT ![c] = [listed[c] EXCEPT ![t] =
                     [listed[c][t] EXCEPT !.status = "cancelling"]]]
    BY <1>2
  <2> HIDE DEF L
  <2> QED BY <2>1, <2>2 DEF TypeOK, L
<1>3. CASE CancelListed(c, t)
  <2>1. listed' \in [Chain -> [Task -> L]]
    BY <1>2, <1>3 DEF CancelListed
  <2>2. /\ runStatus' \in [Run -> Terminal \cup {"none", "starting", "running"}]
        /\ activeRuns' \in [Task -> Run \cup {NoRun}]
        /\ status' \in [Task -> Status] /\ approvedRevision' \in [Task -> Revision \cup {0}]
        /\ currentRun' \in [Task -> Run \cup {NoRun}]
    BY <1>3 DEF CancelListed, CancelBody, SetTask, Forget, TypeOK, Terminal, Status, Closed,
                Cancelled
  <2>3. pc' \in [Chain -> {"idle", "reconcile", "loop", "abort"}]
    BY <1>3 DEF CancelListed, TypeOK
  <2> QED BY <1>3, <2>1, <2>2, <2>3 DEF CancelListed, TypeOK, worldVars, history
<1>4. CASE AlreadyCancelled(c, t)
  <2>1. listed' \in [Chain -> [Task -> L]]
    BY <1>2, <1>4 DEF AlreadyCancelled
  <2> QED BY <1>4, <2>1
        DEF AlreadyCancelled, TypeOK, taskVars, runVars, execVars, worldVars, history
<1>5. CASE CancelThrows(c, t)
  <2>1. UNCHANGED <<taskVars, runVars, execVars, worldVars, life, awaited, history>>
    BY <1>5 DEF CancelThrows
  <2>2. /\ pc' \in [Chain -> {"idle", "reconcile", "loop", "abort"}]
        /\ call' \in [Chain -> {"read", "approve", "run", "update"}]
        /\ subject' \in [Chain -> Task \cup {NoTask}]
        /\ asked' \in [Chain -> Revision]
        /\ listed' \in [Chain -> [Task -> L]]
    <3>1. CASE Idle(c)
      BY <3>1, IdleType
    <3>2. CASE ~Idle(c)
      <4>1. /\ listed' = [listed EXCEPT ![c] = [x \in Task |-> Unlisted]]
            /\ UNCHANGED <<pc, call, subject, asked>>
        BY <1>5, <3>2 DEF CancelThrows
      <4>2. [x \in Task |-> Unlisted] \in [Task -> L]
        BY DEF Unlisted, Revision
      <4> HIDE DEF L
      <4> QED BY <4>1, <4>2 DEF TypeOK, L
    <3> QED BY <3>1, <3>2
  <2> QED BY <2>1, <2>2 DEF TypeOK, taskVars, runVars, execVars, worldVars, history
<1> QED BY <1>1, <1>3, <1>4, <1>5

\* What follows a reconciliation.
LEMMA CallSteps ==
  ASSUME TypeOK, NEW c \in Chain,
         ReadEnds(c) \/ Approve(c) \/ RunTask(c) \/ Update(c) \/ Refused(c)
  PROVE  TypeOK'
<1> USE DEF taskVars, runVars, execVars, worldVars, history
<1>0. /\ pc' \in [Chain -> {"idle", "reconcile", "loop", "abort"}]
      /\ call' \in [Chain -> {"read", "approve", "run", "update"}]
      /\ subject' \in [Chain -> Task \cup {NoTask}]
      /\ asked' \in [Chain -> Revision]
      /\ listed' \in [Chain -> [Task -> [status : Status \cup {"unlisted", "cancelling"},
                                          revision : Revision]]]
  BY IdleType DEF ReadEnds, Approve, RunTask, Update, Refused, Reconciled
<1>1. CASE ReadEnds(c)
  BY <1>0, <1>1 DEF ReadEnds, TypeOK
<1>2. CASE Approve(c)
  BY <1>0, <1>2 DEF Approve, SetTask, TypeOK, Revision, Status
<1>3. CASE RunTask(c)
  <2>1. PICK r \in Run : /\ r[1] = subject[c] /\ SetRun(r, "starting")
                         /\ runRevision' = [runRevision EXCEPT ![r] = revision[subject[c]]]
                         /\ SetTask(subject[c], status[subject[c]],
                                    approvedRevision[subject[c]], r)
                         /\ activeRuns' = [activeRuns EXCEPT ![subject[c]] = r]
                         /\ phase' = [phase EXCEPT ![r] = "starting"]
                         /\ from' = [from EXCEPT ![r] = status[subject[c]]]
    BY <1>3 DEF RunTask, CreateRun
  <2>2. subject[c] \in Task
    BY <2>1 DEF Run
  <2>3. status[subject[c]] \in {"approved", "failed"}
    BY <1>3 DEF RunTask, CreateRun, Runnable
  <2>4. UNCHANGED <<revision, archived, worldVars, life, awaited, history>>
    BY <1>3 DEF RunTask
  <2> QED BY <1>0, <2>1, <2>2, <2>3, <2>4 DEF SetRun, SetTask, TypeOK
<1>4. CASE Update(c)
  <2> DEFINE t == subject[c]
  <2>1. /\ revision' = [revision EXCEPT ![t] = @ + 1]
        /\ SetTask(t, "pending_approval", 0, NoRun)
        /\ archived' = [archived EXCEPT ![t] = FALSE]
        /\ overdue' = [overdue EXCEPT ![t] = FALSE]
        /\ UNCHANGED <<runVars, execVars, file, life, awaited, history>>
    BY <1>4 DEF Update
  <2> HIDE DEF t
  <2>2. revision' \in [Task -> Revision]
    <3>1. \A x \in Task : revision[x] + 1 \in Revision
      BY DEF TypeOK, Revision
    <3> QED BY <2>1, <3>1 DEF TypeOK
  <2>3. /\ status' \in [Task -> Status] /\ approvedRevision' \in [Task -> Revision \cup {0}]
        /\ currentRun' \in [Task -> Run \cup {NoRun}] /\ archived' \in [Task -> BOOLEAN]
        /\ overdue' \in [Task -> BOOLEAN]
    BY <2>1 DEF SetTask, TypeOK, Status
  <2> QED BY <1>0, <2>1, <2>2, <2>3 DEF TypeOK
<1>5. CASE Refused(c)
  <2> DEFINE t == subject[c]
  <2>1. /\ SetTask(t, "expired", 0, NoRun) \/ UNCHANGED <<status, approvedRevision, currentRun>>
        /\ UNCHANGED <<revision, archived, runVars, execVars, worldVars, life, awaited, history>>
    BY <1>5 DEF Refused
  <2> HIDE DEF t
  <2>2. /\ status' \in [Task -> Status] /\ approvedRevision' \in [Task -> Revision \cup {0}]
        /\ currentRun' \in [Task -> Run \cup {NoRun}]
    BY <2>1 DEF SetTask, TypeOK, Status, Closed
  <2> QED BY <1>0, <2>1, <2>2 DEF TypeOK
<1> QED BY <1>1, <1>2, <1>3, <1>4, <1>5

\* What becomes of a run and its task.
LEMMA SetTaskType ==
  ASSUME TypeOK, NEW t \in Task, NEW s \in Status, SetTask(t, s, approvedRevision[t], NoRun)
  PROVE  /\ status' \in [Task -> Status] /\ approvedRevision' \in [Task -> Revision \cup {0}]
         /\ currentRun' \in [Task -> Run \cup {NoRun}]
<1>1. status' \in [Task -> Status]
  BY DEF SetTask, TypeOK
<1>2. currentRun' \in [Task -> Run \cup {NoRun}]
  BY DEF SetTask, TypeOK
<1>3. approvedRevision' = approvedRevision
  BY DEF SetTask, TypeOK
<1> QED BY <1>1, <1>2, <1>3 DEF TypeOK

LEMMA FailureType ==
  ASSUME TypeOK, NEW r \in Run, Failure(r)
  PROVE  /\ runStatus' \in [Run -> Terminal \cup {"none", "starting", "running"}]
         /\ status' \in [Task -> Status] /\ approvedRevision' \in [Task -> Revision \cup {0}]
         /\ currentRun' \in [Task -> Run \cup {NoRun}]
<1>1. runStatus' \in [Run -> Terminal \cup {"none", "starting", "running"}]
  BY DEF Failure, TypeOK, Terminal
<1>2. r[1] \in Task
  BY DEF Run
<1>3. CASE TaskFails(r)
  <2>1. SetTask(r[1], "failed", approvedRevision[r[1]], NoRun)
    BY <1>3 DEF Failure
  <2> QED BY <1>1, <1>2, <2>1, SetTaskType DEF Status
<1>4. CASE ~TaskFails(r)
  <2>1. UNCHANGED <<status, approvedRevision, currentRun>>
    BY <1>4 DEF Failure
  <2> QED BY <1>1, <2>1 DEF TypeOK
<1> QED BY <1>3, <1>4

LEMMA CompletesType ==
  ASSUME TypeOK, NEW r \in Run, Completes(r)
  PROVE  /\ runStatus' \in [Run -> Terminal \cup {"none", "starting", "running"}]
         /\ status' \in [Task -> Status] /\ approvedRevision' \in [Task -> Revision \cup {0}]
         /\ currentRun' \in [Task -> Run \cup {NoRun}]
<1>1. runStatus' \in [Run -> Terminal \cup {"none", "starting", "running"}]
  BY DEF Completes, SetRun, TypeOK, Terminal
<1>2. r[1] \in Task
  BY DEF Run
<1>3. CASE Live(r)
  <2>1. SetTask(r[1], "completed", approvedRevision[r[1]], NoRun)
    BY <1>3 DEF Completes
  <2> QED BY <1>1, <1>2, <2>1, SetTaskType DEF Status, Closed
<1>4. CASE ~Live(r)
  <2>1. UNCHANGED <<status, approvedRevision, currentRun>>
    BY <1>4 DEF Completes
  <2> QED BY <1>1, <2>1 DEF TypeOK
<1> QED BY <1>3, <1>4

LEMMA CancelBodyType ==
  ASSUME TypeOK, NEW t \in Task, NEW s \in Cancelled, CancelBody(t, s)
  PROVE  /\ runStatus' \in [Run -> Terminal \cup {"none", "starting", "running"}]
         /\ activeRuns' \in [Task -> Run \cup {NoRun}]
         /\ status' \in [Task -> Status] /\ approvedRevision' \in [Task -> Revision \cup {0}]
         /\ currentRun' \in [Task -> Run \cup {NoRun}]
BY DEF CancelBody, SetTask, Forget, TypeOK, Terminal, Status, Closed

LEMMA FinallyType ==
  ASSUME TypeOK, NEW r \in Run, NEW c \in Chain, Finally(r, c)
  PROVE  /\ activeRuns' \in [Task -> Run \cup {NoRun}]
         /\ phase' \in [Run -> {"none", "starting", "running", "closing", "done"}]
         /\ pc' \in [Chain -> {"idle", "reconcile", "loop", "abort"}]
         /\ UNCHANGED <<revision, archived, runRevision, from, call, subject, asked, listed,
                        worldVars, life, awaited, history>>
BY DEF Finally, Forget, TypeOK

LEMMA ExecuteSteps ==
  ASSUME TypeOK, NEW r \in Run, Execute(r)
  PROVE  TypeOK'
<1> USE DEF worldVars, history, chainVars
<1>0. r[1] \in Task
  BY DEF Run
<1>1. CASE SessionStarted(r)
  BY <1>0, <1>1 DEF SessionStarted, SetRun, SetTask, TypeOK, Status
<1>2. CASE SessionRefused(r)
  BY <1>0, <1>2 DEF SessionRefused, Forget, TypeOK, Terminal, taskVars
<1>3. CASE StartFails(r)
  <2>1. /\ activeRuns' \in [Task -> Run \cup {NoRun}]
        /\ phase' \in [Run -> {"none", "starting", "running", "closing", "done"}]
    BY <1>3 DEF StartFails, Forget, TypeOK
  <2>2. UNCHANGED <<revision, archived, runRevision, from, chainVars, worldVars, life,
                    awaited, history>> /\ Failure(r)
    BY <1>3 DEF StartFails
  <2> QED BY <2>1, <2>2, FailureType DEF TypeOK
<1>4. ASSUME NEW c \in Chain, TurnEnds(r, c) PROVE TypeOK'
  <2>1. Finally(r, c) /\ (Completes(r) \/ Failure(r))
    BY <1>4 DEF TurnEnds
  <2> QED BY <2>1, FinallyType, FailureType, CompletesType DEF TypeOK
<1>5. CASE TurnCancelled(r)
  <2>1. phase' \in [Run -> {"none", "starting", "running", "closing", "done"}]
    BY <1>5 DEF TurnCancelled, TypeOK
  <2>2. /\ CancelBody(r[1], "cancelled")
        /\ UNCHANGED <<revision, archived, runRevision, from, chainVars, worldVars, life,
                       awaited, history>>
    BY <1>5 DEF TurnCancelled
  <2>3. "cancelled" \in Cancelled
    BY DEF Cancelled
  <2> QED BY <1>0, <2>1, <2>2, <2>3, CancelBodyType DEF TypeOK
<1>6. ASSUME NEW c \in Chain, TurnFoundCancelled(r, c) \/ TurnClosed(r, c) PROVE TypeOK'
  <2>1. Finally(r, c) /\ UNCHANGED <<runStatus, status, approvedRevision, currentRun>>
    BY <1>6 DEF TurnFoundCancelled, TurnClosed
  <2> QED BY <2>1, FinallyType DEF TypeOK
<1> QED BY <1>1, <1>2, <1>3, <1>4, <1>5, <1>6 DEF Execute

\* Time, files and the process.
LEMMA WorldSteps ==
  ASSUME TypeOK,
         \/ \E t \in Task : CancelTask(t) \/ Expire(t) \/ Deadline(t) \/ FileChanges(t)
         \/ \E c \in Chain : Start(c)
         \/ Dispose \/ AwaitRuns \/ Disposed \/ Crash \/ CrashWithin \/ UNCHANGED vars
  PROVE  TypeOK'
<1> USE DEF worldVars, history, chainVars, taskVars, runVars, execVars
<1>1. ASSUME NEW t \in Task, CancelTask(t) PROVE TypeOK'
  <2>1. "cancelled" \in Cancelled
    BY DEF Cancelled
  <2> QED BY <1>1, <2>1, CancelBodyType DEF CancelTask, TypeOK
<1>2. ASSUME NEW t \in Task, Expire(t) PROVE TypeOK'
  BY <1>2 DEF Expire, SetTask, TypeOK, Status, Closed
<1>3. ASSUME NEW t \in Task, Deadline(t) \/ FileChanges(t) PROVE TypeOK'
  BY <1>3 DEF Deadline, FileChanges, TypeOK
<1>4. ASSUME NEW written, NEW settled, Recover(written, settled)
      PROVE  /\ status' \in [Task -> Status] /\ approvedRevision' \in [Task -> Revision \cup {0}]
             /\ currentRun' \in [Task -> Run \cup {NoRun}]
             /\ runStatus' \in [Run -> Terminal \cup {"none", "starting", "running"}]
             /\ UNCHANGED <<revision, runRevision, worldVars>>
  <2>1. \A t \in Task : Recovered(t) \in Status
    BY DEF Recovered, TypeOK, Status
  <2> QED BY <1>4, <2>1 DEF Recover, Interrupt, TypeOK, Terminal
<1>5. ASSUME NEW written, NEW settled, DisposeOf(written, settled)
      PROVE  /\ status' \in [Task -> Status]
             /\ currentRun' \in [Task -> Run \cup {NoRun}]
             /\ runStatus' \in [Run -> Terminal \cup {"none", "starting", "running"}]
             /\ UNCHANGED <<revision, approvedRevision, runRevision, worldVars>>
  BY <1>5 DEF DisposeOf, Interrupt, TypeOK, Terminal, Status
<1>6. ASSUME NEW c \in Chain, Start(c) PROVE TypeOK'
  <2>1. pc' \in [Chain -> {"idle", "reconcile", "loop", "abort"}]
    BY <1>6 DEF Start, TypeOK
  <2> QED BY <1>4, <1>6, <2>1 DEF Start, TypeOK
<1>7. /\ faults < bound.faults /\ faults' = faults + 1 => faults' \in 0 .. bound.faults
      /\ bound.faults \in Nat
  BY DEF TypeOK, Bound
<1>8. CASE Dispose
  BY <1>7, <1>8 DEF Dispose, TypeOK
<1>9. CASE AwaitRuns
  BY <1>9 DEF AwaitRuns, TypeOK
<1>10. ASSUME Ends
       PROVE  /\ life' \in {"up", "disposing", "settling", "down"} /\ awaited' \subseteq Run
              /\ activeRuns' \in [Task -> Run \cup {NoRun}]
              /\ phase' \in [Run -> {"none", "starting", "running", "closing", "done"}]
              /\ pc' \in [Chain -> {"idle", "reconcile", "loop", "abort"}]
              /\ call' \in [Chain -> {"read", "approve", "run", "update"}]
              /\ subject' \in [Chain -> Task \cup {NoTask}] /\ asked' \in [Chain -> Revision]
              /\ listed' \in [Chain -> [Task -> [status : Status \cup {"unlisted", "cancelling"},
                                                  revision : Revision]]]
              /\ UNCHANGED <<archived, from, sanctioned, bound>>
  BY <1>10 DEF Ends, Unlisted, Revision
<1>11. CASE Disposed
  BY <1>5, <1>10, <1>11 DEF Disposed, TypeOK
<1>12. CASE Crash
  BY <1>7, <1>10, <1>12 DEF Crash, Fault, TypeOK
<1>13. ASSUME NEW r \in Run, NEW s \in Terminal \cup {"running"}, CrashBetween(r, s)
       PROVE  TypeOK'
  <2>1. runStatus' \in [Run -> Terminal \cup {"none", "starting", "running"}] /\ torn' \subseteq Run
    BY <1>13 DEF CrashBetween, SetRun, TypeOK
  <2> QED BY <1>7, <1>10, <1>13, <2>1 DEF CrashBetween, Fault, TypeOK
<1>14. ASSUME NEW c \in Chain, CrashCreating(c) PROVE TypeOK'
  <2>1. PICK r \in Run : CreateRun(c, r)
    BY <1>14 DEF CrashCreating
  <2>2. subject[c] \in Task
    BY <2>1 DEF CreateRun, Run
  <2>3. /\ runStatus' \in [Run -> Terminal \cup {"none", "starting", "running"}]
        /\ runRevision' \in [Run -> Revision]
    BY <2>1, <2>2 DEF CreateRun, SetRun, TypeOK
  <2> QED BY <1>7, <1>10, <1>14, <2>3 DEF CrashCreating, Fault, TypeOK
<1>15. ASSUME NEW c \in Chain, NEW t \in Task, CrashUpdating(c, t) PROVE TypeOK'
  <2>1. revision' \in [Task -> Revision]
    <3>1. \A x \in Task : revision[x] + 1 \in Revision
      BY DEF TypeOK, Revision
    <3> QED BY <1>15, <3>1 DEF CrashUpdating, TypeOK
  <2>2. /\ status' \in [Task -> Status] /\ approvedRevision' \in [Task -> Revision \cup {0}]
        /\ currentRun' \in [Task -> Run \cup {NoRun}]
        /\ file' \in [Task -> {"same", "edited", "missing"}] /\ overdue' \in [Task -> BOOLEAN]
    BY <1>15 DEF CrashUpdating, SetTask, TypeOK, Status
  <2> QED BY <1>7, <1>10, <1>15, <2>1, <2>2 DEF CrashUpdating, Fault, TypeOK
<1>16. CASE CrashDisposing
  <2>1. PICK written \in SUBSET Known, r \in Known :
          DisposeOf(written, written \ {r}) /\ torn' = torn \cup (written \cap {r})
    BY <1>16 DEF CrashDisposing
  <2>2. torn' \subseteq Run
    BY <2>1 DEF Known, TypeOK
  <2> QED BY <1>5, <1>7, <1>10, <1>16, <2>1, <2>2 DEF CrashDisposing, Fault, TypeOK
<1>17. CASE CrashRecovering
  <2>1. PICK written \in SUBSET Interrupted, r \in Interrupted :
          Recover(written, written \ {r}) /\ torn' = torn \cup (written \cap {r})
    BY <1>17 DEF CrashRecovering
  <2>2. torn' \subseteq Run
    BY <2>1 DEF Interrupted, TypeOK
  <2> QED BY <1>4, <1>7, <1>10, <1>17, <2>1, <2>2 DEF CrashRecovering, Fault, TypeOK
<1>18. CASE UNCHANGED vars
  BY <1>18 DEF vars, TypeOK
<1>19. CASE CrashWithin
  BY <1>13, <1>14, <1>15, <1>16, <1>17, <1>19 DEF CrashWithin
<1> QED BY <1>1, <1>2, <1>3, <1>6, <1>8, <1>9, <1>11, <1>12, <1>18, <1>19

LEMMA TypeKept ==
  ASSUME TypeOK, Next \/ UNCHANGED vars
  PROVE  TypeOK'
<1>1. ASSUME NEW c \in Chain, Step(c) PROVE TypeOK'
  <2>1. CASE Proceed(c)
    BY <2>1, ChainSteps, ListedSteps, CallSteps DEF Proceed
  <2> QED BY <1>1, <2>1, ChainSteps, WorldSteps DEF Step
<1>2. ASSUME NEW r \in Run, Execute(r) PROVE TypeOK'
  BY <1>2, ExecuteSteps
<1> QED BY <1>1, <1>2, WorldSteps DEF Next

LEMMA TypeBegins ==
  ASSUME Init
  PROVE  TypeOK
<1>1. bound \in Bound /\ bound.faults \in Nat
  BY BoundsAssumption DEF Init, Bound
<1>2. [t \in Task |-> Unlisted]
        \in [Task -> [status : Status \cup {"unlisted", "cancelling"}, revision : Revision]]
  BY DEF Unlisted, Revision
<1>3. status \in [Task -> Status]
  BY DEF Init, Status
<1>4. runStatus \in [Run -> Terminal \cup {"none", "starting", "running"}]
  BY DEF Init
<1>5. listed \in [Chain -> [Task -> [status : Status \cup {"unlisted", "cancelling"},
                                      revision : Revision]]]
  BY <1>2 DEF Init
<1> QED BY <1>1, <1>3, <1>4, <1>5 DEF Init, TypeOK, Revision

-----------------------------------------------------------------------------
(* The inductive invariant. *)

\* While the current run of a task lives, neither the task's revision nor its approval
\* moves on from those of the run, but where a crash breaks an update off; and a task in
\* progress has a current run, whose session is at work, or a torn one.
CurrentInv ==
  \A t \in Task :
    LET r == currentRun[t]
    IN /\ archived[t] => r = NoRun
       /\ r # NoRun => r[1] = t
       /\ r # NoRun /\ runStatus[r] \in {"starting", "running"} /\ life # "down" =>
            runRevision[r] = revision[t] /\ approvedRevision[t] = revision[t]
       /\ status[t] = "in_progress" =>
            r # NoRun /\ runRevision[r] = revision[t] /\ approvedRevision[t] = revision[t]
       /\ status[t] = "in_progress" /\ r \notin torn =>
            runStatus[r] = "running" /\ (life = "down" \/ phase[r] = "running")

\* activeRuns names runs of their tasks that have not ended, or have failed; of a
\* process that has gone nothing is left.
ActiveInv ==
  /\ \A t \in Task :
       LET r == activeRuns[t]
       IN r # NoRun => r[1] = t /\ runStatus[r] \in {"starting", "running", "failed"}
  /\ life = "down" => /\ \A t \in Task : activeRuns[t] = NoRun
                      /\ \A c \in Chain : pc[c] = "idle"

\* Approvals are of revisions that somebody asked to approve, and so are executions.
SanctionInv ==
  /\ \A t \in Task : approvedRevision[t] # 0 => approvedRevision[t] \in sanctioned[t]
  /\ \A c \in Chain : call[c] = "approve" => asked[c] \in sanctioned[subject[c]]
  /\ \A r \in Run : phase[r] \in {"starting", "running"} => runRevision[r] \in sanctioned[r[1]]

\* A step that leaves tasks, runs and executions alone.
LEMMA CurrentStays ==
  ASSUME CurrentInv, UNCHANGED <<taskVars, runVars, phase, life, torn>>
  PROVE  CurrentInv'
BY DEF CurrentInv, Live, taskVars, runVars

\* A step that takes its run from one task, which is then not in progress, and may
\* end that run.
LEMMA CurrentReleased ==
  ASSUME TypeOK, CurrentInv, NEW t \in Task,
         currentRun' = [currentRun EXCEPT ![t] = NoRun], status'[t] # "in_progress",
         \A x \in Task \ {t} :
           /\ status'[x] = status[x] /\ approvedRevision'[x] = approvedRevision[x]
           /\ revision'[x] = revision[x] /\ archived'[x] = archived[x],
         \A r \in Run : r[1] # t => runStatus'[r] = runStatus[r] /\ phase'[r] = phase[r],
         UNCHANGED <<runRevision, life, torn>>
  PROVE  CurrentInv'
<1>1. currentRun'[t] = NoRun
  BY DEF TypeOK
<1>2. \A x \in Task \ {t} : currentRun'[x] = currentRun[x]
  BY DEF TypeOK
<1>3. \A x \in Task \ {t} : currentRun[x] # NoRun => currentRun[x] \in Run /\ currentRun[x][1] = x
  BY DEF TypeOK, CurrentInv
<1> QED BY <1>1, <1>2, <1>3 DEF CurrentInv, Live

LEMMA CurrentKeptByCancel ==
  ASSUME TypeOK, CurrentInv, NEW t \in Task, NEW s \in Cancelled, CancelBody(t, s),
         UNCHANGED <<revision, archived, runRevision, life, torn>>,
         \A r \in Run : r[1] # t => phase'[r] = phase[r]
  PROVE  CurrentInv'
<1>1. \A r \in Run : r[1] # t => runStatus'[r] = runStatus[r]
  BY DEF CancelBody, CurrentInv, TypeOK, Live
<1>2. status'[t] = s /\ s # "in_progress"
  BY DEF CancelBody, SetTask, TypeOK, Cancelled
<1> QED BY <1>1, <1>2, CurrentReleased DEF CancelBody, SetTask, TypeOK

LEMMA CurrentKeptByReconcile ==
  ASSUME TypeOK, CurrentInv, NEW c \in Chain, Reconcile(c)
  PROVE  CurrentInv'
<1> SUFFICES ASSUME NEW t \in Task
             PROVE  LET r == currentRun'[t]
                    IN /\ archived'[t] => r = NoRun
                       /\ r # NoRun => r[1] = t
                       /\ r # NoRun /\ runStatus'[r] \in {"starting", "running"} /\ life' # "down" =>
                            runRevision'[r] = revision'[t] /\ approvedRevision'[t] = revision'[t]
                       /\ status'[t] = "in_progress" =>
                            /\ r # NoRun /\ runRevision'[r] = revision'[t]
                            /\ approvedRevision'[t] = revision'[t]
                       /\ status'[t] = "in_progress" /\ r \notin torn' =>
                            runStatus'[r] = "running" /\ (life' = "down" \/ phase'[r] = "running")
  BY DEF CurrentInv, Live
<1>1. /\ status'[t] = IF Edited(t) THEN "pending_approval" ELSE StatusRestored(t)
      /\ revision'[t] = IF Edited(t) THEN revision[t] + 1 ELSE revision[t]
      /\ approvedRevision'[t] =
           IF Edited(t) \/ StatusRestored(t) # status[t] THEN 0 ELSE approvedRevision[t]
      /\ currentRun'[t] = IF Edited(t) THEN NoRun ELSE currentRun[t]
      /\ archived'[t] = IF Restored(t) THEN FALSE ELSE archived[t]
      /\ UNCHANGED <<runStatus, runRevision, phase, life, torn>>
  BY DEF Reconcile, runVars, execVars
<1>2. CASE Edited(t)
  BY <1>1, <1>2
<1>3. CASE ~Edited(t) /\ StatusRestored(t) # status[t]
  <2>1. archived[t] /\ StatusRestored(t) = "pending_approval"
    BY <1>3 DEF StatusRestored, Restored
  <2> QED BY <1>1, <1>3, <2>1 DEF CurrentInv
<1>4. CASE ~Edited(t) /\ StatusRestored(t) = status[t]
  BY <1>1, <1>4 DEF CurrentInv, Live
<1> QED BY <1>2, <1>3, <1>4

LEMMA CurrentKeptByChains ==
  ASSUME TypeOK, CurrentInv, NEW c \in Chain,
         \/ \E what \in {"approve", "run", "update"}, t \in Task : Ask(c, what, t)
         \/ Read(c) \/ ReconcileFiles(c) \/ ReconcileNothing(c) \/ AbortReturns(c)
         \/ \E t \in Task : \/ Archive(c, t) \/ CancelListed(c, t) \/ AlreadyCancelled(c, t)
                             \/ CancelThrows(c, t)
  PROVE  CurrentInv'
<1>1. CASE \/ \E what \in {"approve", "run", "update"}, t \in Task : Ask(c, what, t)
           \/ Read(c) \/ ReconcileFiles(c)
  BY <1>1, CurrentKeptByReconcile DEF Ask, Read, ReconcileFiles
<1>2. CASE \/ ReconcileNothing(c) \/ AbortReturns(c)
           \/ \E t \in Task : AlreadyCancelled(c, t) \/ CancelThrows(c, t)
  BY <1>2, CurrentStays
     DEF ReconcileNothing, AbortReturns, AlreadyCancelled, CancelThrows, execVars, history
<1>3. ASSUME NEW t \in Task, Archive(c, t) PROVE CurrentInv'
  <2>1. ArchivedAs(listed[c][t].status) # "in_progress"
    BY DEF ArchivedAs, Closed, Cancelled
  <2>2. /\ SetTask(t, ArchivedAs(listed[c][t].status), 0, NoRun)
        /\ archived' = [archived EXCEPT ![t] = TRUE]
        /\ UNCHANGED <<revision, runVars, execVars, life, torn>>
    BY <1>3 DEF Archive, history
  <2> QED BY <2>1, <2>2, CurrentReleased DEF SetTask, TypeOK, runVars, execVars
<1>4. ASSUME NEW t \in Task, CancelListed(c, t) PROVE CurrentInv'
  <2>1. CancelBody(t, "deleted") /\ UNCHANGED <<revision, archived, runRevision, phase, life, torn>>
    BY <1>4 DEF CancelListed, history
  <2>2. "deleted" \in Cancelled
    BY DEF Cancelled
  <2> QED BY <2>1, <2>2, CurrentKeptByCancel
<1> QED BY <1>1, <1>2, <1>3, <1>4

LEMMA CurrentKeptByCalls ==
  ASSUME TypeOK, CurrentInv, NEW c \in Chain,
         ReadEnds(c) \/ Approve(c) \/ RunTask(c) \/ Update(c) \/ Refused(c)
  PROVE  CurrentInv'
<1> DEFINE t == subject[c]
<1>1. CASE ReadEnds(c)
  BY <1>1, CurrentStays DEF ReadEnds, execVars, history
<1>2. CASE Approve(c)
  <2>1. /\ SetTask(t, "approved", revision[t], currentRun[t])
        /\ UNCHANGED <<revision, archived, runStatus, runRevision, phase, life, torn>>
    BY <1>2 DEF Approve, runVars, execVars, history
  <2> HIDE DEF t
  <2>2. /\ UNCHANGED currentRun
        /\ \A x \in Task : status'[x] = "in_progress" => status[x] = "in_progress" /\ x # t
        /\ \A x \in Task : approvedRevision'[x] = IF x = t THEN revision[t] ELSE approvedRevision[x]
    BY <2>1 DEF SetTask, TypeOK
  <2> QED BY <2>1, <2>2 DEF CurrentInv, Live
<1>3. CASE RunTask(c)
  <2>1. /\ ~archived[t] /\ approvedRevision[t] = revision[t]
        /\ status[t] \in {"approved", "failed"}
    BY <1>3 DEF RunTask, CreateRun, Verified, Runnable
  <2>2. PICK r \in Run :
          /\ r[1] = t /\ runStatus[r] = "none" /\ SetRun(r, "starting")
          /\ runRevision' = [runRevision EXCEPT ![r] = revision[t]]
          /\ SetTask(t, status[t], approvedRevision[t], r)
          /\ phase' = [phase EXCEPT ![r] = "starting"]
    BY <1>3 DEF RunTask, CreateRun
  <2>3. UNCHANGED <<revision, archived, life, torn>>
    BY <1>3 DEF RunTask, history
  <2>4. t \in Task
    BY <2>2 DEF Run
  <2> HIDE DEF t
  <2>5. /\ status' = status /\ approvedRevision' = approvedRevision
        /\ currentRun' = [currentRun EXCEPT ![t] = r]
        /\ runStatus' = [runStatus EXCEPT ![r] = "starting"]
    BY <2>2 DEF SetTask, SetRun, TypeOK
  <2>6. \A x \in Task \ {t} : currentRun[x] # NoRun => currentRun[x] \in Run \ {r}
    BY <2>2 DEF TypeOK, CurrentInv
  <2> QED BY <2>1, <2>2, <2>3, <2>4, <2>5, <2>6, RunAssumption DEF TypeOK, CurrentInv, Live
<1>4. CASE Update(c)
  <2>1. /\ SetTask(t, "pending_approval", 0, NoRun)
        /\ revision' = [revision EXCEPT ![t] = @ + 1]
        /\ archived' = [archived EXCEPT ![t] = FALSE]
        /\ UNCHANGED <<runStatus, runRevision, phase, life, torn>>
    BY <1>4 DEF Update, runVars, execVars, history
  <2> HIDE DEF t
  <2>2. CASE t \in Task
    BY <2>1, <2>2, CurrentReleased DEF SetTask, TypeOK
  <2>3. CASE t \notin Task
    BY <2>1, <2>3 DEF SetTask, TypeOK, CurrentInv, Live
  <2> QED BY <2>2, <2>3
<1>5. CASE Refused(c)
  <2>1. /\ SetTask(t, "expired", 0, NoRun) \/ UNCHANGED <<status, approvedRevision, currentRun>>
        /\ UNCHANGED <<revision, archived, runStatus, runRevision, phase, life, torn>>
    BY <1>5 DEF Refused, runVars, execVars, history
  <2> HIDE DEF t
  <2>2. CASE SetTask(t, "expired", 0, NoRun) /\ t \in Task
    BY <2>1, <2>2, CurrentReleased DEF SetTask, TypeOK
  <2>3. CASE SetTask(t, "expired", 0, NoRun) /\ t \notin Task
    BY <2>1, <2>3 DEF SetTask, TypeOK, CurrentInv, Live
  <2>4. CASE UNCHANGED <<status, approvedRevision, currentRun>>
    BY <2>1, <2>4, CurrentStays DEF taskVars, runVars
  <2> QED BY <2>1, <2>2, <2>3, <2>4
<1> QED BY <1>1, <1>2, <1>3, <1>4, <1>5

\* What has become of a task in progress leaves its run, and no other.
LEMMA CurrentKeptByFailure ==
  ASSUME TypeOK, CurrentInv, NEW r \in Run, Failure(r) \/ Completes(r),
         UNCHANGED <<revision, archived, runRevision, life, torn>>,
         \A x \in Run : x # r => phase'[x] = phase[x]
  PROVE  CurrentInv'
<1> DEFINE t == r[1]
<1>0. t \in Task
  BY DEF Run
<1>1. \A x \in Run : x # r => runStatus'[x] = runStatus[x]
  BY DEF Failure, Completes, SetRun, TypeOK
<1>2. CASE \E s \in {"failed", "completed"} : SetTask(t, s, approvedRevision[t], NoRun)
  <2> HIDE DEF t
  <2>1. /\ currentRun' = [currentRun EXCEPT ![t] = NoRun] /\ status'[t] # "in_progress"
        /\ \A x \in Task \ {t} : status'[x] = status[x] /\ approvedRevision'[x] = approvedRevision[x]
    BY <1>0, <1>2 DEF SetTask, TypeOK
  <2>2. \A x \in Run : x[1] # t => x # r
    BY DEF t
  <2> QED BY <1>0, <1>1, <2>1, <2>2, CurrentReleased
<1>3. CASE /\ UNCHANGED <<status, approvedRevision, currentRun>>
           /\ ~Live(r) \/ status[t] \in Cancelled \/ currentRun[t] # r
  <2>1. \A x \in Task : currentRun[x] = r => x = t
    BY RunAssumption DEF CurrentInv
  <2>2. \A x \in Task : status[x] = "in_progress" => currentRun[x] # r \/ r \in torn
    BY <1>3, <2>1 DEF CurrentInv, Live, Cancelled
  <2>3. Live(r)' => Live(r)
    BY DEF Failure, Completes, SetRun, TypeOK, Live
  <2> QED BY <1>1, <1>3, <2>2, <2>3 DEF CurrentInv, TypeOK, Live
<1> QED BY <1>2, <1>3 DEF Failure, Completes, TaskFails

LEMMA CurrentKeptByExecution ==
  ASSUME TypeOK, CurrentInv, NEW r \in Run, Execute(r)
  PROVE  CurrentInv'
<1> DEFINE t == r[1]
<1>0. t \in Task
  BY DEF Run
<1>1. CASE SessionStarted(r)
  <2>1. /\ currentRun[t] = r /\ SetRun(r, "running")
        /\ SetTask(t, "in_progress", approvedRevision[t], currentRun[t])
        /\ phase' = [phase EXCEPT ![r] = "running"]
        /\ Live(r) /\ life # "down" /\ UNCHANGED <<revision, archived, runRevision, life, torn>>
    BY <1>1 DEF SessionStarted, StartStands, Free, history
  <2> HIDE DEF t
  <2>2. /\ status' = [status EXCEPT ![t] = "in_progress"]
        /\ approvedRevision' = approvedRevision /\ currentRun' = currentRun
        /\ runStatus' = [runStatus EXCEPT ![r] = "running"]
    BY <2>1 DEF SetTask, SetRun, TypeOK
  <2> QED BY <1>0, <2>1, <2>2, RunAssumption DEF TypeOK, CurrentInv, Live
<1>2. CASE SessionRefused(r)
  <2>1. \A x \in Task : status[x] = "in_progress" => currentRun[x] # r \/ r \in torn
    BY <1>2 DEF SessionRefused, CurrentInv, Free
  <2>2. /\ \A x \in Run : x # r => runStatus'[x] = runStatus[x] /\ phase'[x] = phase[x]
        /\ Live(r)' => Live(r)
        /\ UNCHANGED <<taskVars, runRevision, life, torn>>
    BY <1>2 DEF SessionRefused, Live, TypeOK, history
  <2> QED BY <2>1, <2>2 DEF CurrentInv, TypeOK, Live, taskVars
<1>3. CASE StartFails(r)
  <2>1. phase' = [phase EXCEPT ![r] = "done"] /\ Failure(r)
        /\ UNCHANGED <<revision, archived, runRevision, life, torn>>
    BY <1>3 DEF StartFails, history
  <2> QED BY <2>1, CurrentKeptByFailure DEF TypeOK
<1>4. ASSUME NEW c \in Chain, TurnEnds(r, c) PROVE CurrentInv'
  <2>1. phase' = [phase EXCEPT ![r] = "done"] /\ (Failure(r) \/ Completes(r))
        /\ UNCHANGED <<revision, archived, runRevision, life, torn>>
    BY <1>4 DEF TurnEnds, Finally, history
  <2> QED BY <2>1, CurrentKeptByFailure DEF TypeOK
<1>5. CASE TurnCancelled(r)
  <2>1. /\ CancelBody(t, "cancelled") /\ phase' = [phase EXCEPT ![r] = "closing"]
        /\ UNCHANGED <<revision, archived, runRevision, life, torn>>
    BY <1>5 DEF TurnCancelled, history
  <2>2. "cancelled" \in Cancelled
    BY DEF Cancelled
  <2>3. \A x \in Run : x[1] # t => phase'[x] = phase[x]
    BY <2>1 DEF TypeOK
  <2> QED BY <1>0, <2>1, <2>2, <2>3, CurrentKeptByCancel
<1>6. ASSUME NEW c \in Chain, TurnFoundCancelled(r, c) \/ TurnClosed(r, c) PROVE CurrentInv'
  <2>1. /\ phase' = [phase EXCEPT ![r] = "done"] /\ life # "down"
        /\ UNCHANGED <<runStatus, status, approvedRevision, currentRun, revision, archived,
                       runRevision, life, torn>>
        /\ status[t] \in Cancelled \/ phase[r] # "running"
    BY <1>6 DEF TurnFoundCancelled, TurnClosed, Finally, Free, history
  <2>2. \A x \in Task : status[x] = "in_progress" => currentRun[x] # r \/ r \in torn
    BY <2>1, RunAssumption DEF CurrentInv, Cancelled
  <2> QED BY <2>1, <2>2 DEF CurrentInv, TypeOK, Live
<1> QED BY <1>1, <1>2, <1>3, <1>4, <1>5, <1>6 DEF Execute

\* A crash in a loop: of the runs it has written, that whose task it has not is torn.
LEMMA CurrentKeptByDisposing ==
  ASSUME TypeOK, CurrentInv, NEW written \in SUBSET Known, NEW settled \in SUBSET written,
         DisposeOf(written, settled), torn' = torn \cup (written \ settled), Ends
  PROVE  CurrentInv'
<1>1. /\ status' = [t \in Task |-> IF activeRuns[t] \in settled THEN "failed" ELSE status[t]]
      /\ currentRun' = [t \in Task |-> IF activeRuns[t] \in settled THEN NoRun ELSE currentRun[t]]
      /\ runStatus' = [r \in Run |-> IF r \in written THEN "interrupted" ELSE runStatus[r]]
      /\ life' = "down" /\ UNCHANGED <<revision, approvedRevision, archived, runRevision>>
  BY DEF DisposeOf, Interrupt, Ends
<1>2. \A t \in Task : currentRun[t] \in written => activeRuns[t] = currentRun[t]
  BY RunAssumption DEF CurrentInv, Known
<1>3. \A t \in Task : currentRun[t] \in Run /\ currentRun[t] \notin written =>
        runStatus'[currentRun[t]] = runStatus[currentRun[t]]
  BY <1>1
<1> QED BY <1>1, <1>2, <1>3 DEF CurrentInv, TypeOK

LEMMA CurrentKeptByRecovering ==
  ASSUME TypeOK, CurrentInv, life = "down",
         NEW written \in SUBSET Interrupted, NEW settled \in SUBSET written,
         Recover(written, settled), torn' = torn \cup (written \ settled),
         life' = "down" \/ written = Interrupted, archived' = archived
  PROVE  CurrentInv'
<1>1. /\ status' = [t \in Task |-> IF currentRun[t] \in settled THEN Recovered(t) ELSE status[t]]
      /\ currentRun' = [t \in Task |-> IF currentRun[t] \in settled THEN NoRun ELSE currentRun[t]]
      /\ \A t \in Task : currentRun[t] \notin settled => approvedRevision'[t] = approvedRevision[t]
      /\ runStatus' = [r \in Run |-> IF r \in written THEN "interrupted" ELSE runStatus[r]]
      /\ UNCHANGED <<revision, archived, runRevision>>
  BY DEF Recover, Interrupt
<1>2. \A t \in Task : Recovered(t) # "in_progress"
  BY DEF Recovered, Closed, Cancelled
<1>3. \A r \in Run : /\ r \in written => runStatus'[r] = "interrupted"
                     /\ r \notin written => runStatus'[r] = runStatus[r]
  BY <1>1
<1>4. \A r \in Run : runStatus'[r] \in {"starting", "running"} => life' = "down"
  <2>1. CASE written = Interrupted
    <3>1. \A r \in Run : runStatus[r] \in {"starting", "running"} => r \in written
      BY <2>1, RunAssumption DEF Interrupted, Live
    <3> QED BY <1>3, <3>1
  <2> QED BY <2>1
<1> SUFFICES ASSUME NEW t \in Task, currentRun'[t] # NoRun
             PROVE  LET r == currentRun'[t]
                    IN /\ archived[t] => r = NoRun
                       /\ r[1] = t
                       /\ status'[t] = "in_progress" =>
                            runRevision[r] = revision[t] /\ approvedRevision'[t] = revision[t]
                       /\ status'[t] = "in_progress" /\ r \notin torn' =>
                            runStatus'[r] = "running" /\ life' = "down"
                       /\ runStatus'[r] \in {"starting", "running"} => life' = "down"
  <2>1. \A t \in Task : status'[t] = "in_progress" => currentRun'[t] # NoRun
    <3> SUFFICES ASSUME NEW t \in Task, status'[t] = "in_progress" PROVE currentRun'[t] # NoRun
      OBVIOUS
    <3>1. currentRun[t] \notin settled
      BY <1>1, <1>2
    <3> QED BY <1>1, <3>1 DEF CurrentInv
  <2> QED BY <1>1, <2>1 DEF CurrentInv
<1>5. /\ currentRun[t] \in Run /\ currentRun[t] \notin settled /\ currentRun'[t] = currentRun[t]
      /\ status'[t] = status[t] /\ approvedRevision'[t] = approvedRevision[t]
  BY <1>1 DEF TypeOK
<1>6. runStatus'[currentRun[t]] \in {"starting", "running"} => life' = "down"
  BY <1>4, <1>5
<1>7. currentRun[t] \in written => currentRun[t] \in torn'
  BY <1>5
<1> QED BY <1>3, <1>4, <1>5, <1>6, <1>7 DEF CurrentInv

LEMMA CurrentKeptByCrash ==
  ASSUME TypeOK, CurrentInv, Crash \/ CrashWithin
  PROVE  CurrentInv'
<1>1. CASE Crash
  BY <1>1 DEF Crash, Ends, CurrentInv, runVars
<1>2. ASSUME NEW r \in Run, NEW s \in Terminal \cup {"running"}, CrashBetween(r, s)
      PROVE  CurrentInv'
  <2>1. /\ life' = "down" /\ (r \in torn' \/ runStatus'[r] = "running")
        /\ torn \subseteq torn' /\ \A x \in Run : x # r => runStatus'[x] = runStatus[x]
        /\ UNCHANGED <<status, revision, approvedRevision, currentRun, archived, runRevision>>
    <3>1. s \in Terminal \/ s = "running"
      OBVIOUS
    <3>2. /\ runStatus' = [runStatus EXCEPT ![r] = s]
          /\ torn' = IF s \in Terminal THEN torn \cup {r} ELSE torn
      BY <1>2 DEF CrashBetween, SetRun
    <3>3. r \in torn' \/ runStatus'[r] = "running"
      BY <3>1, <3>2 DEF TypeOK
    <3>4. torn \subseteq torn' /\ \A x \in Run : x # r => runStatus'[x] = runStatus[x]
      BY <3>2 DEF TypeOK
    <3> QED BY <1>2, <3>3, <3>4 DEF CrashBetween, Ends
  <2> QED BY <2>1, RunAssumption DEF CurrentInv, TypeOK
<1>3. ASSUME NEW c \in Chain, CrashCreating(c) PROVE CurrentInv'
  <2>1. PICK r \in Run : CreateRun(c, r)
    BY <1>3 DEF CrashCreating
  <2>2. /\ r[1] = subject[c] /\ currentRun[subject[c]] = NoRun
        /\ \A x \in Run : x # r => runStatus'[x] = runStatus[x] /\ runRevision'[x] = runRevision[x]
    BY <2>1 DEF CreateRun, Runnable, SetRun, TypeOK
  <2>3. /\ life' = "down" /\ UNCHANGED <<status, revision, approvedRevision, currentRun, archived, torn>>
    BY <1>3 DEF CrashCreating, Ends
  <2>4. \A x \in Task : currentRun[x] # r
    BY <2>2, RunAssumption DEF CurrentInv
  <2> QED BY <2>2, <2>3, <2>4 DEF CurrentInv, TypeOK
<1>4. ASSUME NEW c \in Chain, NEW t \in Task, CrashUpdating(c, t) PROVE CurrentInv'
  <2>1. /\ SetTask(t, "pending_approval", 0, currentRun[t])
        /\ revision' = [revision EXCEPT ![t] = @ + 1]
        /\ life' = "down" /\ UNCHANGED <<archived, runStatus, runRevision, torn>>
    BY <1>4 DEF CrashUpdating, Ends, runVars
  <2>2. /\ UNCHANGED currentRun /\ status'[t] # "in_progress"
        /\ \A x \in Task \ {t} : /\ status'[x] = status[x] /\ revision'[x] = revision[x]
                                 /\ approvedRevision'[x] = approvedRevision[x]
    BY <2>1 DEF SetTask, TypeOK
  <2> QED BY <2>1, <2>2 DEF CurrentInv
<1>5. CASE CrashDisposing
  <2>1. PICK written \in SUBSET Known, r \in Known :
          DisposeOf(written, written \ {r}) /\ torn' = torn \cup (written \cap {r})
    BY <1>5 DEF CrashDisposing
  <2>2. written \ (written \ {r}) = written \cap {r} /\ Ends
    BY <1>5 DEF CrashDisposing
  <2> QED BY <2>1, <2>2, CurrentKeptByDisposing
<1>6. CASE CrashRecovering
  <2>1. PICK written \in SUBSET Interrupted, r \in Interrupted :
          Recover(written, written \ {r}) /\ torn' = torn \cup (written \cap {r})
    BY <1>6 DEF CrashRecovering
  <2>2. /\ written \ (written \ {r}) = written \cap {r}
        /\ life = "down" /\ life' = "down" /\ archived' = archived
    BY <1>6 DEF CrashRecovering, Ends
  <2> QED BY <2>1, <2>2, CurrentKeptByRecovering
<1> QED BY <1>1, <1>2, <1>3, <1>4, <1>5, <1>6 DEF CrashWithin

LEMMA CurrentKeptByWorld ==
  ASSUME TypeOK, CurrentInv,
         \/ \E t \in Task : CancelTask(t) \/ Expire(t) \/ Deadline(t) \/ FileChanges(t)
         \/ \E c \in Chain : Start(c)
         \/ Dispose \/ AwaitRuns \/ Disposed \/ Crash \/ CrashWithin \/ UNCHANGED vars
  PROVE  CurrentInv'
<1>1. ASSUME NEW t \in Task, CancelTask(t) PROVE CurrentInv'
  <2>1. "cancelled" \in Cancelled
    BY DEF Cancelled
  <2> QED BY <1>1, <2>1, CurrentKeptByCancel DEF CancelTask, history
<1>2. ASSUME NEW t \in Task, Expire(t) PROVE CurrentInv'
  BY <1>2, CurrentReleased DEF Expire, SetTask, TypeOK, runVars, execVars, history
<1>3. CASE \/ \E t \in Task : Deadline(t) \/ FileChanges(t)
           \/ Dispose \/ AwaitRuns \/ UNCHANGED vars
  <2>1. UNCHANGED <<taskVars, runVars, phase, torn>> /\ (life' # "down" => life # "down")
    BY <1>3 DEF Deadline, FileChanges, Dispose, AwaitRuns, vars, execVars, Free, history
  <2> QED BY <2>1 DEF CurrentInv, Live, taskVars, runVars
<1>4. CASE Disposed
  <2>1. DisposeOf(Known, Known) /\ Ends /\ torn' = torn \cup (Known \ Known)
    BY <1>4 DEF Disposed
  <2> QED BY <2>1, CurrentKeptByDisposing
<1>5. ASSUME NEW c \in Chain, Start(c) PROVE CurrentInv'
  <2>1. /\ Recover(Interrupted, Interrupted) /\ torn' = torn \cup (Interrupted \ Interrupted)
        /\ life = "down" /\ archived' = archived
    BY <1>5 DEF Start, history
  <2> QED BY <2>1, CurrentKeptByRecovering
<1> QED BY <1>1, <1>2, <1>3, <1>4, <1>5, CurrentKeptByCrash

LEMMA CurrentKept ==
  ASSUME TypeOK, CurrentInv, Next \/ UNCHANGED vars
  PROVE  CurrentInv'
<1>1. ASSUME NEW c \in Chain, Step(c) PROVE CurrentInv'
  <2>1. CASE Proceed(c)
    BY <2>1, CurrentKeptByChains, CurrentKeptByCalls DEF Proceed
  <2> QED BY <1>1, <2>1, CurrentKeptByChains, CurrentKeptByWorld DEF Step
<1>2. ASSUME NEW r \in Run, Execute(r) PROVE CurrentInv'
  BY <1>2, CurrentKeptByExecution
<1> QED BY <1>1, <1>2, CurrentKeptByWorld DEF Next

-----------------------------------------------------------------------------
(* Runs and activeRuns. *)

\* A step on runs, seen from them: a run that has ended stays as it is, and
\* activeRuns loses a run that is cancelled.
RunsAdvance ==
  \A r \in Run :
    \/ runStatus'[r] = runStatus[r]
    \/ runStatus[r] = "none" /\ runStatus'[r] = "starting"
    \/ Live(r) /\ runStatus'[r] \in {"running", "failed"}
    \/ Live(r) /\ activeRuns'[r[1]] # r

ActiveAdvances ==
  \A t \in Task :
    LET r == activeRuns'[t]
    IN \/ r = activeRuns[t] \/ r = NoRun
       \/ r \in Run /\ r[1] = t /\ runStatus'[r] \in {"starting", "running"}

LEMMA ActiveKeptByAdvance ==
  ASSUME TypeOK, ActiveInv, RunsAdvance, ActiveAdvances, life # "down", life' # "down"
  PROVE  ActiveInv'
<1> SUFFICES ASSUME NEW t \in Task, activeRuns'[t] # NoRun
             PROVE  /\ activeRuns'[t][1] = t
                    /\ runStatus'[activeRuns'[t]] \in {"starting", "running", "failed"}
  BY DEF ActiveInv
<1>1. CASE activeRuns'[t] = activeRuns[t]
  <2> DEFINE r == activeRuns[t]
  <2>1. r \in Run /\ r[1] = t /\ runStatus[r] \in {"starting", "running", "failed"}
    BY <1>1 DEF ActiveInv, TypeOK
  <2>2. activeRuns'[r[1]] = r
    BY <1>1, <2>1
  <2> HIDE DEF r
  <2>3. runStatus'[r] \in {"starting", "running", "failed"}
    BY <2>1, <2>2 DEF RunsAdvance
  <2> QED BY <1>1, <2>1, <2>3 DEF r
<1>2. CASE activeRuns'[t] # activeRuns[t]
  BY <1>2 DEF ActiveAdvances
<1> QED BY <1>1, <1>2

LEMMA CancelAdvances ==
  ASSUME TypeOK, CurrentInv, NEW t \in Task, NEW s \in Cancelled, CancelBody(t, s)
  PROVE  RunsAdvance /\ ActiveAdvances
<1>1. RunsAdvance
  <2> SUFFICES ASSUME NEW r \in Run, runStatus'[r] # runStatus[r]
               PROVE  Live(r) /\ activeRuns'[r[1]] # r
    BY DEF RunsAdvance
  <2>1. r = currentRun[t] /\ Live(r)
    BY DEF CancelBody
  <2>2. r[1] = t
    BY <2>1 DEF CurrentInv, Live
  <2> QED BY <2>1, <2>2, RunAssumption DEF CancelBody, Forget, TypeOK
<1>2. ActiveAdvances
  BY DEF ActiveAdvances, CancelBody, Forget, TypeOK
<1> QED BY <1>1, <1>2

LEMMA FailureAdvances ==
  ASSUME TypeOK, NEW r \in Run, Failure(r),
         activeRuns' = activeRuns \/ Forget(r[1])
  PROVE  RunsAdvance /\ ActiveAdvances
BY RunAssumption DEF Failure, Forget, RunsAdvance, ActiveAdvances, TypeOK

LEMMA ChainsAdvance ==
  ASSUME TypeOK, CurrentInv, NEW c \in Chain,
         \/ \E what \in {"approve", "run", "update"}, t \in Task : Ask(c, what, t)
         \/ Read(c) \/ Proceed(c) \/ AbortReturns(c)
  PROVE  RunsAdvance /\ ActiveAdvances
<1>1. CASE UNCHANGED <<runStatus, activeRuns>>
  BY <1>1 DEF RunsAdvance, ActiveAdvances
<1>2. ASSUME NEW t \in Task, CancelListed(c, t) PROVE RunsAdvance /\ ActiveAdvances
  <2>1. CancelBody(t, "deleted") /\ "deleted" \in Cancelled
    BY <1>2 DEF CancelListed, Cancelled
  <2> QED BY <2>1, CancelAdvances
<1>3. CASE RunTask(c)
  <2>1. PICK r \in Run : /\ r[1] = subject[c] /\ runStatus[r] = "none" /\ SetRun(r, "starting")
                         /\ activeRuns' = [activeRuns EXCEPT ![subject[c]] = r]
    BY <1>3 DEF RunTask, CreateRun
  <2> QED BY <2>1 DEF SetRun, RunsAdvance, ActiveAdvances, TypeOK
<1>4. CASE \/ \E what \in {"approve", "run", "update"}, t \in Task : Ask(c, what, t)
           \/ Read(c) \/ ReconcileFiles(c)
  <2>1. Reconcile(c)
    BY <1>4 DEF Ask, Read, ReconcileFiles
  <2> QED BY <1>1, <2>1 DEF Reconcile, runVars, execVars
<1>5. CASE \/ ReconcileNothing(c) \/ AbortReturns(c)
           \/ \E t \in Task : Archive(c, t) \/ AlreadyCancelled(c, t) \/ CancelThrows(c, t)
  BY <1>1, <1>5
     DEF ReconcileNothing, AbortReturns, Archive, AlreadyCancelled, CancelThrows, runVars, execVars
<1>6. CASE ReadEnds(c) \/ Approve(c) \/ Update(c) \/ Refused(c)
  BY <1>1, <1>6 DEF ReadEnds, Approve, Update, Refused, runVars, execVars
<1> QED BY <1>2, <1>3, <1>4, <1>5, <1>6 DEF Proceed

LEMMA ExecutionAdvances ==
  ASSUME TypeOK, CurrentInv, NEW r \in Run, Execute(r)
  PROVE  RunsAdvance /\ ActiveAdvances
<1>0. r[1] \in Task
  BY DEF Run
<1>1. CASE SessionStarted(r)
  <2>1. /\ Live(r) /\ SetRun(r, "running")
        /\ activeRuns' = [activeRuns EXCEPT ![r[1]] = r]
    BY <1>1 DEF SessionStarted, StartStands
  <2> QED BY <1>0, <2>1 DEF SetRun, RunsAdvance, ActiveAdvances, TypeOK
<1>2. CASE SessionRefused(r)
  BY <1>0, <1>2, RunAssumption DEF SessionRefused, Forget, RunsAdvance, ActiveAdvances, TypeOK
<1>3. CASE StartFails(r)
  BY <1>3, FailureAdvances DEF StartFails
<1>4. ASSUME NEW c \in Chain, TurnEnds(r, c) PROVE RunsAdvance /\ ActiveAdvances
  <2>1. CASE Failure(r)
    BY <1>4, <2>1, FailureAdvances DEF TurnEnds, Finally
  <2>2. CASE Completes(r)
    BY <1>0, <1>4, <2>2, RunAssumption
       DEF TurnEnds, Finally, Forget, Completes, SetRun, RunsAdvance, ActiveAdvances, TypeOK
  <2> QED BY <1>4, <2>1, <2>2 DEF TurnEnds
<1>5. CASE TurnCancelled(r)
  <2>1. CancelBody(r[1], "cancelled") /\ "cancelled" \in Cancelled
    BY <1>5 DEF TurnCancelled, Cancelled
  <2> QED BY <1>0, <2>1, CancelAdvances
<1>6. ASSUME NEW c \in Chain, TurnFoundCancelled(r, c) \/ TurnClosed(r, c)
      PROVE  RunsAdvance /\ ActiveAdvances
  BY <1>0, <1>6
     DEF TurnFoundCancelled, TurnClosed, Finally, Forget, RunsAdvance, ActiveAdvances, TypeOK
<1> QED BY <1>1, <1>2, <1>3, <1>4, <1>5, <1>6 DEF Execute

LEMMA TasksAdvance ==
  ASSUME TypeOK, CurrentInv,
         \/ \E t \in Task : CancelTask(t) \/ Expire(t) \/ Deadline(t) \/ FileChanges(t)
         \/ Dispose \/ AwaitRuns
  PROVE  RunsAdvance /\ ActiveAdvances
<1>1. ASSUME NEW t \in Task, CancelTask(t) PROVE RunsAdvance /\ ActiveAdvances
  <2>1. CancelBody(t, "cancelled") /\ "cancelled" \in Cancelled
    BY <1>1 DEF CancelTask, Cancelled
  <2> QED BY <2>1, CancelAdvances
<1>2. CASE \/ \E t \in Task : Expire(t) \/ Deadline(t) \/ FileChanges(t)
           \/ Dispose \/ AwaitRuns
  BY <1>2 DEF Expire, Deadline, FileChanges, Dispose, AwaitRuns, runVars, execVars, RunsAdvance,
              ActiveAdvances
<1> QED BY <1>1, <1>2

\* Which steps a process that has gone may still see.
LEMMA ProcessIsThere ==
  ASSUME TypeOK, ActiveInv,
         \/ \E c \in Chain : \/ \E what \in {"approve", "run", "update"}, t \in Task : Ask(c, what, t)
                             \/ Read(c) \/ Proceed(c) \/ AbortReturns(c)
         \/ \E r \in Run : Execute(r)
         \/ \E t \in Task : CancelTask(t) \/ Expire(t)
         \/ Dispose \/ AwaitRuns
  PROVE  life # "down" /\ life' # "down"
<1>1. CASE \E c \in Chain : \/ \E what \in {"approve", "run", "update"}, t \in Task : Ask(c, what, t)
                            \/ Read(c) \/ AbortReturns(c)
  BY <1>1 DEF Ask, Read, Uncalled, AbortReturns, Reconcile, Free
<1>2. ASSUME NEW c \in Chain, Proceed(c) PROVE life # "down" /\ life' # "down"
  <2>1. pc[c] # "idle"
    BY <1>2 DEF Proceed, ReconcileFiles, ReconcileNothing, Archive, CancelListed,
                ListedIsCancelled, AlreadyCancelled, CancelThrows, InProgressListed, ReadEnds,
                Approve, RunTask, CreateRun, LoopEnds, Update, Refused, Reconciled
  <2>2. life' = life
    BY <1>2 DEF Proceed, ReconcileFiles, Reconcile, ReconcileNothing, Archive, CancelListed,
                AlreadyCancelled, CancelThrows, ReadEnds, Approve, RunTask, Update, Refused
  <2> QED BY <2>1, <2>2 DEF ActiveInv
<1>3. CASE \E r \in Run : Execute(r)
  BY <1>3 DEF Execute, SessionStarted, SessionRefused, StartFails, TurnEnds, TurnCancelled,
              TurnIsCancelled, TurnFoundCancelled, TurnClosed, Finally, Free
<1>4. CASE \/ \E t \in Task : CancelTask(t) \/ Expire(t)
           \/ Dispose \/ AwaitRuns
  BY <1>4 DEF CancelTask, Cancellable, Expire, Dispose, AwaitRuns, Free
<1> QED BY <1>1, <1>2, <1>3, <1>4

LEMMA ActiveKept ==
  ASSUME TypeOK, CurrentInv, ActiveInv, Next \/ UNCHANGED vars
  PROVE  ActiveInv'
<1>1. CASE \/ \E c \in Chain : \/ \E what \in {"approve", "run", "update"}, t \in Task : Ask(c, what, t)
                               \/ Read(c) \/ Proceed(c) \/ AbortReturns(c)
           \/ \E r \in Run : Execute(r)
           \/ \E t \in Task : CancelTask(t) \/ Expire(t)
           \/ Dispose \/ AwaitRuns
  BY <1>1, ProcessIsThere, ChainsAdvance, ExecutionAdvances, TasksAdvance, ActiveKeptByAdvance
<1>2. CASE (\E t \in Task : Deadline(t) \/ FileChanges(t)) \/ UNCHANGED vars
  BY <1>2 DEF Deadline, FileChanges, ActiveInv, vars, runVars, execVars, chainVars
<1>3. CASE Disposed \/ Crash \/ CrashWithin
  <2>1. Ends
    BY <1>3 DEF Disposed, Crash, CrashWithin, CrashBetween, CrashCreating, CrashUpdating,
                CrashDisposing, CrashRecovering
  <2> QED BY <2>1 DEF Ends, ActiveInv
<1>4. ASSUME NEW c \in Chain, Start(c) PROVE ActiveInv'
  BY <1>4 DEF Start, ActiveInv, execVars
<1> QED BY <1>1, <1>2, <1>3, <1>4 DEF Next, Step

\* An outcome is overwritten by nothing, but a failure by the end of a disposal.
LEMMA OutcomesKept ==
  ASSUME TypeOK, CurrentInv, ActiveInv, Next \/ UNCHANGED vars
  PROVE  \A r \in Run : runStatus[r] \in Terminal =>
           \/ runStatus'[r] = runStatus[r]
           \/ runStatus[r] = "failed" /\ runStatus'[r] = "interrupted"
<1>1. CASE RunsAdvance
  BY <1>1 DEF RunsAdvance, Live, Terminal
<1>2. CASE Disposed \/ CrashDisposing
  <2>1. PICK written \in SUBSET Known : \E settled : DisposeOf(written, settled)
    BY <1>2 DEF Disposed, CrashDisposing
  <2>2. \A r \in Known : runStatus[r] \in {"starting", "running", "failed"}
    BY RunAssumption DEF ActiveInv, Known, Run
  <2> QED BY <2>1, <2>2 DEF DisposeOf, Interrupt, Terminal
<1>3. CASE Crash \/ UNCHANGED vars \/ \E c \in Chain, t \in Task : CrashUpdating(c, t)
  BY <1>3 DEF Crash, CrashUpdating, vars, runVars
<1>4. CASE (\E c \in Chain : Start(c)) \/ CrashRecovering
  <2>1. PICK written \in SUBSET Interrupted : \E settled : Recover(written, settled)
    BY <1>4 DEF Start, CrashRecovering
  <2> QED BY <2>1 DEF Recover, Interrupt, Interrupted, Live, Terminal
<1>5. ASSUME NEW r \in Run, Live(r) \/ runStatus[r] = "none", NEW s, SetRun(r, s)
      PROVE  \A x \in Run : runStatus[x] \in Terminal => runStatus'[x] = runStatus[x]
  BY <1>5 DEF SetRun, Live, Terminal, TypeOK
<1>6. CASE \/ \E r \in Run, s \in Terminal \cup {"running"} : CrashBetween(r, s)
           \/ \E c \in Chain : CrashCreating(c)
  BY <1>5, <1>6 DEF CrashBetween, Writes, CrashCreating, CreateRun
<1>7. CASE CrashWithin
  BY <1>2, <1>3, <1>4, <1>6, <1>7 DEF CrashWithin
<1> QED BY <1>1, <1>2, <1>3, <1>4, <1>7, ChainsAdvance, ExecutionAdvances, TasksAdvance DEF Next, Step

-----------------------------------------------------------------------------
(* What is executed has been sanctioned. *)

\* A step that approves nothing, and executes nothing new.
LEMMA SanctionStays ==
  ASSUME SanctionInv,
         \A t \in Task : approvedRevision'[t] \in {0, approvedRevision[t]},
         \A c \in Chain : call'[c] = "approve" => /\ call[c] = "approve"
                                                  /\ UNCHANGED <<asked[c], subject[c]>>,
         \A r \in Run : phase'[r] \in {"starting", "running"} =>
           phase[r] \in {"starting", "running"},
         UNCHANGED <<runRevision, sanctioned>>
  PROVE  SanctionInv'
BY DEF SanctionInv

LEMMA SanctionKeptByChains ==
  ASSUME TypeOK, SanctionInv, NEW c \in Chain,
         \/ \E what \in {"approve", "run", "update"}, t \in Task : Ask(c, what, t)
         \/ Read(c) \/ ReconcileFiles(c) \/ ReconcileNothing(c) \/ AbortReturns(c)
         \/ \E t \in Task : \/ Archive(c, t) \/ CancelListed(c, t) \/ AlreadyCancelled(c, t)
                             \/ CancelThrows(c, t)
  PROVE  SanctionInv'
<1>1. ASSUME Reconcile(c)
      PROVE  /\ \A t \in Task : approvedRevision'[t] \in {0, approvedRevision[t]}
             /\ UNCHANGED <<phase, runRevision>>
  BY <1>1 DEF Reconcile, runVars, execVars
<1>2. ASSUME NEW what \in {"approve", "run", "update"}, NEW t \in Task, Ask(c, what, t)
      PROVE  SanctionInv'
  <2>1. Reconcile(c)
    BY <1>2 DEF Ask
  <2>2. \A x \in Task : sanctioned[x] \subseteq sanctioned'[x]
    BY <1>2 DEF Ask, TypeOK
  <2>3. /\ subject'[c] = t /\ asked'[c] = revision[t] /\ call'[c] = what
        /\ what = "approve" => revision[t] \in sanctioned'[t]
        /\ \A d \in Chain \ {c} : call'[d] = call[d] /\ asked'[d] = asked[d]
                                  /\ subject'[d] = subject[d]
    BY <1>2 DEF Ask, TypeOK
  <2>4. \A d \in Chain : subject[d] \notin Task => sanctioned'[subject[d]] = sanctioned[subject[d]]
    BY <1>2 DEF Ask, TypeOK
  <2>5. ASSUME NEW d \in Chain, call'[d] = "approve"
        PROVE  asked'[d] \in sanctioned'[subject'[d]]
    <3>1. CASE d = c
      BY <2>3, <2>5, <3>1
    <3>2. CASE d # c
      BY <2>2, <2>3, <2>4, <2>5, <3>2 DEF SanctionInv
    <3> QED BY <3>1, <3>2
  <2>6. \A r \in Run : r[1] \in Task
    BY DEF Run
  <2> QED BY <1>1, <2>1, <2>2, <2>5, <2>6 DEF SanctionInv
<1>3. CASE Read(c) \/ ReconcileFiles(c)
  BY <1>1, <1>3, SanctionStays DEF Read, ReconcileFiles
<1>4. CASE ReconcileNothing(c) \/ AbortReturns(c) \/ \E t \in Task : AlreadyCancelled(c, t)
  BY <1>4, SanctionStays
     DEF ReconcileNothing, AbortReturns, AlreadyCancelled, taskVars, runVars, execVars, history
<1>5. ASSUME NEW t \in Task, Archive(c, t) PROVE SanctionInv'
  <2>1. /\ SetTask(t, ArchivedAs(listed[c][t].status), 0, NoRun)
        /\ UNCHANGED <<call, asked, subject, phase, runRevision, sanctioned>>
    BY <1>5 DEF Archive, runVars, execVars, history
  <2> QED BY <2>1, SanctionStays DEF SetTask, TypeOK
<1>6. ASSUME NEW t \in Task, CancelListed(c, t) PROVE SanctionInv'
  <2>1. /\ SetTask(t, "deleted", 0, NoRun)
        /\ UNCHANGED <<call, asked, subject, phase, runRevision, sanctioned>>
    BY <1>6 DEF CancelListed, CancelBody, history
  <2> QED BY <2>1, SanctionStays DEF SetTask, TypeOK
<1>7. ASSUME NEW t \in Task, CancelThrows(c, t) PROVE SanctionInv'
  <2>1. \A d \in Chain : call'[d] = "approve" =>
          call[d] = "approve" /\ UNCHANGED <<asked[d], subject[d]>>
    BY <1>7 DEF CancelThrows, Idle, TypeOK
  <2> QED BY <1>7, <2>1, SanctionStays DEF CancelThrows, taskVars, runVars, execVars, history
<1> QED BY <1>2, <1>3, <1>4, <1>5, <1>6, <1>7

LEMMA SanctionKeptByCalls ==
  ASSUME TypeOK, SanctionInv, NEW c \in Chain,
         ReadEnds(c) \/ Approve(c) \/ RunTask(c) \/ Update(c) \/ Refused(c)
  PROVE  SanctionInv'
<1> DEFINE t == subject[c]
<1>0. /\ \A d \in Chain : call'[d] = "approve" =>
           call[d] = "approve" /\ UNCHANGED <<asked[d], subject[d]>>
      /\ sanctioned' = sanctioned
  BY DEF ReadEnds, Approve, RunTask, Update, Refused, Reconciled, Idle, TypeOK, history
<1>1. CASE ReadEnds(c) \/ Update(c) \/ Refused(c)
  <2>1. \/ UNCHANGED approvedRevision
        \/ \E s \in Status : SetTask(t, s, 0, NoRun)
    BY <1>1 DEF ReadEnds, Update, Refused, taskVars, Status, Closed
  <2>2. UNCHANGED <<phase, runRevision>>
    BY <1>1 DEF ReadEnds, Update, Refused, runVars, execVars
  <2> HIDE DEF t
  <2> QED BY <1>0, <2>1, <2>2, SanctionStays DEF SetTask, TypeOK
<1>2. CASE Approve(c)
  <2>1. /\ SetTask(t, "approved", revision[t], currentRun[t])
        /\ revision[t] = asked[c] /\ call[c] = "approve"
        /\ UNCHANGED <<phase, runRevision>>
    BY <1>2 DEF Approve, Reconciled, LoopEnds, Verified, runVars, execVars
  <2>2. revision[t] \in sanctioned[t]
    BY <2>1 DEF SanctionInv
  <2> HIDE DEF t
  <2>3. \A x \in Task : approvedRevision'[x] # 0 => approvedRevision'[x] \in sanctioned[x]
    BY <2>1, <2>2 DEF SetTask, TypeOK, SanctionInv
  <2> QED BY <1>0, <2>1, <2>3 DEF SanctionInv
<1>3. CASE RunTask(c)
  <2>1. PICK r \in Run : /\ r[1] = t
                         /\ runRevision' = [runRevision EXCEPT ![r] = revision[t]]
                         /\ SetTask(t, status[t], approvedRevision[t], r)
                         /\ phase' = [phase EXCEPT ![r] = "starting"]
    BY <1>3 DEF RunTask, CreateRun
  <2>2. approvedRevision[t] = revision[t]
    BY <1>3 DEF RunTask, CreateRun, Runnable
  <2>3. t \in Task
    BY <2>1 DEF Run
  <2> HIDE DEF t
  <2>4. revision[t] \in sanctioned[t]
    BY <2>2, <2>3 DEF SanctionInv, TypeOK, Revision
  <2>5. approvedRevision' = approvedRevision
    BY <2>1 DEF SetTask, TypeOK
  <2> QED BY <1>0, <2>1, <2>3, <2>4, <2>5 DEF SanctionInv, TypeOK
<1> QED BY <1>1, <1>2, <1>3

LEMMA SanctionKeptByExecution ==
  ASSUME TypeOK, SanctionInv, NEW r \in Run, Execute(r)
  PROVE  SanctionInv'
<1>1. UNCHANGED <<runRevision, sanctioned>>
  BY DEF Execute, SessionStarted, SessionRefused, StartFails, TurnEnds, TurnCancelled,
         TurnFoundCancelled, TurnClosed, Finally, history
<1>2. \A c \in Chain : call'[c] = call[c] /\ asked'[c] = asked[c] /\ subject'[c] = subject[c]
  BY DEF Execute, SessionStarted, SessionRefused, StartFails, TurnEnds, TurnCancelled,
         TurnFoundCancelled, TurnClosed, Finally, chainVars
<1>3. \A x \in Run : phase'[x] \in {"starting", "running"} => phase[x] \in {"starting", "running"}
  BY DEF Execute, SessionStarted, SessionRefused, StartFails, TurnEnds, TurnCancelled,
         TurnFoundCancelled, TurnClosed, Finally, TypeOK
<1>4. \A t \in Task : approvedRevision'[t] \in {0, approvedRevision[t]}
  BY DEF Execute, SessionStarted, SessionRefused, StartFails, TurnEnds, TurnCancelled,
         TurnFoundCancelled, TurnClosed, Failure, Completes, CancelBody, SetTask, taskVars, TypeOK
<1> QED BY <1>1, <1>2, <1>3, <1>4, SanctionStays

\* After the end of the process nothing is executed or asked for.
LEMMA SanctionKeptByEnd ==
  ASSUME TypeOK, SanctionInv, Disposed \/ Crash \/ CrashWithin
  PROVE  SanctionInv'
<1>1. Ends
  BY DEF Disposed, Crash, CrashWithin, CrashBetween, CrashCreating, CrashUpdating,
         CrashDisposing, CrashRecovering
<1>2. CASE \E c \in Chain, t \in Task : CrashUpdating(c, t)
  <2>1. \A t \in Task : approvedRevision'[t] \in {0, approvedRevision[t]}
    BY <1>2 DEF CrashUpdating, SetTask, TypeOK
  <2> QED BY <1>1, <2>1 DEF Ends, SanctionInv
<1>3. CASE CrashRecovering
  <2>1. \A t \in Task : approvedRevision'[t] \in {0, approvedRevision[t]}
    BY <1>3 DEF CrashRecovering, Recover
  <2> QED BY <1>1, <2>1 DEF Ends, SanctionInv
<1>4. CASE UNCHANGED approvedRevision
  BY <1>1, <1>4 DEF Ends, SanctionInv
<1> QED BY <1>2, <1>3, <1>4
        DEF Disposed, Crash, CrashWithin, CrashBetween, CrashCreating, CrashDisposing, DisposeOf

LEMMA SanctionKeptByWorld ==
  ASSUME TypeOK, SanctionInv,
         \/ \E t \in Task : CancelTask(t) \/ Expire(t) \/ Deadline(t) \/ FileChanges(t)
         \/ \E c \in Chain : Start(c)
         \/ Dispose \/ AwaitRuns \/ UNCHANGED vars
  PROVE  SanctionInv'
<1>1. UNCHANGED <<runRevision, sanctioned>>
  BY DEF CancelTask, Expire, Deadline, FileChanges, Start, Recover, Dispose, AwaitRuns,
         runVars, history, vars
<1>2. \A c \in Chain : call'[c] = "approve" => /\ call[c] = "approve"
                                               /\ UNCHANGED <<asked[c], subject[c]>>
  BY DEF CancelTask, Expire, Deadline, FileChanges, Start, Dispose, AwaitRuns, chainVars, vars
<1>3. \A x \in Run : phase'[x] \in {"starting", "running"} => phase[x] \in {"starting", "running"}
  BY DEF CancelTask, Expire, Deadline, FileChanges, Start, Dispose, AwaitRuns, execVars, vars
<1>4. \A t \in Task : approvedRevision'[t] \in {0, approvedRevision[t]}
  BY DEF CancelTask, Expire, Deadline, FileChanges, Start, Recover, Dispose, AwaitRuns,
         CancelBody, SetTask, taskVars, vars, TypeOK
<1> QED BY <1>1, <1>2, <1>3, <1>4, SanctionStays

LEMMA SanctionKept ==
  ASSUME TypeOK, SanctionInv, Next \/ UNCHANGED vars
  PROVE  SanctionInv'
<1>1. ASSUME NEW c \in Chain, Step(c) PROVE SanctionInv'
  <2>1. CASE Proceed(c)
    BY <2>1, SanctionKeptByChains, SanctionKeptByCalls DEF Proceed
  <2> QED BY <1>1, <2>1, SanctionKeptByChains, SanctionKeptByWorld DEF Step
<1>2. ASSUME NEW r \in Run, Execute(r) PROVE SanctionInv'
  BY <1>2, SanctionKeptByExecution
<1> QED BY <1>1, <1>2, SanctionKeptByWorld, SanctionKeptByEnd DEF Next

-----------------------------------------------------------------------------
(* The theorems. *)

AgendaInv == TypeOK /\ CurrentInv /\ ActiveInv /\ SanctionInv

LEMMA AgendaInvHolds == Spec => []AgendaInv
<1>1. Init => AgendaInv
  <2> SUFFICES ASSUME Init PROVE AgendaInv
    OBVIOUS
  <2>1. CurrentInv /\ ActiveInv /\ SanctionInv
    BY DEF Init, CurrentInv, ActiveInv, SanctionInv
  <2> QED BY <2>1, TypeBegins DEF AgendaInv
<1>2. AgendaInv /\ [Next]_vars => AgendaInv'
  BY TypeKept, CurrentKept, ActiveKept, SanctionKept DEF AgendaInv
<1> QED BY <1>1, <1>2, PTL DEF Spec

\* A task in progress is executed: by its current run, of the revision that stands
\* approved, whose session is at work; or a crash between the statement that ended the run
\* and the one on the task has torn them (finishRun, cancelTask, recoverInterruptedRuns).
THEOREM TasksInProgressAreExecuted == Spec => []TasksInv
<1>1. AgendaInv => TasksInv
  BY DEF AgendaInv, TasksInv, InProgressIsExecuted, CurrentInv, TypeOK
<1> QED BY <1>1, AgendaInvHolds, PTL

\* No turn is begun on an intent nobody asked to approve, whatever edits, deletions
\* and recoveries come between the approval and the run (approveTask, runTask).
THEOREM SanctionedIntentRuns == Spec => []OnlySanctionedIntentRuns
<1>1. AgendaInv => OnlySanctionedIntentRuns
  BY DEF AgendaInv, SanctionInv, OnlySanctionedIntentRuns
<1> QED BY <1>1, AgendaInvHolds, PTL

\* The outcome of a run is not overwritten by a late answer, a cancellation or the
\* recovery after a crash (finishRun, cancelTask, recoverInterruptedRuns).
THEOREM AgendaOutcomesAreFinal == Spec => OutcomesAreFinal
<1>1. AgendaInv /\ [Next]_vars =>
        [\A r \in Run : runStatus[r] \in Terminal =>
           \/ runStatus'[r] = runStatus[r]
           \/ runStatus[r] = "failed" /\ runStatus'[r] = "interrupted"]_vars
  BY OutcomesKept DEF AgendaInv
<1> QED BY <1>1, AgendaInvHolds, PTL DEF Spec, OutcomesAreFinal

=============================================================================
