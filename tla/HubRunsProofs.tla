--------------------------- MODULE HubRunsProofs ---------------------------
(***************************************************************************)
(* Theorems about the runs of a hub daemon, for any number of runs,        *)
(* sessions, crashes and shutdowns.                                        *)
(***************************************************************************)
EXTENDS HubRuns, TLAPS

-----------------------------------------------------------------------------
(* Types. *)

LEMMA RequestType ==
  ASSUME CoordinatorTypeOK, NEW code \in ExitCode, Request(code)
  PROVE  CoordinatorTypeOK'
BY DEF CoordinatorTypeOK, Request, RaisedTo, ExitCode

LEMMA ForceType ==
  ASSUME CoordinatorTypeOK, NEW code \in ExitCode, ForceExit(code)
  PROVE  CoordinatorTypeOK'
BY DEF CoordinatorTypeOK, ForceExit, RaisedTo, ExitCode

LEMMA CleanupEndsType ==
  ASSUME CoordinatorTypeOK, NEW ok \in BOOLEAN, CleanupEnds(ok)
  PROVE  CoordinatorTypeOK'
BY DEF CoordinatorTypeOK, CleanupEnds, ExitCode

\* What Dies leaves is typed.
LEMMA DiesType ==
  ASSUME TypeOK, Dies, faults' \in 0 .. MaxFaults, CoordinatorTypeOK'
  PROVE  TypeOK'
BY DEF TypeOK, Dies, DroppingIn, dbVars

LEMMA FaultType ==
  ASSUME TypeOK, Fault
  PROVE  faults' \in 0 .. MaxFaults
BY HubBoundAssumption DEF TypeOK, Fault

LEMMA RecordType ==
  ASSUME TypeOK, NEW s \in Session, NEW outcome \in Outcome, current[s] \in Run,
         Record(s, outcome)
  PROVE  /\ state' \in [Run -> {"none", "queued", "running"} \cup Outcome]
         /\ current' \in [Session -> Run \cup {NoRun}]
         /\ pump' \in [Session -> {"idle", "looking", "turn", "replying", "settled"}]
<1> DEFINE done == [state EXCEPT ![current[s]] = outcome]
<1>1. done \in [Run -> {"none", "queued", "running"} \cup Outcome]
  BY DEF TypeOK
<1>2. CASE Queued(s) = {} /\ state' = done /\ current' = [current EXCEPT ![s] = NoRun]
           /\ pump' = [pump EXCEPT ![s] = "settled"]
  BY <1>1, <1>2 DEF TypeOK
<1>3. ASSUME NEW q \in Run, state' = [done EXCEPT ![q] = "running"],
             current' = [current EXCEPT ![s] = q], pump' = [pump EXCEPT ![s] = "looking"]
      PROVE  /\ state' \in [Run -> {"none", "queued", "running"} \cup Outcome]
             /\ current' \in [Session -> Run \cup {NoRun}]
             /\ pump' \in [Session -> {"idle", "looking", "turn", "replying", "settled"}]
  <2> HIDE DEF done
  <2> QED
    BY <1>1, <1>3 DEF TypeOK
<1> QED
  BY <1>2, <1>3 DEF Record, markTerminal, Queued, RunsOf

LEMMA AdmitType ==
  ASSUME TypeOK, NEW r \in Run, Admit(r)
  PROVE  TypeOK'
<1> USE HubRunAssumption
<1>1. SessionOf[r] \in Session
  OBVIOUS
<1>2. CASE pump[SessionOf[r]] # "idle"
  BY <1>1, <1>2 DEF TypeOK, Admit, Accepted, hubVars, hostVars, exitVars, coordinatorVars,
     pumpVars, CoordinatorTypeOK
<1>3. CASE pump[SessionOf[r]] = "idle"
  <2> DEFINE s == SessionOf[r]
             rows == [state EXCEPT ![r] = "queued"]
  <2>1. PICK q \in Queued(s) \cup {r} : /\ state' = [rows EXCEPT ![q] = "running"]
                                       /\ current' = [current EXCEPT ![s] = q]
    BY <1>3 DEF Admit, Accepted
  <2>2. q \in Run /\ pump' = [pump EXCEPT ![s] = "looking"]
    BY <1>3 DEF Admit, Accepted, Queued, RunsOf
  <2>3. rows \in [Run -> {"none", "queued", "running"} \cup Outcome]
    BY DEF TypeOK
  <2>4. state' \in [Run -> {"none", "queued", "running"} \cup Outcome]
    BY <2>1, <2>2, <2>3
  <2>5. /\ current' \in [Session -> Run \cup {NoRun}]
        /\ pump' \in [Session -> {"idle", "looking", "turn", "replying", "settled"}]
    BY <1>1, <2>1, <2>2 DEF TypeOK
  <2>6. seq' \in [Run -> Nat] /\ admitted' \in Nat
    BY DEF Admit, Accepted, TypeOK
  <2> QED
    BY <2>4, <2>5, <2>6 DEF TypeOK, Admit, Accepted, hubVars, hostVars, exitVars, coordinatorVars,
       CoordinatorTypeOK
<1> QED
  BY <1>2, <1>3

LEMMA PumpType ==
  ASSUME TypeOK, NEW s \in Session, PumpStep(s)
  PROVE  TypeOK'
<1> USE HubRunAssumption
<1>1. Working(s) => current[s] \in Run
  BY DEF TypeOK, Working
<1>2. ASSUME NEW outcome, Record(s, outcome), Working(s),
             outcome \in {"completed", "failed", "aborted"}
      PROVE  /\ state' \in [Run -> {"none", "queued", "running"} \cup Outcome]
             /\ current' \in [Session -> Run \cup {NoRun}]
             /\ pump' \in [Session -> {"idle", "looking", "turn", "replying", "settled"}]
  <2>1. outcome \in Outcome
    BY <1>2 DEF Outcome
  <2> QED
    BY <1>1, <1>2, <2>1, RecordType
<1> USE DEF hubVars, hostVars, exitVars, coordinatorVars, pumpVars, dbVars
<1>3. CASE SessionLookedUp(s)
  <2>1. CASE Record(s, "failed") /\ UNCHANGED turn
    BY <1>2, <1>3, <2>1 DEF SessionLookedUp, TypeOK, CoordinatorTypeOK
  <2>2. CASE ~(Record(s, "failed") /\ UNCHANGED turn)
    BY <1>3, <2>2 DEF SessionLookedUp, TypeOK, CoordinatorTypeOK
  <2> QED
    BY <2>1, <2>2
<1>4. CASE TurnReturns(s)
  BY <1>4 DEF TurnReturns, TypeOK, CoordinatorTypeOK
<1>5. CASE Reply(s)
  BY <1>2, <1>5 DEF Reply, TypeOK, CoordinatorTypeOK
<1>6. CASE TurnThrows(s)
  BY <1>2, <1>6 DEF TurnThrows, TypeOK, CoordinatorTypeOK, DroppingIn
<1>7. CASE TimedOut(s)
  BY <1>2, <1>7 DEF TimedOut, TypeOK, CoordinatorTypeOK
<1>8. CASE Settled(s)
  <2>1. CASE Queued(s) = {} /\ pump' = [pump EXCEPT ![s] = "idle"] /\ UNCHANGED <<state, current>>
    BY <1>8, <2>1 DEF Settled, TypeOK, CoordinatorTypeOK
  <2>2. ASSUME NEW q \in Run, state' = [state EXCEPT ![q] = "running"],
               current' = [current EXCEPT ![s] = q], pump' = [pump EXCEPT ![s] = "looking"]
        PROVE  TypeOK'
    BY <1>8, <2>2 DEF Settled, TypeOK, CoordinatorTypeOK
  <2> QED
    BY <1>8, <2>1, <2>2 DEF Settled, Queued, RunsOf
<1>9. CASE PumpBreaks(s)
  <2>1. CoordinatorTypeOK'
    <3>1. CASE fatalShutdownStarted
      BY <1>9, <3>1 DEF PumpBreaks, TypeOK, CoordinatorTypeOK
    <3>2. CASE ~fatalShutdownStarted
      BY <1>9, <3>2, RequestType DEF PumpBreaks, TypeOK, ExitCode
    <3> QED
      BY <3>1, <3>2
  <2> QED
    BY <1>9, <2>1 DEF PumpBreaks, TypeOK
<1> QED
  BY <1>3, <1>4, <1>5, <1>6, <1>7, <1>8, <1>9 DEF PumpStep

LEMMA HostType ==
  ASSUME TypeOK, HostStep
  PROVE  TypeOK'
BY DEF HostStep, DeferredTurn, DetachedEnd, ClientTurn, LoadSession, StopSession, TypeOK,
   CoordinatorTypeOK, DroppingIn, hubVars, exitVars, coordinatorVars, pumpVars, dbVars

LEMMA DaemonType ==
  ASSUME TypeOK, DaemonStep
  PROVE  TypeOK'
<1> USE DEF hubVars, hostVars, exitVars, coordinatorVars, pumpVars, dbVars
<1>0. CoordinatorTypeOK /\ requestedExitCode \in ExitCode
  BY DEF TypeOK, CoordinatorTypeOK
<1>1. CASE HubDrain
  BY <1>1 DEF HubDrain, TypeOK, CoordinatorTypeOK
<1>2. CASE ShutdownRequested
  BY <1>0, <1>2, RequestType, FaultType DEF ShutdownRequested, TypeOK, ExitCode
<1>3. CASE FatalError
  BY <1>0, <1>3, RequestType, FaultType DEF FatalError, TypeOK, ExitCode
<1>4. CASE StopBegins
  BY <1>4 DEF StopBegins, CleanupStarts, TypeOK, CoordinatorTypeOK
<1>5. CASE HostDisposed
  BY <1>5 DEF HostDisposed, TypeOK, CoordinatorTypeOK, DroppingIn
<1>6. CASE QueueClosed
  BY <1>6 DEF QueueClosed, TypeOK, CoordinatorTypeOK
<1>7. CASE CleanedUp
  <2>1. faults' \in 0 .. MaxFaults
    BY <1>7 DEF CleanedUp, TypeOK
  <2> QED
    BY <1>0, <1>7, <2>1, CleanupEndsType, DiesType DEF CleanedUp
<1>8. CASE CleanupFails
  <2>1. faults' \in 0 .. MaxFaults
    BY <1>8 DEF CleanupFails, TypeOK
  <2> QED
    BY <1>0, <1>8, <2>1, CleanupEndsType, DiesType DEF CleanupFails
<1>9. CASE DeadlineExceeded
  <2>1. faults' \in 0 .. MaxFaults
    BY <1>9 DEF DeadlineExceeded, TypeOK
  <2> QED
    BY <1>0, <1>9, <2>1, ForceType, DiesType DEF DeadlineExceeded
<1>10. CASE SecondSignal
  <2>1. faults' \in 0 .. MaxFaults /\ 0 \in ExitCode
    BY <1>10 DEF SecondSignal, TypeOK, ExitCode
  <2> QED
    BY <1>0, <1>10, <2>1, ForceType, DiesType DEF SecondSignal
<1>11. CASE Crash
  <2>1. CoordinatorTypeOK'
    BY <1>0, <1>11 DEF Crash, CoordinatorTypeOK
  <2> QED
    BY <1>11, <2>1, DiesType, FaultType DEF Crash
<1>12. CASE Restart
  <2>1. CoordinatorTypeOK'
    BY <1>12 DEF Restart, CoordinatorRestarts, CoordinatorTypeOK, ExitCode
  <2>2. PICK next \in [Session -> Run \cup {NoRun}] :
          /\ state' = [r \in Run |->
               IF next[SessionOf[r]] = r THEN "running" ELSE recoverOnStartup[r]]
          /\ current' = next
          /\ pump' = [s \in Session |-> IF next[s] = NoRun THEN "idle" ELSE "looking"]
    BY <1>12 DEF Restart
  <2>3. state' \in [Run -> {"none", "queued", "running"} \cup Outcome]
    BY <2>2 DEF TypeOK, Outcome, recoverOnStartup
  <2>4. /\ current' \in [Session -> Run \cup {NoRun}]
        /\ pump' \in [Session -> {"idle", "looking", "turn", "replying", "settled"}]
    BY <2>2
  <2> QED
    BY <1>12, <2>1, <2>3, <2>4 DEF Restart, TypeOK
<1> QED
  BY <1>1, <1>2, <1>3, <1>4, <1>5, <1>6, <1>7, <1>8, <1>9, <1>10, <1>11, <1>12
  DEF DaemonStep

LEMMA TypeStep ==
  ASSUME TypeOK, [Next]_vars
  PROVE  TypeOK'
<1>1. CASE UNCHANGED vars
  BY <1>1 DEF TypeOK, CoordinatorTypeOK, vars, dbVars, hubVars, pumpVars, hostVars,
     exitVars, coordinatorVars
<1>2. CASE Next
  BY <1>2, AdmitType, PumpType, HostType, DaemonType DEF Next
<1> QED
  BY <1>1, <1>2

\* Every reachable state of the hub has the types TypeOK names.
THEOREM HubTypeCorrect == Spec => []TypeOK
<1>1. Init => TypeOK
  <2> SUFFICES ASSUME Init PROVE TypeOK
    OBVIOUS
  <2>1. CoordinatorTypeOK
    BY DEF Init, CoordinatorInit, CoordinatorTypeOK, ExitCode
  <2>2. faults \in 0 .. MaxFaults
    BY HubBoundAssumption DEF Init
  <2> QED
    BY <2>1, <2>2 DEF Init, TypeOK
<1>2. TypeOK /\ [Next]_vars => TypeOK'
  BY TypeStep
<1> QED
  BY <1>1, <1>2, PTL DEF Spec

-----------------------------------------------------------------------------
(* Rows and pumps. *)

\* The pump of s executes q, a queued row of s, when it executed none.
LEMMA TakeKeepsPumps ==
  ASSUME TypeOK, PumpInv, NEW s \in Session, current[s] = NoRun,
         NEW q \in Queued(s),
         state' = [state EXCEPT ![q] = "running"],
         current' = [current EXCEPT ![s] = q],
         pump' = [pump EXCEPT ![s] = "looking"], UNCHANGED hub
  PROVE  PumpInv'
<1> USE HubRunAssumption
<1>1. q \in Run /\ SessionOf[q] = s /\ q # NoRun /\ state[q] = "queued"
  BY DEF Queued, RunsOf
<1>2. \A x \in Run : state'[x] = IF x = q THEN "running" ELSE state[x]
  BY <1>1 DEF TypeOK
<1>3. \A t \in Session : /\ current'[t] = IF t = s THEN q ELSE current[t]
                         /\ pump'[t] = IF t = s THEN "looking" ELSE pump[t]
  BY DEF TypeOK
<1>4. PumpsExecuteRunning'
  BY <1>1, <1>2, <1>3 DEF PumpInv, PumpsExecuteRunning, RunsOf
<1>5. RowsArePumped'
  BY <1>1, <1>2, <1>3 DEF PumpInv, RowsArePumped
<1> QED
  BY <1>4, <1>5 DEF PumpInv

LEMMA RecordKeepsPumps ==
  ASSUME TypeOK, PumpInv, NEW s \in Session, NEW outcome \in Outcome,
         Working(s), Record(s, outcome), UNCHANGED hub
  PROVE  PumpInv'
<1> USE HubRunAssumption
<1> DEFINE r == current[s]
           done == [state EXCEPT ![r] = outcome]
<1>1. r \in Run /\ SessionOf[r] = s /\ state[r] = "running" /\ outcome \notin {"queued", "running"}
  BY DEF Working, PumpInv, PumpsExecuteRunning, RunsOf, Outcome
<1>2. \A x \in Run : done[x] = IF x = r THEN outcome ELSE state[x]
  BY <1>1 DEF TypeOK
<1>3. CASE /\ Queued(s) = {} /\ state' = done
           /\ current' = [current EXCEPT ![s] = NoRun]
           /\ pump' = [pump EXCEPT ![s] = "settled"]
  <2>1. \A t \in Session : /\ current'[t] = IF t = s THEN NoRun ELSE current[t]
                           /\ pump'[t] = IF t = s THEN "settled" ELSE pump[t]
    BY <1>3 DEF TypeOK
  <2>2. PumpsExecuteRunning'
    BY <1>1, <1>2, <1>3, <2>1 DEF PumpInv, PumpsExecuteRunning, RunsOf
  <2>3. RowsArePumped'
    BY <1>1, <1>2, <1>3, <2>1 DEF PumpInv, RowsArePumped
  <2> QED
    BY <2>2, <2>3 DEF PumpInv
<1>4. ASSUME NEW q \in Queued(s), state' = [done EXCEPT ![q] = "running"],
             current' = [current EXCEPT ![s] = q], pump' = [pump EXCEPT ![s] = "looking"]
      PROVE  PumpInv'
  <2>1. q \in Run /\ SessionOf[q] = s /\ q # NoRun /\ state[q] = "queued"
    BY DEF Queued, RunsOf
  <2>2. \A x \in Run : state'[x] = IF x = q THEN "running" ELSE done[x]
    BY <1>4, <2>1 DEF TypeOK
  <2>3. \A t \in Session : /\ current'[t] = IF t = s THEN q ELSE current[t]
                           /\ pump'[t] = IF t = s THEN "looking" ELSE pump[t]
    BY <1>4 DEF TypeOK
  <2> HIDE DEF done, r
  <2>4. PumpsExecuteRunning'
    BY <1>1, <1>2, <2>1, <2>2, <2>3 DEF PumpInv, PumpsExecuteRunning, RunsOf, r
  <2>5. RowsArePumped'
    BY <1>1, <1>2, <2>1, <2>2, <2>3 DEF PumpInv, RowsArePumped, r
  <2> QED
    BY <2>4, <2>5 DEF PumpInv
<1> QED
  BY <1>3, <1>4 DEF Record, markTerminal

\* The pump of s goes on with the row it executes.
LEMMA GoingOnKeepsPumps ==
  ASSUME TypeOK, PumpInv, NEW s \in Session, NEW next \in {"turn", "replying"},
         Working(s), pump' = [pump EXCEPT ![s] = next], UNCHANGED <<state, current, hub>>
  PROVE  PumpInv'
<1>1. \A t \in Session : pump'[t] = IF t = s THEN next ELSE pump[t]
  BY DEF TypeOK
<1>2. next \notin {"idle", "settled"} /\ pump[s] \notin {"idle", "settled"}
  BY DEF Working, PumpInv, PumpsExecuteRunning
<1>3. PumpsExecuteRunning'
  BY <1>1, <1>2 DEF PumpInv, PumpsExecuteRunning, RunsOf
<1>4. RowsArePumped'
  BY <1>1, <1>2, HubRunAssumption DEF PumpInv, RowsArePumped
<1> QED
  BY <1>3, <1>4 DEF PumpInv

LEMMA AdmitKeepsPumps ==
  ASSUME TypeOK, PumpInv, NEW r \in Run, Admit(r)
  PROVE  PumpInv'
<1> USE HubRunAssumption
<1> DEFINE s == SessionOf[r]
           rows == [state EXCEPT ![r] = "queued"]
<1>1. s \in Session /\ state[r] = "none" /\ UNCHANGED hub /\ hub = "up"
  BY DEF Admit, Admissible, hubVars
<1>2. \A x \in Run : rows[x] = IF x = r THEN "queued" ELSE state[x]
  BY DEF TypeOK
<1>3. CASE pump[s] # "idle"
  <2>1. state' = rows /\ UNCHANGED <<pump, current>>
    BY <1>3 DEF Admit, pumpVars
  <2>2. PumpsExecuteRunning'
    BY <1>1, <1>2, <2>1 DEF PumpInv, PumpsExecuteRunning, RunsOf
  <2>3. RowsArePumped'
    BY <1>1, <1>2, <1>3, <2>1 DEF PumpInv, RowsArePumped
  <2> QED
    BY <2>2, <2>3 DEF PumpInv
<1>4. CASE pump[s] = "idle"
  <2>1. PICK q \in Queued(s) \cup {r} : /\ state' = [rows EXCEPT ![q] = "running"]
                                       /\ current' = [current EXCEPT ![s] = q]
    BY <1>4 DEF Admit, Accepted
  <2>2. q \in Run /\ SessionOf[q] = s /\ pump' = [pump EXCEPT ![s] = "looking"]
    BY <1>4 DEF Admit, Accepted, Queued, RunsOf
  <2>3. \A x \in Run : state'[x] = IF x = q THEN "running" ELSE rows[x]
    BY <2>1, <2>2 DEF TypeOK
  <2>4. \A t \in Session : /\ current'[t] = IF t = s THEN q ELSE current[t]
                           /\ pump'[t] = IF t = s THEN "looking" ELSE pump[t]
    BY <2>1, <2>2 DEF TypeOK
  <2>5. current[s] = NoRun
    BY <1>1, <1>4 DEF PumpInv, PumpsExecuteRunning
  <2> HIDE DEF rows
  <2>6. PumpsExecuteRunning'
    BY <1>1, <1>2, <2>2, <2>3, <2>4 DEF PumpInv, PumpsExecuteRunning, RunsOf
  <2>7. RowsArePumped'
    BY <1>1, <1>2, <2>2, <2>3, <2>4, <2>5 DEF PumpInv, RowsArePumped
  <2> QED
    BY <2>6, <2>7 DEF PumpInv
<1> QED
  BY <1>3, <1>4

LEMMA PumpStepKeepsPumps ==
  ASSUME TypeOK, PumpInv, NEW s \in Session, PumpStep(s)
  PROVE  PumpInv'
<1> USE DEF hubVars, pumpVars, dbVars
<1>0. "completed" \in Outcome /\ "failed" \in Outcome /\ "aborted" \in Outcome
  BY DEF Outcome
<1>1. CASE SessionLookedUp(s)
  <2>1. CASE Record(s, "failed")
    BY <1>0, <1>1, <2>1, RecordKeepsPumps DEF SessionLookedUp
  <2>2. CASE ~Record(s, "failed")
    BY <1>1, <2>2, GoingOnKeepsPumps DEF SessionLookedUp
  <2> QED
    BY <2>1, <2>2
<1>2. CASE TurnReturns(s)
  BY <1>2, GoingOnKeepsPumps DEF TurnReturns
<1>3. CASE Reply(s)
  BY <1>0, <1>3, RecordKeepsPumps DEF Reply
<1>4. CASE TurnThrows(s)
  BY <1>0, <1>4, RecordKeepsPumps DEF TurnThrows
<1>5. CASE TimedOut(s)
  BY <1>0, <1>5, RecordKeepsPumps DEF TimedOut
<1>6. CASE Settled(s)
  <2>0. current[s] = NoRun /\ UNCHANGED hub
    BY <1>6 DEF Settled, PumpInv, PumpsExecuteRunning
  <2>1. CASE Queued(s) = {} /\ pump' = [pump EXCEPT ![s] = "idle"] /\ UNCHANGED <<state, current>>
    <3>1. \A t \in Session : pump'[t] = IF t = s THEN "idle" ELSE pump[t]
      BY <2>1 DEF TypeOK
    <3>2. PumpsExecuteRunning'
      BY <2>0, <2>1, <3>1 DEF PumpInv, PumpsExecuteRunning, RunsOf
    <3>3. RowsArePumped'
      BY <2>0, <2>1, <3>1, HubRunAssumption DEF PumpInv, RowsArePumped, Queued, RunsOf
    <3> QED
      BY <3>2, <3>3 DEF PumpInv
  <2>2. CASE ~(Queued(s) = {} /\ pump' = [pump EXCEPT ![s] = "idle"] /\ UNCHANGED <<state, current>>)
    BY <1>6, <2>0, <2>2, TakeKeepsPumps DEF Settled
  <2> QED
    BY <2>1, <2>2
<1>7. CASE PumpBreaks(s)
  <2>1. \A t \in Session : /\ current'[t] = IF t = s THEN NoRun ELSE current[t]
                           /\ pump'[t] = IF t = s THEN "idle" ELSE pump[t]
    BY <1>7 DEF PumpBreaks, TypeOK
  <2>2. hub' = "closed" /\ UNCHANGED state
    BY <1>7 DEF PumpBreaks
  <2>3. PumpsExecuteRunning'
    BY <2>1, <2>2 DEF PumpInv, PumpsExecuteRunning, RunsOf
  <2> QED
    BY <2>2, <2>3 DEF PumpInv, RowsArePumped
<1> QED
  BY <1>1, <1>2, <1>3, <1>4, <1>5, <1>6, <1>7 DEF PumpStep

\* A daemon that dies leaves no pump.
LEMMA DiesKeepsPumps ==
  ASSUME Dies
  PROVE  PumpInv'
BY DEF Dies, PumpInv, PumpsExecuteRunning, RowsArePumped

LEMMA RestartKeepsPumps ==
  ASSUME TypeOK, PumpInv, Restart
  PROVE  PumpInv'
<1> USE HubRunAssumption
<1>1. PICK next \in [Session -> Run \cup {NoRun}] :
        /\ \A s \in Session :
             IF Queued(s) = {} THEN next[s] = NoRun ELSE First(next[s], Queued(s))
        /\ state' = [r \in Run |->
             IF next[SessionOf[r]] = r THEN "running" ELSE recoverOnStartup[r]]
        /\ current' = next
        /\ pump' = [s \in Session |-> IF next[s] = NoRun THEN "idle" ELSE "looking"]
  BY DEF Restart
<1>2. \A s \in Session : next[s] # NoRun =>
        next[s] \in Run /\ SessionOf[next[s]] = s /\ state[next[s]] = "queued"
  BY <1>1 DEF First, Queued, RunsOf
<1>3. \A r \in Run : state[r] = "queued" => next[SessionOf[r]] # NoRun
  BY <1>1 DEF First, Queued, RunsOf
<1>4. PumpsExecuteRunning'
  BY <1>1, <1>2 DEF PumpsExecuteRunning, RunsOf, recoverOnStartup
<1>5. RowsArePumped'
  BY <1>1, <1>2, <1>3 DEF RowsArePumped, recoverOnStartup
<1> QED
  BY <1>4, <1>5 DEF PumpInv

\* Steps that leave the rows and the pumps alone, and do not bring a daemon back.
LEMMA FrameKeepsPumps ==
  ASSUME PumpInv, UNCHANGED <<state, pump, current>>,
         hub' \in {"closed", "down"} \/ hub \notin {"closed", "down"}
  PROVE  PumpInv'
BY DEF PumpInv, PumpsExecuteRunning, RowsArePumped, RunsOf

LEMMA PumpInvStep ==
  ASSUME TypeOK, PumpInv, [Next]_vars
  PROVE  PumpInv'
<1> USE DEF dbVars, hubVars, pumpVars
<1>1. CASE \E r \in Run : Admit(r)
  BY <1>1, AdmitKeepsPumps
<1>2. CASE \E s \in Session : PumpStep(s)
  BY <1>2, PumpStepKeepsPumps
<1>3. CASE HostStep
  <2>1. UNCHANGED <<state, pump, current, hub>>
    BY <1>3 DEF HostStep, DeferredTurn, DetachedEnd, ClientTurn, LoadSession, StopSession
  <2> QED
    BY <2>1, FrameKeepsPumps
<1>4. CASE DaemonStep
  <2>1. CASE HubDrain \/ ShutdownRequested \/ FatalError
    <3>1. UNCHANGED <<state, pump, current, hub>>
      BY <2>1 DEF HubDrain, ShutdownRequested, FatalError
    <3> QED
      BY <3>1, FrameKeepsPumps
  <2>2. CASE StopBegins \/ HostDisposed \/ QueueClosed
    <3>1. UNCHANGED <<state, pump, current>> /\ hub \notin {"closed", "down"}
      BY <2>2 DEF StopBegins, HostDisposed, QueueClosed
    <3> QED
      BY <3>1, FrameKeepsPumps
  <2>3. CASE CleanedUp \/ CleanupFails \/ DeadlineExceeded \/ SecondSignal \/ Crash
    BY <2>3, DiesKeepsPumps DEF CleanedUp, CleanupFails, DeadlineExceeded, SecondSignal, Crash
  <2>4. CASE Restart
    BY <2>4, RestartKeepsPumps
  <2> QED
    BY <1>4, <2>1, <2>2, <2>3, <2>4 DEF DaemonStep
<1>5. CASE UNCHANGED vars
  BY <1>5, FrameKeepsPumps DEF vars
<1> QED
  BY <1>1, <1>2, <1>3, <1>4, <1>5 DEF Next

\* Rows and pumps agree: at most one row of a session is running, its own pump
\* executes it, and no queued row is left without a pump while the queue is open.
THEOREM RunsAreExecutedByPumps == Spec => []PumpInv
<1>1. Init => PumpInv
  BY HubRunAssumption
  DEF Init, PumpInv, PumpsExecuteRunning, RowsArePumped
<1>2. TypeOK /\ PumpInv /\ [Next]_vars => PumpInv'
  BY PumpInvStep
<1> QED
  BY <1>1, <1>2, HubTypeCorrect, PTL DEF Spec

-----------------------------------------------------------------------------
(* What a step does to the rows.  All steps but an admission take queued rows, *)
(* each the first of its session, and end running ones.                        *)

Takes(r) ==
  /\ state[r] = "queued" /\ state'[r] = "running"
  /\ First(r, Queued(SessionOf[r]))
  /\ \A x \in RunsOf(SessionOf[r]) \ {r} : state'[x] # "running"

Ends(r) == state[r] = "running" /\ state'[r] \in Outcome

QueueStep ==
  /\ UNCHANGED <<seq, admitted>>
  /\ \A r \in Run : state'[r] = state[r] \/ Takes(r) \/ Ends(r)

LEMMA RecordIsQueueStep ==
  ASSUME TypeOK, PumpInv, NEW s \in Session, NEW outcome \in Outcome,
         Working(s), Record(s, outcome), UNCHANGED <<seq, admitted>>
  PROVE  QueueStep
<1> USE HubRunAssumption
<1> DEFINE r == current[s]
           done == [state EXCEPT ![r] = outcome]
<1>1. /\ r \in Run /\ SessionOf[r] = s /\ state[r] = "running"
      /\ outcome # "queued" /\ outcome # "running"
  BY DEF Working, PumpInv, PumpsExecuteRunning, RunsOf, Outcome
<1>2. \A x \in Run : done[x] = IF x = r THEN outcome ELSE state[x]
  BY <1>1 DEF TypeOK
<1>3. \A x \in RunsOf(s) \ {r} : state[x] # "running"
  BY DEF Working, Alive, PumpInv, RowsArePumped, RunsOf
<1>4. CASE state' = done
  BY <1>1, <1>2, <1>4 DEF QueueStep, Ends
<1>5. ASSUME NEW q \in Queued(s), First(q, Queued(s)), state' = [done EXCEPT ![q] = "running"]
      PROVE  QueueStep
  <2>1. q \in Run /\ SessionOf[q] = s /\ state[q] = "queued"
    BY DEF Queued, RunsOf
  <2>2. \A x \in Run : state'[x] = IF x = q THEN "running" ELSE done[x]
    BY <1>5, <2>1 DEF TypeOK
  <2> HIDE DEF done, r
  <2>3. Takes(q)
    BY <1>1, <1>2, <1>3, <1>5, <2>1, <2>2 DEF Takes, RunsOf
  <2>4. Ends(r)
    BY <1>1, <1>2, <2>1, <2>2 DEF Ends
  <2> QED
    BY <1>1, <1>2, <2>2, <2>3, <2>4 DEF QueueStep
<1> QED
  BY <1>4, <1>5 DEF Record, markTerminal

LEMMA PumpStepIsQueueStep ==
  ASSUME TypeOK, PumpInv, NEW s \in Session, PumpStep(s)
  PROVE  QueueStep
<1> USE HubRunAssumption DEF hubVars, pumpVars, dbVars
<1>0. "completed" \in Outcome /\ "failed" \in Outcome /\ "aborted" \in Outcome
  BY DEF Outcome
<1>1. CASE UNCHANGED <<state, seq, admitted>>
  BY <1>1 DEF QueueStep
<1>2. CASE SessionLookedUp(s)
  BY <1>0, <1>1, <1>2, RecordIsQueueStep DEF SessionLookedUp
<1>3. CASE TurnReturns(s)
  BY <1>1, <1>3 DEF TurnReturns
<1>4. CASE Reply(s)
  BY <1>0, <1>4, RecordIsQueueStep DEF Reply
<1>5. CASE TurnThrows(s)
  BY <1>0, <1>5, RecordIsQueueStep DEF TurnThrows
<1>6. CASE TimedOut(s)
  BY <1>0, <1>6, RecordIsQueueStep DEF TimedOut
<1>7. CASE Settled(s)
  <2>1. ASSUME NEW q \in Queued(s), First(q, Queued(s)),
               state' = [state EXCEPT ![q] = "running"]
        PROVE  QueueStep
    <3>1. q \in Run /\ SessionOf[q] = s /\ state[q] = "queued"
      BY DEF Queued, RunsOf
    <3>2. \A x \in Run : state'[x] = IF x = q THEN "running" ELSE state[x]
      BY <2>1, <3>1 DEF TypeOK
    <3>3. \A x \in RunsOf(s) : state[x] # "running"
      BY <1>7 DEF Settled, Alive, PumpInv, PumpsExecuteRunning, RowsArePumped, RunsOf
    <3>4. Takes(q)
      BY <2>1, <3>1, <3>2, <3>3 DEF Takes, RunsOf
    <3> QED
      BY <1>7, <3>2, <3>4 DEF Settled, QueueStep
  <2> QED
    BY <1>1, <1>7, <2>1 DEF Settled
<1>8. CASE PumpBreaks(s)
  BY <1>1, <1>8 DEF PumpBreaks
<1> QED
  BY <1>2, <1>3, <1>4, <1>5, <1>6, <1>7, <1>8 DEF PumpStep

LEMMA RestartIsQueueStep ==
  ASSUME TypeOK, Restart
  PROVE  QueueStep
<1> USE HubRunAssumption
<1>1. PICK next \in [Session -> Run \cup {NoRun}] :
        /\ \A s \in Session :
             IF Queued(s) = {} THEN next[s] = NoRun ELSE First(next[s], Queued(s))
        /\ state' = [r \in Run |->
             IF next[SessionOf[r]] = r THEN "running" ELSE recoverOnStartup[r]]
  BY DEF Restart
<1>2. ASSUME NEW r \in Run, state'[r] # state[r]
      PROVE  Takes(r) \/ Ends(r)
  <2>1. CASE state[r] = "running"
    BY <1>1, <2>1 DEF Ends, Outcome, First, Queued, RunsOf, recoverOnStartup
  <2>2. CASE state[r] # "running"
    <3>1. next[SessionOf[r]] = r /\ state'[r] = "running"
      BY <1>1, <1>2, <2>2 DEF recoverOnStartup
    <3>2. First(r, Queued(SessionOf[r])) /\ state[r] = "queued"
      BY <1>1, <3>1 DEF First, Queued, RunsOf
    <3>3. \A x \in RunsOf(SessionOf[r]) \ {r} : state'[x] # "running"
      BY <1>1, <3>1 DEF RunsOf, recoverOnStartup
    <3> QED
      BY <3>1, <3>2, <3>3 DEF Takes
  <2> QED
    BY <2>1, <2>2
<1> QED
  BY <1>2 DEF QueueStep, Restart

LEMMA NextIsQueueStep ==
  ASSUME TypeOK, PumpInv, [Next]_vars
  PROVE  QueueStep \/ \E r \in Run : Admit(r)
<1>0. CASE UNCHANGED <<state, seq, admitted>>
  BY <1>0 DEF QueueStep
<1>1. CASE \E s \in Session : PumpStep(s)
  BY <1>1, PumpStepIsQueueStep
<1>2. CASE HostStep
  BY <1>0, <1>2
  DEF HostStep, DeferredTurn, DetachedEnd, ClientTurn, LoadSession, StopSession, dbVars
<1>3. CASE DaemonStep /\ ~Restart
  BY <1>0, <1>3
  DEF DaemonStep, HubDrain, ShutdownRequested, FatalError, StopBegins, HostDisposed,
      QueueClosed, CleanedUp, CleanupFails, DeadlineExceeded, SecondSignal, Crash, Dies, dbVars
<1>4. CASE Restart
  BY <1>4, RestartIsQueueStep
<1>5. CASE UNCHANGED vars
  BY <1>0, <1>5 DEF vars, dbVars
<1> QED
  BY <1>1, <1>2, <1>3, <1>4, <1>5 DEF Next

LEMMA AdmittedRow ==
  ASSUME TypeOK, PumpInv, NEW r \in Run, Admit(r)
  PROVE  /\ state[r] = "none"
         /\ \A x \in Run \ {r} : state'[x] = state[x] \/ Takes(x)
         /\ state'[r] = "queued" \/
              /\ state'[r] = "running" /\ Queued(SessionOf[r]) = {}
              /\ \A x \in RunsOf(SessionOf[r]) \ {r} : state'[x] # "running"
<1> USE HubRunAssumption
<1> DEFINE s == SessionOf[r]
           rows == [state EXCEPT ![r] = "queued"]
<1>1. s \in Session /\ state[r] = "none" /\ hub = "up"
  BY DEF Admit, Admissible
<1>2. \A x \in Run : rows[x] = IF x = r THEN "queued" ELSE state[x]
  BY DEF TypeOK
<1>3. CASE pump[s] # "idle"
  BY <1>1, <1>2, <1>3 DEF Admit, Accepted
<1>4. CASE pump[s] = "idle"
  <2>1. PICK q \in Queued(s) \cup {r} :
          /\ IF Queued(s) = {} THEN q = r ELSE First(q, Queued(s))
          /\ state' = [rows EXCEPT ![q] = "running"]
    BY <1>4 DEF Admit, Accepted
  <2>2. q \in Run /\ SessionOf[q] = s
    BY DEF Queued, RunsOf
  <2>3. \A x \in Run : state'[x] = IF x = q THEN "running" ELSE rows[x]
    BY <2>1, <2>2 DEF TypeOK
  <2>4. \A x \in RunsOf(s) : state[x] # "running"
    BY <1>1, <1>4 DEF PumpInv, PumpsExecuteRunning, RowsArePumped, RunsOf
  <2> HIDE DEF rows
  <2>5. CASE Queued(s) = {}
    BY <1>1, <1>2, <2>1, <2>3, <2>4, <2>5 DEF RunsOf
  <2>6. CASE Queued(s) # {}
    <3>1. q # r /\ state[q] = "queued" /\ First(q, Queued(s))
      BY <1>1, <2>1, <2>6 DEF First, Queued
    <3>2. Takes(q)
      BY <1>2, <2>2, <2>3, <2>4, <3>1 DEF Takes, RunsOf
    <3> QED
      BY <1>1, <1>2, <2>3, <3>1, <3>2
  <2> QED
    BY <2>5, <2>6
<1> QED
  BY <1>1, <1>3, <1>4

-----------------------------------------------------------------------------

\* Nothing changes the recorded outcome of a run.
THEOREM RunOutcomesAreFinal == Spec => RunOutcomeIsFinal
<1>1. TypeOK /\ PumpInv /\ [Next]_vars
      => [\A r \in Run : state[r] \in Outcome => state'[r] = state[r]]_vars
  <2> SUFFICES ASSUME TypeOK, PumpInv, [Next]_vars, NEW r \in Run, state[r] \in Outcome
               PROVE  state'[r] = state[r]
    OBVIOUS
  <2>1. state[r] \notin {"none", "queued", "running"}
    BY DEF Outcome
  <2>2. CASE QueueStep
    BY <2>1, <2>2 DEF QueueStep, Takes, Ends
  <2>3. ASSUME NEW x \in Run, Admit(x)
        PROVE  state'[r] = state[r]
    BY <2>1, <2>3, AdmittedRow DEF Takes
  <2> QED
    BY <2>2, <2>3, NextIsQueueStep
<1> QED
  BY <1>1, HubTypeCorrect, RunsAreExecutedByPumps, PTL DEF Spec, RunOutcomeIsFinal

\* Sequence numbers are handed out once.
SeqInv == \A r \in Run : seq[r] <= admitted

LEMMA SeqInvStep ==
  ASSUME TypeOK, PumpInv, SeqInv, [Next]_vars
  PROVE  SeqInv'
<1>1. CASE QueueStep
  BY <1>1 DEF QueueStep, SeqInv
<1>2. ASSUME NEW r \in Run, Admit(r)
      PROVE  SeqInv'
  BY <1>2 DEF Admit, Accepted, SeqInv, TypeOK
<1> QED
  BY <1>1, <1>2, NextIsQueueStep

LEMMA PlaceOf ==
  ASSUME TypeOK, NEW r \in Run
  PROVE  /\ Place[r] = "outside" <=> state[r] = "none"
         /\ Place[r] = "waiting" <=> state[r] = "queued"
         /\ Place[r] = "inService" <=> state[r] = "running"
         /\ Place[r] = "served" <=> state[r] \in Outcome
BY DEF TypeOK, Place, Outcome

LEMMA SameState ==
  ASSUME NEW r \in Run, state'[r] = state[r]
  PROVE  Place'[r] = Place[r]
BY DEF Place

LEMMA TakesIsServed ==
  ASSUME TypeOK, TypeOK', UNCHANGED seq \/ \A x \in Run : state[x] # "none" => seq'[x] = seq[x],
         NEW r \in Run, Takes(r)
  PROVE  Fifo!RunStep(r)
<1>1. Place[r] = "waiting" /\ Place'[r] = "inService"
  BY PlaceOf DEF Takes, Place
<1>2. \A x \in Fifo!Line(SessionOf[r]) : seq'[r] <= seq[x]
  BY PlaceOf DEF Fifo!Line, Takes, First, Queued, RunsOf
<1>3. \A x \in Run \ {r} : SessionOf[x] = SessionOf[r] => Place'[x] # "inService"
  <2> SUFFICES ASSUME NEW x \in Run \ {r}, SessionOf[x] = SessionOf[r]
               PROVE  Place'[x] # "inService"
    OBVIOUS
  <2>1. state'[x] # "running"
    BY DEF Takes, RunsOf
  <2> QED
    BY <2>1 DEF Place
<1> QED
  BY <1>1, <1>2, <1>3 DEF Fifo!RunStep, Fifo!Served

LEMMA FifoStep ==
  ASSUME TypeOK, TypeOK', PumpInv, SeqInv, [Next]_vars
  PROVE  Fifo!Next
<1>1. CASE QueueStep
  <2>1. ASSUME NEW r \in Run
        PROVE  Fifo!RunStep(r)
    <3>1. CASE state'[r] = state[r]
      BY <3>1, SameState DEF Fifo!RunStep
    <3>2. CASE Takes(r)
      BY <1>1, <3>2, TakesIsServed DEF QueueStep
    <3>3. CASE Ends(r)
      <4>1. Place[r] = "inService" /\ Place'[r] = "served"
        BY <3>3 DEF Ends, Place, Outcome
      <4> QED
        BY <4>1 DEF Fifo!RunStep
    <3> QED
      BY <1>1, <3>1, <3>2, <3>3 DEF QueueStep
  <2> QED
    BY <1>1, <2>1 DEF Fifo!Next, QueueStep
<1>2. ASSUME NEW r \in Run, Admit(r)
      PROVE  Fifo!Next
  <2>0. /\ seq'[r] = admitted + 1 /\ admitted \in Nat
        /\ \A x \in Run \ {r} : seq'[x] = seq[x]
    BY <1>2 DEF Admit, Accepted, TypeOK
  <2>1. Place[r] = "outside" /\ state[r] = "none"
    BY <1>2, AdmittedRow DEF Place
  <2>2. Fifo!Arrives(r)
    BY <2>0, <2>1 DEF Fifo!Arrives, Fifo!Late, SeqInv, TypeOK
  <2>3. Fifo!RunStep(r)
    <3>1. CASE state'[r] = "queued"
      <4>1. Place'[r] = "waiting"
        BY <3>1 DEF Place
      <4> QED
        BY <2>1, <2>2, <4>1 DEF Fifo!RunStep
    <3>2. CASE /\ state'[r] = "running" /\ Queued(SessionOf[r]) = {}
               /\ \A x \in RunsOf(SessionOf[r]) \ {r} : state'[x] # "running"
      <4>1. Place'[r] = "inService"
        BY <3>2 DEF Place
      <4>2. Fifo!Line(SessionOf[r]) = {}
        BY <3>2, PlaceOf DEF Fifo!Line, Queued, RunsOf
      <4>3. \A x \in Run \ {r} : SessionOf[x] = SessionOf[r] => Place'[x] # "inService"
        BY <3>2 DEF Place, RunsOf
      <4> QED
        BY <2>1, <2>2, <4>1, <4>2, <4>3 DEF Fifo!RunStep, Fifo!Served
    <3> QED
      BY <1>2, <3>1, <3>2, AdmittedRow
  <2>4. ASSUME NEW x \in Run \ {r}
        PROVE  Fifo!RunStep(x)
    <3>1. CASE state'[x] = state[x]
      BY <3>1, SameState DEF Fifo!RunStep
    <3>2. CASE Takes(x)
      BY <2>0, <2>1, <3>2, TakesIsServed
    <3> QED
      BY <1>2, <3>1, <3>2, AdmittedRow
  <2> QED
    BY <2>0, <2>2, <2>3, <2>4 DEF Fifo!Next
<1> QED
  BY <1>1, <1>2, NextIsQueueStep

\* The hub's queue is a first-come first-served service: each session's runs are
\* taken one at a time in the order of their admission, over crashes and stops.
THEOREM RefinesFifo == Spec => FifoSpec
<1>1. Init => Fifo!Init /\ SeqInv
  BY DEF Init, Fifo!Init, Place, SeqInv
<1>2. TypeOK /\ PumpInv /\ SeqInv /\ [Next]_vars => SeqInv'
  BY SeqInvStep
<1>3. TypeOK /\ TypeOK' /\ PumpInv /\ SeqInv /\ [Next]_vars => [Fifo!Next]_<<Place, seq>>
  BY FifoStep
<1> QED
  BY <1>1, <1>2, <1>3, HubTypeCorrect, RunsAreExecutedByPumps, PTL
  DEF Spec, FifoSpec, Fifo!Spec

-----------------------------------------------------------------------------
(* What a first-come first-served service gives. *)

\* Those who have arrived have numbers of their own; whoever is or was in service came
\* before everybody in the line; one of a session is in service.
ServiceInv ==
  /\ \A r \in Run : Place[r] # "outside" => seq[r] > 0
  /\ \A r, x \in Run : r # x /\ seq[r] > 0 => seq[r] # seq[x]
  /\ \A r, x \in Run : SessionOf[r] = SessionOf[x] =>
       /\ Place[r] \in {"inService", "served"} /\ Place[x] = "waiting" => seq[r] < seq[x]
       /\ Place[r] = "inService" /\ Place[x] = "inService" => r = x

\* Who is in service or was, after a step of the service, and who waits then.
LEMMA ServiceMoves ==
  ASSUME seq \in [Run -> Nat], seq' \in [Run -> Nat], Fifo!Next, NEW r \in Run
  PROVE  /\ seq'[r] = seq[r] \/ Fifo!Arrives(r)
         /\ Place'[r] = "waiting" =>
              \/ Place[r] = "waiting"
              \/ Place[r] = "outside" /\ Fifo!Arrives(r)
         /\ Place'[r] = "inService" =>
              \/ Place[r] = "inService"
              \/ Place[r] = "waiting" /\ Fifo!Served(r)
              \/ Place[r] = "outside" /\ Fifo!Arrives(r) /\ Fifo!Served(r)
         /\ Place'[r] = "served" => Place[r] \in {"inService", "served"}
         /\ Place'[r] # "outside" /\ Place[r] = "outside" => Fifo!Arrives(r)
BY DEF Fifo!Next, Fifo!RunStep

LEMMA ServiceStep ==
  ASSUME seq \in [Run -> Nat], seq' \in [Run -> Nat], ServiceInv, Fifo!Next
  PROVE  ServiceInv'
<1>1. ASSUME NEW r \in Run, Fifo!Arrives(r)
      PROVE  /\ seq'[r] > 0 /\ Place[r] = "outside"
             /\ \A x \in Run : seq[x] < seq'[r] /\ (x # r => seq'[x] = seq[x])
  BY <1>1 DEF Fifo!Arrives, Fifo!Late
<1>2. \A r \in Run : seq[r] \in Nat /\ seq'[r] \in Nat
  OBVIOUS
<1>3. \A r \in Run : Place[r] # "outside" => seq'[r] = seq[r]
  BY ServiceMoves, <1>1
<1>4. ASSUME NEW r \in Run, Place'[r] # "outside"
      PROVE  seq'[r] > 0
  BY <1>1, <1>2, <1>3, <1>4, ServiceMoves DEF ServiceInv
<1>5. ASSUME NEW r \in Run, NEW x \in Run, r # x, seq'[r] > 0
      PROVE  seq'[r] # seq'[x]
  <2>1. CASE Fifo!Arrives(r)
    BY <1>1, <1>2, <1>5, <2>1
  <2>2. CASE Fifo!Arrives(x)
    BY <1>1, <1>2, <1>5, <2>2
  <2>3. CASE seq'[r] = seq[r] /\ seq'[x] = seq[x]
    BY <1>5, <2>3 DEF ServiceInv
  <2> QED
    BY <2>1, <2>2, <2>3, ServiceMoves
<1>6. ASSUME NEW r \in Run, NEW x \in Run, SessionOf[r] = SessionOf[x],
             Place'[r] \in {"inService", "served"}, Place'[x] = "waiting"
      PROVE  seq'[r] < seq'[x]
  <2>1. r # x
    BY <1>6
  <2>2. CASE Place[x] = "outside"
    <3>1. Fifo!Arrives(x)
      BY <1>6, <2>2, ServiceMoves
    <3> QED
      BY <1>1, <2>1, <3>1
  <2>3. CASE Place[x] = "waiting"
    <3>1. seq'[x] = seq[x]
      BY <1>3, <2>3
    <3>2. CASE Place[r] \in {"inService", "served"}
      BY <1>3, <1>6, <2>3, <3>1, <3>2 DEF ServiceInv
    <3>3. CASE Fifo!Served(r) /\ Place[r] \in {"waiting", "outside"}
      <4>1. x \in Fifo!Line(SessionOf[r])
        BY <1>6, <2>3 DEF Fifo!Line
      <4>2. seq'[r] <= seq[x]
        BY <3>3, <4>1 DEF Fifo!Served
      <4>3. seq'[r] # seq'[x]
        BY <1>4, <1>5, <1>6, <2>1
      <4> QED
        BY <1>2, <3>1, <4>2, <4>3
    <3> QED
      BY <1>6, <3>2, <3>3, ServiceMoves
  <2> QED
    BY <1>6, <2>2, <2>3, ServiceMoves
<1>7. ASSUME NEW r \in Run, NEW x \in Run, SessionOf[r] = SessionOf[x],
             Place'[r] = "inService", Place'[x] = "inService"
      PROVE  r = x
  <2>1. Fifo!Served(r) => r = x
    BY <1>7 DEF Fifo!Served
  <2>2. Fifo!Served(x) => r = x
    BY <1>7 DEF Fifo!Served
  <2>3. CASE Place[r] = "inService" /\ Place[x] = "inService"
    BY <1>7, <2>3 DEF ServiceInv
  <2> QED
    BY <1>7, <2>1, <2>2, <2>3, ServiceMoves
<1> QED
  BY <1>4, <1>5, <1>6, <1>7 DEF ServiceInv

\* A run that is executed, or has been, was admitted before every run of its session
\* that is still queued; two runs of a session are not executed at once.
RunsAreTakenInOrder ==
  \A r, x \in Run : SessionOf[r] = SessionOf[x] =>
    /\ state[r] \in {"running"} \cup Outcome /\ state[x] = "queued" => seq[r] < seq[x]
    /\ state[r] = "running" /\ state[x] = "running" => r = x

\* No crash, time-out or restart lets a run overtake one that was admitted before it.
THEOREM NoRunOvertakes == Spec => []RunsAreTakenInOrder
<1>1. Init => ServiceInv
  BY DEF Init, ServiceInv, Place
<1>2. TypeOK /\ TypeOK' /\ ServiceInv /\ [Fifo!Next]_<<Place, seq>> => ServiceInv'
  <2> SUFFICES ASSUME TypeOK, TypeOK', ServiceInv, [Fifo!Next]_<<Place, seq>>
               PROVE  ServiceInv'
    OBVIOUS
  <2>1. seq \in [Run -> Nat] /\ seq' \in [Run -> Nat]
    BY DEF TypeOK
  <2>2. CASE Fifo!Next
    BY <2>1, <2>2, ServiceStep
  <2>3. CASE UNCHANGED <<Place, seq>>
    BY <2>3 DEF ServiceInv
  <2> QED
    BY <2>2, <2>3
<1>3. TypeOK /\ ServiceInv => RunsAreTakenInOrder
  BY PlaceOf DEF ServiceInv, RunsAreTakenInOrder
<1> QED
  BY <1>1, <1>2, <1>3, RefinesFifo, HubTypeCorrect, PTL DEF Spec, FifoSpec, Fifo!Spec

-----------------------------------------------------------------------------
(* Turns are begun once. *)

\* The prompt of a run that has not been executed has not reached the host.
TurnInv ==
  /\ \A r \in Run : state[r] \in {"none", "queued"} => turn[r] = "none"
  /\ \A s \in Session :
       /\ pump[s] = "looking" => turn[current[s]] = "none"
       /\ pump[s] \in {"turn", "replying"} => turn[current[s]] # "none"

\* A turn begins when the pump of its session has looked the session up; one that
\* has begun is not begun again.
TurnMove(r) ==
  \/ turn'[r] = turn[r]
  \/ turn[r] # "none" /\ turn'[r] \notin {"none", "awaited"}
  \/ /\ turn[r] = "none" /\ turn'[r] # "none"
     /\ current[SessionOf[r]] = r
     /\ pump[SessionOf[r]] = "looking" /\ pump'[SessionOf[r]] # "looking"

PumpMove(s) ==
  \/ pump'[s] = pump[s] /\ current'[s] = current[s]
  \/ pump'[s] \in {"idle", "settled"}
  \/ pump'[s] = "looking" /\ current'[s] \in Run /\ state[current'[s]] \in {"none", "queued"}
  \/ pump[s] = "looking" /\ current'[s] = current[s] /\ turn'[current[s]] # "none"
     /\ pump'[s] \in {"turn", "replying"}
  \/ pump[s] = "turn" /\ pump'[s] = "replying" /\ current'[s] = current[s]

LEMMA RecordMoves ==
  ASSUME TypeOK, NEW s \in Session, NEW outcome, Record(s, outcome)
  PROVE  \A t \in Session : PumpMove(t)
<1>1. CASE /\ current' = [current EXCEPT ![s] = NoRun]
           /\ pump' = [pump EXCEPT ![s] = "settled"]
  BY <1>1 DEF PumpMove, TypeOK
<1>2. ASSUME NEW q \in Queued(s), current' = [current EXCEPT ![s] = q],
             pump' = [pump EXCEPT ![s] = "looking"]
      PROVE  \A t \in Session : PumpMove(t)
  <2>1. q \in Run /\ state[q] = "queued"
    BY DEF Queued, RunsOf
  <2> QED
    BY <1>2, <2>1 DEF PumpMove, TypeOK
<1> QED
  BY <1>1, <1>2 DEF Record, markTerminal

LEMMA PumpStepMoves ==
  ASSUME TypeOK, PumpInv, TurnInv, NEW s \in Session, PumpStep(s)
  PROVE  (\A r \in Run : TurnMove(r)) /\ (\A t \in Session : PumpMove(t))
<1> USE DEF hostVars, hubVars, pumpVars, dbVars
<1>1. Working(s) => current[s] \in Run /\ SessionOf[current[s]] = s
  BY DEF Working, PumpInv, PumpsExecuteRunning, RunsOf
<1>2. CASE SessionLookedUp(s)
  <2>1. CASE Record(s, "failed") /\ UNCHANGED turn
    BY <2>1, RecordMoves DEF TurnMove
  <2>2. ASSUME NEW next \in {"turn", "replying"}, NEW how \in {"awaited", "deferred"},
               pump' = [pump EXCEPT ![s] = next],
               turn' = [turn EXCEPT ![current[s]] = how], UNCHANGED current
        PROVE  (\A r \in Run : TurnMove(r)) /\ (\A t \in Session : PumpMove(t))
    <3>1. pump[s] = "looking" /\ turn[current[s]] = "none" /\ Working(s)
      BY <1>2 DEF SessionLookedUp, TurnInv
    <3>2. \A r \in Run : turn'[r] = IF r = current[s] THEN how ELSE turn[r]
      BY <2>2 DEF TypeOK
    <3>3. \A t \in Session : pump'[t] = IF t = s THEN next ELSE pump[t]
      BY <2>2 DEF TypeOK
    <3> QED
      BY <1>1, <2>2, <3>1, <3>2, <3>3 DEF TurnMove, PumpMove
  <2> QED
    BY <1>2, <2>1, <2>2 DEF SessionLookedUp
<1>3. CASE TurnReturns(s)
  <2>1. turn[current[s]] # "none" /\ Working(s) /\ pump[s] = "turn"
    BY <1>3 DEF TurnReturns, TurnInv
  <2> QED
    BY <1>1, <1>3, <2>1 DEF TurnReturns, TurnMove, PumpMove, TypeOK
<1>4. CASE Reply(s)
  BY <1>4, RecordMoves DEF Reply, TurnMove
<1>5. CASE TurnThrows(s)
  <2>1. turn[current[s]] # "none" /\ Working(s)
    BY <1>5 DEF TurnThrows, TurnInv
  <2>2. \A r \in Run : TurnMove(r)
    BY <1>1, <1>5, <2>1 DEF TurnThrows, TurnMove, DroppingIn, TypeOK
  <2> QED
    BY <1>5, <2>2, RecordMoves DEF TurnThrows
<1>6. CASE TimedOut(s)
  <2>1. turn[current[s]] # "none" /\ Working(s)
    BY <1>6 DEF TimedOut, TurnInv
  <2>2. \A r \in Run : TurnMove(r)
    BY <1>1, <1>6, <2>1 DEF TimedOut, TurnMove, TypeOK
  <2> QED
    BY <1>6, <2>2, RecordMoves DEF TimedOut
<1>7. CASE Settled(s)
  <2>1. CASE pump' = [pump EXCEPT ![s] = "idle"] /\ UNCHANGED current
    BY <1>7, <2>1 DEF Settled, TurnMove, PumpMove, TypeOK
  <2>2. ASSUME NEW q \in Queued(s), current' = [current EXCEPT ![s] = q],
               pump' = [pump EXCEPT ![s] = "looking"]
        PROVE  (\A r \in Run : TurnMove(r)) /\ (\A t \in Session : PumpMove(t))
    <3>1. q \in Run /\ state[q] = "queued"
      BY DEF Queued, RunsOf
    <3> QED
      BY <1>7, <2>2, <3>1 DEF Settled, TurnMove, PumpMove, TypeOK
  <2> QED
    BY <1>7, <2>1, <2>2 DEF Settled
<1>8. CASE PumpBreaks(s)
  BY <1>8 DEF PumpBreaks, TurnMove, PumpMove, TypeOK
<1> QED
  BY <1>2, <1>3, <1>4, <1>5, <1>6, <1>7, <1>8 DEF PumpStep

LEMMA NextMoves ==
  ASSUME TypeOK, PumpInv, TurnInv, [Next]_vars
  PROVE  (\A r \in Run : TurnMove(r)) /\ (\A t \in Session : PumpMove(t))
<1> USE DEF hostVars, hubVars, pumpVars, dbVars
<1>1. ASSUME NEW r \in Run, Admit(r)
      PROVE  (\A x \in Run : TurnMove(x)) /\ (\A t \in Session : PumpMove(t))
  <2>1. UNCHANGED turn /\ state[r] = "none"
    BY <1>1 DEF Admit, Admissible
  <2>2. CASE UNCHANGED <<pump, current>>
    BY <2>1, <2>2 DEF TurnMove, PumpMove
  <2>3. CASE ~UNCHANGED <<pump, current>>
    <3> DEFINE s == SessionOf[r]
    <3>1. PICK q \in Queued(s) \cup {r} : /\ current' = [current EXCEPT ![s] = q]
                                         /\ pump' = [pump EXCEPT ![s] = "looking"]
      BY <1>1, <2>3 DEF Admit, Accepted
    <3>2. q \in Run /\ state[q] \in {"none", "queued"}
      BY <2>1 DEF Queued, RunsOf
    <3> QED
      BY <2>1, <3>1, <3>2, HubRunAssumption DEF TurnMove, PumpMove, TypeOK
  <2> QED
    BY <2>2, <2>3
<1>2. CASE \E s \in Session : PumpStep(s)
  BY <1>2, PumpStepMoves
<1>3. CASE HostStep
  BY <1>3 DEF HostStep, DeferredTurn, DetachedEnd, ClientTurn, LoadSession, StopSession,
     DroppingIn, TurnMove, PumpMove, TypeOK
<1>4. CASE HubDrain \/ ShutdownRequested \/ FatalError \/ StopBegins \/ QueueClosed
           \/ HostDisposed
  <2>1. UNCHANGED <<pump, current>>
    BY <1>4 DEF HubDrain, ShutdownRequested, FatalError, StopBegins, QueueClosed, HostDisposed
  <2>2. UNCHANGED turn \/ turn' = DroppingIn(Session)
    BY <1>4 DEF HubDrain, ShutdownRequested, FatalError, StopBegins, QueueClosed, HostDisposed
  <2> QED
    BY <2>1, <2>2 DEF DroppingIn, TurnMove, PumpMove, TypeOK
<1>5. CASE Dies
  BY <1>5 DEF Dies, DroppingIn, TurnMove, PumpMove, TypeOK
<1>6. CASE Restart
  <2>1. \A s \in Session : \/ pump'[s] = "idle"
                           \/ /\ pump'[s] = "looking" /\ current'[s] \in Run
                              /\ state[current'[s]] = "queued"
    BY <1>6 DEF Restart, First, Queued, RunsOf
  <2> QED
    BY <1>6, <2>1 DEF Restart, TurnMove, PumpMove
<1>7. CASE UNCHANGED vars
  BY <1>7 DEF vars, TurnMove, PumpMove
<1> QED
  BY <1>1, <1>2, <1>3, <1>4, <1>5, <1>6, <1>7
  DEF Next, DaemonStep, CleanedUp, CleanupFails, DeadlineExceeded, SecondSignal, Crash

LEMMA TurnInvStep ==
  ASSUME TypeOK, TypeOK', PumpInv, PumpInv', TurnInv, [Next]_vars
  PROVE  TurnInv'
<1> USE HubRunAssumption
<1>1. ASSUME NEW r \in Run, state[r] # "running", turn[r] = "none"
      PROVE  turn'[r] = "none"
  <2>1. ~(current[SessionOf[r]] = r /\ pump[SessionOf[r]] = "looking")
    BY <1>1 DEF PumpInv, PumpsExecuteRunning
  <2> QED
    BY <1>1, <2>1, NextMoves DEF TurnMove
<1>2. ASSUME NEW r \in Run, state'[r] \in {"none", "queued"}
      PROVE  turn'[r] = "none"
  <2>1. state[r] \in {"none", "queued"}
    <3>1. CASE QueueStep
      BY <1>2, <3>1 DEF QueueStep, Takes, Ends, Outcome
    <3>2. ASSUME NEW x \in Run, Admit(x)
          PROVE  state[r] \in {"none", "queued"}
      BY <1>2, <3>2, AdmittedRow DEF Takes
    <3> QED
      BY <3>1, <3>2, NextIsQueueStep
  <2> QED
    BY <1>1, <2>1 DEF TurnInv
<1>3. ASSUME NEW s \in Session, pump'[s] = "looking"
      PROVE  turn'[current'[s]] = "none"
  <2>1. CASE pump'[s] = pump[s] /\ current'[s] = current[s]
    <3>1. current[s] \in Run /\ SessionOf[current[s]] = s /\ turn[current[s]] = "none"
      BY <1>3, <2>1 DEF PumpInv, PumpsExecuteRunning, RunsOf, TurnInv, TypeOK
    <3> QED
      BY <1>3, <2>1, <3>1, NextMoves DEF TurnMove
  <2>2. CASE current'[s] \in Run /\ state[current'[s]] \in {"none", "queued"}
    BY <1>1, <2>2 DEF TurnInv
  <2> QED
    BY <1>3, <2>1, <2>2, NextMoves DEF PumpMove
<1>4. ASSUME NEW s \in Session, pump'[s] \in {"turn", "replying"}
      PROVE  turn'[current'[s]] # "none"
  <2>1. CASE pump[s] = "looking" /\ current'[s] = current[s] /\ turn'[current[s]] # "none"
    BY <2>1
  <2>2. CASE pump[s] \in {"turn", "replying"} /\ current'[s] = current[s]
    <3>1. current[s] \in Run /\ turn[current[s]] # "none"
      BY <2>2 DEF PumpInv, PumpsExecuteRunning, RunsOf, TurnInv, TypeOK
    <3> QED
      BY <2>2, <3>1, NextMoves DEF TurnMove
  <2> QED
    BY <1>4, <2>1, <2>2, NextMoves DEF PumpMove
<1> QED
  BY <1>2, <1>3, <1>4 DEF TurnInv

\* No run is begun twice: neither after a crash nor when its turn outlives it.
THEOREM RunsBeginOnce == Spec => TurnsBeginOnce
<1>1. Init => TurnInv
  BY DEF Init, TurnInv
<1>2. TypeOK /\ TypeOK' /\ PumpInv /\ PumpInv' /\ TurnInv /\ [Next]_vars => TurnInv'
  BY TurnInvStep
<1>3. TypeOK /\ PumpInv /\ TurnInv /\ [Next]_vars
      => [\A r \in Run : turn'[r] = "awaited" => turn[r] \in {"none", "awaited"}]_vars
  BY NextMoves DEF TurnMove
<1> QED
  BY <1>1, <1>2, <1>3, HubTypeCorrect, RunsAreExecutedByPumps, PTL
  DEF Spec, TurnsBeginOnce

-----------------------------------------------------------------------------
(* The exit code. *)

\* A fatal error is in the code the daemon will exit with.
ExitInv ==
  fatalShutdownStarted => requestedExitCode = 1 /\ exitCode \in {-1, 1}

LEMMA ExitInvStep ==
  ASSUME TypeOK, ExitInv, [Next]_vars
  PROVE  ExitInv'
<1> USE DEF exitVars, coordinatorVars
<1>0. requestedExitCode \in {0, 1} /\ fatalShutdownStarted \in BOOLEAN
  BY DEF TypeOK, CoordinatorTypeOK, ExitCode
<1>1. CASE UNCHANGED exitVars
  BY <1>1 DEF ExitInv
<1>2. CASE ShutdownRequested
  BY <1>0, <1>2 DEF ShutdownRequested, Request, RaisedTo, ExitInv
<1>3. CASE FatalError
  BY <1>0, <1>3 DEF FatalError, Request, RaisedTo, ExitInv, Alive
<1>4. CASE StopBegins
  BY <1>4 DEF StopBegins, CleanupStarts, ExitInv
<1>5. CASE CleanedUp \/ CleanupFails
  BY <1>0, <1>5 DEF CleanedUp, CleanupFails, CleanupEnds, Dies, ExitInv
<1>6. CASE DeadlineExceeded \/ SecondSignal
  <2>1. /\ fatalShutdownStarted' = fatalShutdownStarted
        /\ ForceExit(requestedExitCode) \/ ForceExit(0)
    BY <1>6 DEF DeadlineExceeded, SecondSignal, Dies
  <2>2. requestedExitCode' = requestedExitCode /\ exitCode' = requestedExitCode
    BY <1>0, <2>1 DEF ForceExit, RaisedTo
  <2> QED
    BY <2>1, <2>2 DEF ExitInv
<1>7. CASE Restart
  BY <1>7 DEF Restart, ExitInv
<1>8. ASSUME NEW s \in Session, PumpBreaks(s)
      PROVE  ExitInv'
  BY <1>0, <1>8 DEF PumpBreaks, Request, RaisedTo, ExitInv, Alive
<1>9. CASE Crash
  BY <1>9 DEF Crash, Dies, ExitInv
<1>10. ASSUME NEW s \in Session, PumpStep(s), ~PumpBreaks(s)
       PROVE  UNCHANGED exitVars
  BY <1>10 DEF PumpStep, SessionLookedUp, TurnReturns, Reply, TurnThrows, TimedOut, Settled
<1>11. CASE HostStep
  BY <1>1, <1>11
  DEF HostStep, DeferredTurn, DetachedEnd, ClientTurn, LoadSession, StopSession
<1>12. CASE HubDrain \/ HostDisposed \/ QueueClosed
  BY <1>1, <1>12 DEF HubDrain, HostDisposed, QueueClosed
<1>13. CASE \E r \in Run : Admit(r)
  BY <1>1, <1>13 DEF Admit, Accepted
<1>14. CASE UNCHANGED vars
  BY <1>1, <1>14 DEF vars
<1> QED
  BY <1>1, <1>2, <1>3, <1>4, <1>5, <1>6, <1>7, <1>8, <1>9, <1>10, <1>11, <1>12, <1>13, <1>14
  DEF Next, DaemonStep

\* A daemon that had a fatal error and did not crash exits with code 1, also when
\* a graceful shutdown had begun before, and whoever ends it.
THEOREM FatalErrorsReachTheExit == Spec => []FatalErrorsShow
<1>1. Init => ExitInv
  BY DEF Init, CoordinatorInit, ExitInv
<1>2. TypeOK /\ ExitInv /\ [Next]_vars => ExitInv'
  BY ExitInvStep
<1>3. ExitInv => FatalErrorsShow
  BY DEF ExitInv, FatalErrorsShow
<1> QED
  BY <1>1, <1>2, <1>3, HubTypeCorrect, PTL DEF Spec

\* What ShutdownIsWatched rests on: only the daemon's own steps, and a pump that
\* breaks, touch the coordinator.
LEMMA WatchStep ==
  ASSUME TypeOK, ShutdownIsWatched, [Next]_vars
  PROVE  ShutdownIsWatched'
<1> USE DEF exitVars, coordinatorVars, hubVars, Alive
<1>1. CASE UNCHANGED <<hub, coordinatorVars>>
  BY <1>1 DEF ShutdownIsWatched
<1>2. ASSUME NEW code \in ExitCode, Alive, Request(code), UNCHANGED hub
      PROVE  ShutdownIsWatched'
  BY <1>2 DEF Request, ShutdownIsWatched
<1>3. CASE ShutdownRequested \/ FatalError
  BY <1>2, <1>3 DEF ShutdownRequested, FatalError, ExitCode
<1>4. CASE StopBegins
  BY <1>4 DEF StopBegins, CleanupStarts, ShutdownIsWatched
<1>5. CASE HostDisposed \/ QueueClosed
  BY <1>5 DEF HostDisposed, QueueClosed, ShutdownIsWatched
<1>6. CASE CleanedUp \/ CleanupFails \/ DeadlineExceeded \/ SecondSignal \/ Crash
  BY <1>6 DEF CleanedUp, CleanupFails, DeadlineExceeded, SecondSignal, Crash, Dies,
              ShutdownIsWatched
<1>7. CASE Restart
  BY <1>7 DEF Restart, CoordinatorRestarts, ShutdownIsWatched
<1>8. ASSUME NEW s \in Session, PumpBreaks(s)
      PROVE  ShutdownIsWatched'
  <2>1. CASE fatalShutdownStarted
    BY <1>1, <1>8, <2>1 DEF PumpBreaks
  <2>2. CASE ~fatalShutdownStarted
    BY <1>2, <1>8, <2>2 DEF PumpBreaks, ExitCode
  <2> QED
    BY <2>1, <2>2
<1>9. ASSUME NEW s \in Session, PumpStep(s), ~PumpBreaks(s)
      PROVE  UNCHANGED <<hub, coordinatorVars>>
  BY <1>9 DEF PumpStep, SessionLookedUp, TurnReturns, Reply, TurnThrows, TimedOut, Settled
<1>10. CASE HostStep
  BY <1>1, <1>10
  DEF HostStep, DeferredTurn, DetachedEnd, ClientTurn, LoadSession, StopSession
<1>11. CASE HubDrain
  BY <1>1, <1>11 DEF HubDrain
<1>12. CASE \E r \in Run : Admit(r)
  BY <1>1, <1>12 DEF Admit, Accepted
<1>13. CASE UNCHANGED vars
  BY <1>1, <1>13 DEF vars
<1> QED
  BY <1>1, <1>3, <1>4, <1>5, <1>6, <1>7, <1>8, <1>9, <1>10, <1>11, <1>12, <1>13
  DEF Next, DaemonStep

\* No cleanup that hangs or fails, no second trigger and no pump that breaks leaves a
\* daemon that shuts down without the timer that ends it.
THEOREM ShutdownsAreWatched == Spec => []ShutdownIsWatched
<1>1. Init => ShutdownIsWatched
  BY DEF Init, CoordinatorInit, ShutdownIsWatched
<1>2. TypeOK /\ ShutdownIsWatched /\ [Next]_vars => ShutdownIsWatched'
  BY WatchStep
<1> QED
  BY <1>1, <1>2, HubTypeCorrect, PTL DEF Spec

(* Rows, pumps, shutdown and types together, for any number of runs.          *)
THEOREM HubIsConsistent == Spec => []HubInv
  BY HubTypeCorrect, RunsAreExecutedByPumps, ShutdownsAreWatched, PTL DEF HubInv

=============================================================================
