--------------------------- MODULE CronQueueProofs ---------------------------
(***************************************************************************)
(* Theorems about the cron run queue, for every number of runners, runs,   *)
(* specs and attempts and every limit.                                     *)
(***************************************************************************)
EXTENDS CronQueue, FiniteSetTheorems, WellFoundedInduction, TLAPS

(* completeRun only moves a row to an outcome and clears its claim.         *)
LEMMA CompleteRunType ==
  ASSUME TypeOK, NEW e \in Exec, NEW o \in Terminal, CompleteRun(e, o)
  PROVE  /\ status' \in [Run -> Status]
         /\ token' \in [Run -> 0 .. MaxAttempts]
         /\ left' \in [Run -> 0 .. Lease]
<1>1. e[1] \in Run
  BY DEF Exec
<1>2. CASE Holds(e)
  <2>1. status' = [status EXCEPT ![e[1]] = o] /\ o \in Status
    BY <1>2 DEF CompleteRun, Status
  <2>2. token' = [token EXCEPT ![e[1]] = 0] /\ 0 \in 0 .. MaxAttempts
    BY <1>2, BoundAssumption DEF CompleteRun
  <2>3. left' = [left EXCEPT ![e[1]] = 0] /\ 0 \in 0 .. Lease
    BY <1>2, BoundAssumption DEF CompleteRun
  <2> QED
    BY <1>1, <2>1, <2>2, <2>3 DEF TypeOK
<1>3. CASE ~Holds(e)
  BY <1>3 DEF CompleteRun, TypeOK
<1> QED
  BY <1>2, <1>3

(* The finally block ends the executor and forgets the run's registration.  *)
LEMMA LeaveType ==
  ASSUME TypeOK, NEW e \in Exec, Leave(e)
  PROVE  /\ phase' \in [Exec -> Phase]
         /\ heartbeat' \subseteq Exec
         /\ active' \in [Runner -> [Run -> 0 .. MaxAttempts]]
<1>1. "gone" \in Phase /\ 0 \in 0 .. MaxAttempts /\ e[1] \in Run
  BY BoundAssumption DEF Phase, Exec
<1>2. phase' \in [Exec -> Phase] /\ heartbeat' \subseteq Exec
  BY <1>1 DEF TypeOK, Leave
<1>3. active' = [active EXCEPT ![owner[e]] = [active[owner[e]] EXCEPT ![e[1]] = 0]]
  BY DEF Leave
<1>4. active' \in [Runner -> [Run -> 0 .. MaxAttempts]]
  BY <1>1, <1>3 DEF TypeOK
<1> QED
  BY <1>2, <1>4

(* Type correctness: every store write and every executor step keeps the   *)
(* rows, the activeRuns maps and the executors in their domains.           *)
THEOREM TypeCorrect == Spec => []TypeOK
<1> USE BoundAssumption, LimitAssumption, SpecAssumption, RunAssumption, RunnerAssumption
<1> USE DEF TypeOK, dbVars, runnerVars, execVars, Status, Terminal, Phase,
            Unfinished, Working, Exec, Attempt, Down
<1>1. Init => TypeOK
  BY DEF Init
<1>2. TypeOK /\ [Next]_vars => TypeOK'
  <2> SUFFICES ASSUME TypeOK, [Next]_vars PROVE TypeOK'
    OBVIOUS
  <2>1. CASE UNCHANGED vars
    BY <2>1 DEF vars
  <2>2. CASE Tick
    BY <2>2 DEF Tick
  <2>3. ASSUME NEW r \in Run, NEW w \in 0 .. MaxWait, Enqueue(r, w) PROVE TypeOK'
    BY <2>3 DEF Enqueue
  <2>4. ASSUME NEW s \in SpecId, SpecStep(s) PROVE TypeOK'
    <3>1. CASE Toggle(s)
      BY <3>1 DEF Toggle
    <3>2. CASE MarkSpecRemoved(s)
      BY <3>2 DEF MarkSpecRemoved
    <3>3. CASE CancelQueuedRunsForSpec(s)
      BY <3>3 DEF CancelQueuedRunsForSpec
    <3>4. CASE DeletionCutShort(s)
      BY <3>4 DEF DeletionCutShort
    <3> QED
      BY <2>4, <3>1, <3>2, <3>3, <3>4 DEF SpecStep
  <2>5. ASSUME NEW p \in Runner, RunnerStep(p) PROVE TypeOK'
    <3>1. CASE PollRenew(p)
      BY <3>1 DEF PollRenew, Aborted
    <3>2. CASE PollClaim(p)
      <4>1. PICK C \in SUBSET Run : ClaimBatch(C) /\ TakeBatch(p, C)
        BY <3>2 DEF PollClaim
      <4>2. \A r \in C : attempts[r] + 1 \in 1 .. MaxAttempts
        <5>1. \A r \in C : r \in Run /\ attempts[r] < MaxAttempts
          BY <4>1 DEF ClaimBatch, Claimable
        <5> QED
          BY <5>1
      <4>3. status' \in [Run -> Status] /\ attempts' \in [Run -> 0 .. MaxAttempts]
        BY <4>1, <4>2 DEF TakeBatch
      <4>4. token' \in [Run -> 0 .. MaxAttempts] /\ left' \in [Run -> 0 .. Lease]
        BY <4>1, <4>2 DEF TakeBatch
      <4>5. active' \in [Runner -> [Run -> 0 .. MaxAttempts]]
        BY <4>1, <4>2 DEF TakeBatch
      <4>6. owner' \in [Exec -> Runner \cup {Nobody}] /\ phase' \in [Exec -> Phase]
        BY <4>1, <4>2 DEF TakeBatch
      <4>7. heartbeat' \subseteq Exec
        BY <4>1, <4>2 DEF TakeBatch
      <4> QED
        BY <3>2, <4>3, <4>4, <4>5, <4>6, <4>7 DEF PollClaim
    <3>3. CASE Stop(p)
      BY <3>3 DEF Stop, Aborted
    <3>4. CASE Stopped(p)
      BY <3>4 DEF Stopped
    <3>5. CASE Crash(p)
      BY <3>5 DEF Crash
    <3>6. CASE Start(p)
      BY <3>6 DEF Start
    <3> QED
      BY <2>5, <3>1, <3>2, <3>3, <3>4, <3>5, <3>6 DEF RunnerStep
  <2>6. ASSUME NEW e \in Exec, ExecStep(e) PROVE TypeOK'
    <3>1. CASE Heartbeat(e)
      BY <3>1 DEF Heartbeat, Aborted
    <3>2. CASE Timeout(e)
      BY <3>2 DEF Timeout
    <3>3. CASE Prepared(e)
      BY <3>3 DEF Prepared
    <3>4. CASE StartFailed(e)
      <4>1. CompleteRun(e, "failed") /\ Leave(e)
        BY <3>4 DEF StartFailed
      <4>2. /\ status' \in [Run -> Status]
            /\ token' \in [Run -> 0 .. MaxAttempts]
            /\ left' \in [Run -> 0 .. Lease]
        BY <4>1, CompleteRunType
      <4>3. /\ phase' \in [Exec -> Phase]
            /\ heartbeat' \subseteq Exec
            /\ active' \in [Runner -> [Run -> 0 .. MaxAttempts]]
        BY <4>1, LeaveType
      <4> QED
        BY <3>4, <4>2, <4>3 DEF StartFailed
    <3>5. CASE SessionStarted(e)
      <4>1. session' \in [Exec -> {"none", "opening", "open", "released"}]
        BY <3>5 DEF SessionStarted
      <4>2. phase' \in [Exec -> Phase] /\ abort' \in [Exec -> {"no", "cancelled", "timeout"}]
        BY <3>5 DEF SessionStarted
      <4>3. active' = [active EXCEPT ![owner[e]] = [active[owner[e]] EXCEPT ![e[1]] = e[2]]]
        BY <3>5 DEF SessionStarted
      <4>4. active' \in [Runner -> [Run -> 0 .. MaxAttempts]]
        <5>1. e[1] \in Run /\ e[2] \in 0 .. MaxAttempts
          OBVIOUS
        <5> QED
          BY <4>3, <5>1
      <4> QED
        BY <3>5, <4>1, <4>2, <4>4 DEF SessionStarted
    <3>6. CASE LateSession(e)
      BY <3>6 DEF LateSession
    <3>7. CASE TurnEnded(e)
      <4>1. PICK o \in {"done", "failed"} : CompleteRun(e, o)
        BY <3>7 DEF TurnEnded
      <4> QED
        BY <3>7, <4>1, CompleteRunType DEF TurnEnded
    <3>8. CASE Closed(e)
      BY <3>8, LeaveType DEF Closed
    <3>9. CASE Unwind(e)
      <4>1. AbortOutcome(e) \in Terminal
        BY DEF AbortOutcome
      <4>2. CASE session[e] = "open"
        BY <3>9, <4>2 DEF Unwind
      <4>3. CASE session[e] # "open"
        BY <3>9, <4>1, <4>3, CompleteRunType, LeaveType DEF Unwind
      <4> QED
        BY <4>2, <4>3
    <3>10. CASE AbortCleaned(e)
      <4>1. AbortOutcome(e) \in Terminal
        BY DEF AbortOutcome
      <4> QED
        BY <3>10, <4>1, CompleteRunType, LeaveType DEF AbortCleaned
    <3> QED
      BY <2>6, <3>1, <3>2, <3>3, <3>4, <3>5, <3>6, <3>7, <3>8, <3>9, <3>10
         DEF ExecStep, Progress
  <2> QED
    BY <2>1, <2>2, <2>3, <2>4, <2>5, <2>6 DEF Next
<1> QED
  BY <1>1, <1>2, PTL DEF Spec

-----------------------------------------------------------------------------

(* Tokens are attempt numbers, so an executor that holds its row is the one *)
(* the row names.                                                           *)
LEMMA HolderIsNamed ==
  ASSUME TypeOK, NEW e \in Exec, Holds(e)
  PROVE  /\ e[1] \in Run /\ token[e[1]] # 0
         /\ e = <<e[1], token[e[1]]>>
BY BoundAssumption DEF Holds, Exec, Attempt

(* completeRun by an executor keeps the claim invariant for every row, if   *)
(* the executor leaves its working phases in the same step.                 *)
LEMMA CompleteRunKeepsClaims ==
  ASSUME TypeOK, ClaimInv, NEW e \in Exec, NEW o \in Terminal,
         CompleteRun(e, o), UNCHANGED <<attempts, owner>>,
         \A x \in Exec : x # e => phase'[x] = phase[x]
  PROVE  ClaimInv'
<1> SUFFICES ASSUME NEW r \in Run
             PROVE  /\ status'[r] = "running" <=> token'[r] # 0
                    /\ left'[r] > 0 => token'[r] # 0
                    /\ token'[r] # 0 =>
                         /\ token'[r] = attempts'[r]
                         /\ owner'[<<r, token'[r]>>] # Nobody
                         /\ phase'[<<r, token'[r]>>] \in Working \cup {"aborting", "crashed"}
  BY DEF ClaimInv
<1>1. CASE Holds(e) /\ r = e[1]
  BY <1>1, BoundAssumption DEF CompleteRun, TypeOK, Terminal
<1>2. CASE ~(Holds(e) /\ r = e[1])
  <2>1. status'[r] = status[r] /\ token'[r] = token[r] /\ left'[r] = left[r]
    BY <1>2 DEF CompleteRun, TypeOK
  <2>2. token[r] # 0 => <<r, token[r]>> \in Exec /\ <<r, token[r]>> # e
    BY <1>2 DEF Holds, TypeOK, Exec, Attempt
  <2> QED
    BY <2>1, <2>2 DEF ClaimInv
<1> QED
  BY <1>1, <1>2

AtWork == Working \cup {"aborting", "crashed"}

(* A step that writes no row but for its lease, and takes no executor out of *)
(* the phases in which it may hold one, keeps the claim invariant.           *)
LEMMA FrameKeepsClaims ==
  ASSUME TypeOK, ClaimInv, UNCHANGED <<status, token, attempts, owner>>,
         \A r \in Run : left'[r] > 0 => left[r] > 0 \/ token[r] # 0,
         \A x \in Exec : phase[x] \in AtWork => phase'[x] \in AtWork
  PROVE  ClaimInv'
<1>1. \A r \in Run : token[r] # 0 => <<r, token[r]>> \in Exec
  BY DEF TypeOK, Exec, Attempt
<1> QED
  BY <1>1 DEF ClaimInv, AtWork

(* The claim invariant holds initially and every step keeps it. *)
LEMMA ClaimInvInit == Init => ClaimInv
BY DEF Init, ClaimInv

LEMMA ClaimInvStep ==
  ASSUME TypeOK, ClaimInv, [Next]_vars
  PROVE  ClaimInv'
<1> USE DEF dbVars, runnerVars, execVars
<1>1. CASE UNCHANGED vars
  BY <1>1, FrameKeepsClaims DEF vars
<1>2. CASE Tick
  <2>1. \A r \in Run : left'[r] > 0 => left[r] > 0
    BY <1>2, BoundAssumption DEF Tick, Down, TypeOK
  <2> QED
    BY <1>2, <2>1, FrameKeepsClaims DEF Tick
<1>3. ASSUME NEW r \in Run, NEW w \in 0 .. MaxWait, Enqueue(r, w) PROVE ClaimInv'
  BY <1>3 DEF Enqueue, ClaimInv, TypeOK
<1>4. ASSUME NEW s \in SpecId, SpecStep(s) PROVE ClaimInv'
  <2>1. CASE Toggle(s) \/ MarkSpecRemoved(s) \/ DeletionCutShort(s)
    BY <2>1, FrameKeepsClaims DEF Toggle, MarkSpecRemoved, DeletionCutShort
  <2>2. CASE CancelQueuedRunsForSpec(s)
    BY <2>2 DEF CancelQueuedRunsForSpec, ClaimInv, TypeOK
  <2> QED
    BY <1>4, <2>1, <2>2 DEF SpecStep
<1>5. ASSUME NEW p \in Runner, RunnerStep(p) PROVE ClaimInv'
  <2>1. CASE PollRenew(p)
    <3>1. \A r \in Run : left'[r] > 0 => left[r] > 0 \/ token[r] # 0
      BY <2>1 DEF PollRenew
    <3> QED
      BY <2>1, <3>1, FrameKeepsClaims DEF PollRenew
  <2>2. CASE PollClaim(p)
    <3>1. PICK C \in SUBSET Run : ClaimBatch(C) /\ TakeBatch(p, C)
      BY <2>2 DEF PollClaim
    <3>2. \A r \in C : attempts[r] \in Nat /\ attempts[r] < MaxAttempts
      <4>1. \A r \in C : r \in Run /\ attempts[r] < MaxAttempts
        BY <3>1 DEF ClaimBatch, Claimable
      <4> QED
        BY <4>1, BoundAssumption DEF TypeOK
    <3> DEFINE starts == {r \in C : specState[SpecOf[r]] = "on"}
               begun == {<<r, attempts[r] + 1>> : r \in starts}
    <3> SUFFICES ASSUME NEW r \in Run
                 PROVE  /\ status'[r] = "running" <=> token'[r] # 0
                        /\ left'[r] > 0 => token'[r] # 0
                        /\ token'[r] # 0 =>
                             /\ token'[r] = attempts'[r]
                             /\ owner'[<<r, token'[r]>>] # Nobody
                             /\ phase'[<<r, token'[r]>>] \in AtWork
      BY DEF ClaimInv, AtWork
    <3>3. CASE r \in starts
      <4>1. <<r, attempts[r] + 1>> \in begun /\ <<r, attempts[r] + 1>> \in Exec
        BY <3>2, <3>3, BoundAssumption DEF Exec, Attempt
      <4>2. /\ owner'[<<r, attempts[r] + 1>>] = p
            /\ phase'[<<r, attempts[r] + 1>>] = "preparing"
        BY <3>1, <4>1 DEF TakeBatch
      <4>3. /\ status'[r] = "running" /\ token'[r] = attempts[r] + 1
            /\ attempts'[r] = attempts[r] + 1 /\ attempts[r] + 1 # 0
        BY <3>1, <3>2, <3>3 DEF TakeBatch
      <4> QED
        BY <4>2, <4>3, RunnerAssumption DEF AtWork, Working
    <3>4. CASE r \in C \ starts
      BY <3>1, <3>4 DEF TakeBatch
    <3>5. CASE r \notin C
      <4>1. /\ status'[r] = status[r] /\ token'[r] = token[r]
            /\ left'[r] = left[r] /\ attempts'[r] = attempts[r]
        BY <3>1, <3>5 DEF TakeBatch
      <4>2. ASSUME token[r] # 0
            PROVE  /\ owner'[<<r, token[r]>>] = owner[<<r, token[r]>>]
                   /\ phase'[<<r, token[r]>>] = phase[<<r, token[r]>>]
        <5>1. <<r, token[r]>> \in Exec /\ <<r, token[r]>> \notin begun
          BY <3>5, <4>2 DEF TypeOK, Exec, Attempt
        <5> QED
          BY <3>1, <5>1 DEF TakeBatch
      <4> QED
        BY <4>1, <4>2 DEF ClaimInv, AtWork
    <3> QED
      BY <3>3, <3>4, <3>5
  <2>3. CASE Stop(p) \/ Stopped(p) \/ Start(p)
    BY <2>3, FrameKeepsClaims DEF Stop, Stopped, Start
  <2>4. CASE Crash(p)
    <3>1. \A x \in Exec : phase[x] \in AtWork => phase'[x] \in AtWork
      BY <2>4 DEF Crash, AtWork
    <3> QED
      BY <2>4, <3>1, FrameKeepsClaims DEF Crash
  <2> QED
    BY <1>5, <2>1, <2>2, <2>3, <2>4 DEF RunnerStep
<1>6. ASSUME NEW e \in Exec, ExecStep(e) PROVE ClaimInv'
  <2>1. CASE Heartbeat(e)
    <3>1. \A r \in Run : left'[r] > 0 => left[r] > 0 \/ token[r] # 0
      BY <2>1, HolderIsNamed DEF Heartbeat, TypeOK
    <3> QED
      BY <2>1, <3>1, FrameKeepsClaims DEF Heartbeat
  <2>2. CASE Timeout(e) \/ LateSession(e)
    BY <2>2, FrameKeepsClaims DEF Timeout, LateSession
  <2>3. CASE Prepared(e)
    <3>1. \A x \in Exec : phase[x] \in AtWork => phase'[x] \in AtWork
      BY <2>3 DEF Prepared, AtWork, Working, TypeOK
    <3> QED
      BY <2>3, <3>1, FrameKeepsClaims DEF Prepared
  <2>4. CASE SessionStarted(e)
    <3>1. \A x \in Exec : phase[x] \in AtWork => phase'[x] \in AtWork
      BY <2>4 DEF SessionStarted, AtWork, Working, TypeOK
    <3> QED
      BY <2>4, <3>1, FrameKeepsClaims DEF SessionStarted
  <2>5. CASE StartFailed(e)
    <3>1. CompleteRun(e, "failed") /\ UNCHANGED <<attempts, owner>>
      BY <2>5 DEF StartFailed
    <3>2. \A x \in Exec : x # e => phase'[x] = phase[x]
      BY <2>5 DEF StartFailed, Leave, TypeOK
    <3> QED
      BY <3>1, <3>2, CompleteRunKeepsClaims DEF Terminal
  <2>6. CASE TurnEnded(e)
    <3>1. PICK o \in {"done", "failed"} : CompleteRun(e, o)
      BY <2>6 DEF TurnEnded
    <3>2. /\ UNCHANGED <<attempts, owner>>
          /\ \A x \in Exec : x # e => phase'[x] = phase[x]
      BY <2>6 DEF TurnEnded, TypeOK
    <3> QED
      BY <3>1, <3>2, CompleteRunKeepsClaims DEF Terminal
  <2>7. CASE Closed(e)
    <3>1. \A x \in Exec : phase[x] \in AtWork => phase'[x] \in AtWork
      BY <2>7 DEF Closed, Leave, AtWork, Working, TypeOK
    <3> QED
      BY <2>7, <3>1, FrameKeepsClaims DEF Closed, Leave
  <2>8. CASE Unwind(e)
    <3>1. CASE session[e] = "open"
      <4>1. \A x \in Exec : phase[x] \in AtWork => phase'[x] \in AtWork
        BY <2>8, <3>1 DEF Unwind, AtWork, TypeOK
      <4> QED
        BY <2>8, <3>1, <4>1, FrameKeepsClaims DEF Unwind
    <3>2. CASE session[e] # "open"
      <4>1. /\ CompleteRun(e, AbortOutcome(e)) /\ AbortOutcome(e) \in Terminal
            /\ UNCHANGED <<attempts, owner>>
        BY <2>8, <3>2 DEF Unwind, AbortOutcome, Terminal
      <4>2. \A x \in Exec : x # e => phase'[x] = phase[x]
        BY <2>8, <3>2 DEF Unwind, Leave, TypeOK
      <4> QED
        BY <4>1, <4>2, CompleteRunKeepsClaims
    <3> QED
      BY <3>1, <3>2
  <2>9. CASE AbortCleaned(e)
    <3>1. /\ CompleteRun(e, AbortOutcome(e)) /\ AbortOutcome(e) \in Terminal
          /\ UNCHANGED <<attempts, owner>>
      BY <2>9 DEF AbortCleaned, AbortOutcome, Terminal
    <3>2. \A x \in Exec : x # e => phase'[x] = phase[x]
      BY <2>9 DEF AbortCleaned, Leave, TypeOK
    <3> QED
      BY <3>1, <3>2, CompleteRunKeepsClaims
  <2> QED
    BY <1>6, <2>1, <2>2, <2>3, <2>4, <2>5, <2>6, <2>7, <2>8, <2>9
       DEF ExecStep, Progress
<1> QED
  BY <1>1, <1>2, <1>3, <1>4, <1>5, <1>6 DEF Next

(* The row names a claim exactly while it runs, its youngest, and the       *)
(* executor of that claim is at work unless its process crashed             *)
(* (claimDueRuns, renewClaim, completeRun and executeClaim together).       *)
THEOREM ClaimsAreOwned == Spec => []ClaimInv
<1>1. Init => ClaimInv
  BY ClaimInvInit
<1>2. TypeOK /\ ClaimInv /\ [Next]_vars => ClaimInv'
  BY ClaimInvStep
<1> QED
  BY <1>1, <1>2, TypeCorrect, PTL DEF Spec

-----------------------------------------------------------------------------

(* Both together: what the run CronQueue checks of rows and executors on a  *)
(* small instance holds for any number of runners, runs and faults.         *)
THEOREM QueueIsConsistent == Spec => []QueueInv
  BY TypeCorrect, ClaimsAreOwned, PTL DEF QueueInv

(* completeRun, by whatever executor, writes only a row that is running and *)
(* claimed.                                                                 *)
LEMMA CompleteRunWritesRunning ==
  ASSUME TypeOK, ClaimInv, NEW e \in Exec, NEW o \in Terminal,
         CompleteRun(e, o), NEW r \in Run
  PROVE  \/ status'[r] = status[r]
         \/ status[r] = "running" /\ status'[r] = o
<1>1. CASE Holds(e)
  <2>1. e[1] \in Run /\ token[e[1]] # 0
    BY <1>1, HolderIsNamed
  <2>2. status' = [status EXCEPT ![e[1]] = o]
    BY <1>1 DEF CompleteRun
  <2> QED
    BY <2>1, <2>2 DEF ClaimInv, TypeOK
<1>2. CASE ~Holds(e)
  BY <1>2 DEF CompleteRun
<1> QED
  BY <1>1, <1>2

(* Every step is, for every row, a step of the ledger. *)
LEMMA StepsAreLedgerSteps ==
  ASSUME TypeOK, ClaimInv, [Next]_vars, NEW r \in Run
  PROVE  Ledger!RowStep(r)
<1> USE DEF dbVars, Ledger!RowStep, Ledger!Becomes, Ledger!ClaimedAs, Ledger!Outcome
<1>1. CASE UNCHANGED <<status, attempts>>
  BY <1>1
<1>2. ASSUME NEW x \in Run, NEW w \in 0 .. MaxWait, Enqueue(x, w)
      PROVE  Ledger!RowStep(r)
  BY <1>2 DEF Enqueue, TypeOK
<1>3. ASSUME NEW s \in SpecId, CancelQueuedRunsForSpec(s) PROVE Ledger!RowStep(r)
  BY <1>3 DEF CancelQueuedRunsForSpec
<1>4. ASSUME NEW p \in Runner, PollClaim(p) PROVE Ledger!RowStep(r)
  <2>1. PICK C \in SUBSET Run : ClaimBatch(C) /\ TakeBatch(p, C)
    BY <1>4 DEF PollClaim
  <2>2. r \in C => status[r] \in {"queued", "running"}
    BY <2>1 DEF ClaimBatch, Claimable
  <2> QED
    BY <2>1, <2>2 DEF TakeBatch
<1>5. ASSUME NEW e \in Exec, ExecStep(e), ~UNCHANGED <<status, attempts>>
      PROVE  Ledger!RowStep(r)
  <2>1. PICK o \in Terminal : CompleteRun(e, o)
    BY <1>5 DEF ExecStep, Progress, Heartbeat, Timeout, Prepared, SessionStarted,
                LateSession, Closed, StartFailed, TurnEnded, Unwind, AbortCleaned,
                AbortOutcome, Terminal
  <2>2. attempts' = attempts
    BY <1>5 DEF ExecStep, Progress, Heartbeat, Timeout, Prepared, SessionStarted,
                LateSession, Closed, StartFailed, TurnEnded, Unwind, AbortCleaned
  <2> QED
    BY <2>1, <2>2, CompleteRunWritesRunning DEF Terminal
<1> QED
  BY <1>1, <1>2, <1>3, <1>4, <1>5
     DEF Next, vars, Tick, SpecStep, Toggle, MarkSpecRemoved, DeletionCutShort,
         RunnerStep, PollRenew, Stop, Stopped, Crash, Start

(* The queue implements the ledger: queued once, claimed any number of      *)
(* times before it has an outcome, one outcome, never touched after that.   *)
THEOREM RefinesLedger == Spec => LedgerSpec
<1>1. Init => Ledger!Init
  BY DEF Init, Ledger!Init
<1>2. TypeOK /\ ClaimInv /\ [Next]_vars => [Ledger!Next]_<<status, attempts>>
  BY StepsAreLedgerSteps DEF Ledger!Next
<1> QED
  BY <1>1, <1>2, TypeCorrect, ClaimsAreOwned, PTL DEF Spec, LedgerSpec, Ledger!Spec

(* No late, superseded or aborted executor, and no later claim, changes a   *)
(* row that has its outcome (completeRun's token check, claimDueRuns).      *)
THEOREM OutcomesAreFinal == Spec => OutcomeIsFinal
<1>1. TypeOK /\ ClaimInv /\ [Next]_vars
        => [\A r \in Run : status[r] \in Terminal => status'[r] = status[r]]_vars
  <2> SUFFICES ASSUME TypeOK, ClaimInv, [Next]_vars,
                      NEW r \in Run, status[r] \in Terminal
               PROVE  status'[r] = status[r]
    OBVIOUS
  <2> QED
    BY StepsAreLedgerSteps
       DEF Ledger!RowStep, Ledger!Becomes, Ledger!ClaimedAs, Terminal
<1> QED
  BY <1>1, TypeCorrect, ClaimsAreOwned, PTL DEF Spec, OutcomeIsFinal

(* completeRun writes a row only for the executor that holds its claim.      *)
LEMMA CompleteRunEndsOwnClaim ==
  ASSUME TypeOK, ClaimInv, NEW e \in Exec, NEW o \in Terminal, CompleteRun(e, o),
         NEW r \in Run, token'[r] # token[r]
  PROVE  e = <<r, token[r]>> /\ token'[r] = 0 /\ status'[r] = o
<1>1. CASE Holds(e)
  <2>1. token' = [token EXCEPT ![e[1]] = 0] /\ status' = [status EXCEPT ![e[1]] = o]
    BY <1>1 DEF CompleteRun
  <2>2. e[1] \in Run /\ e = <<e[1], e[2]>>
    BY DEF Exec
  <2>3. r = e[1] /\ token'[r] = 0 /\ status'[r] = o
    BY <2>1, <2>2 DEF TypeOK
  <2> QED
    BY <1>1, <2>2, <2>3 DEF Holds
<1>2. CASE ~Holds(e)
  BY <1>2 DEF CompleteRun
<1> QED
  BY <1>1, <1>2

LEMMA ClaimEnds ==
  ASSUME TypeOK, ClaimInv, [Next]_vars, NEW r \in Run, token[r] # 0, token'[r] # token[r]
  PROVE  \/ /\ phase[<<r, token[r]>>] \in Unfinished
            /\ phase'[<<r, token[r]>>] \in {"closing", "gone"}
            /\ token'[r] = 0 /\ status'[r] \in Terminal
         \/ left[r] = 0 /\ attempts'[r] = attempts[r] + 1
<1>1. ASSUME NEW p \in Runner, PollClaim(p)
      PROVE  left[r] = 0 /\ attempts'[r] = attempts[r] + 1
  <2>1. PICK C \in SUBSET Run : ClaimBatch(C) /\ TakeBatch(p, C)
    BY <1>1 DEF PollClaim
  <2>2. r \in C /\ attempts'[r] = attempts[r] + 1
    BY <2>1 DEF TakeBatch
  <2>3. Claimable(r)
    BY <2>1, <2>2 DEF ClaimBatch
  <2>4. status[r] = "running"
    BY DEF ClaimInv
  <2> QED
    BY <2>2, <2>3, <2>4 DEF Claimable
<1>2. ASSUME NEW e \in Exec, ExecStep(e)
      PROVE  /\ phase[<<r, token[r]>>] \in Unfinished
             /\ phase'[<<r, token[r]>>] \in {"closing", "gone"}
             /\ token'[r] = 0 /\ status'[r] \in Terminal
  <2>1. /\ \E o \in Terminal : CompleteRun(e, o)
        /\ phase[e] \in Unfinished
        /\ phase' = [phase EXCEPT ![e] = "gone"] \/ phase' = [phase EXCEPT ![e] = "closing"]
    <3> USE DEF dbVars, Terminal, AbortOutcome, Unfinished, Working, Leave, At
    <3>1. ~(Heartbeat(e) \/ Timeout(e) \/ Prepared(e) \/ SessionStarted(e)
            \/ LateSession(e) \/ Closed(e))
      BY DEF Heartbeat, Timeout, Prepared, SessionStarted, LateSession, Closed
    <3>2. CASE StartFailed(e)
      BY <3>2 DEF StartFailed
    <3>3. CASE TurnEnded(e)
      BY <3>3 DEF TurnEnded
    <3>4. CASE Unwind(e)
      BY <3>4 DEF Unwind, Unwinding
    <3>5. CASE AbortCleaned(e)
      BY <3>5 DEF AbortCleaned
    <3> QED
      BY <1>2, <3>1, <3>2, <3>3, <3>4, <3>5 DEF ExecStep, Progress
  <2>2. e = <<r, token[r]>> /\ token'[r] = 0 /\ status'[r] \in Terminal
    BY <2>1, CompleteRunEndsOwnClaim
  <2>3. phase'[e] \in {"closing", "gone"}
    BY <2>1 DEF TypeOK
  <2> QED
    BY <2>1, <2>2, <2>3
<1>3. CASE UNCHANGED token
  BY <1>3
<1> QED
  BY <1>1, <1>2, <1>3
     DEF Next, vars, dbVars, Tick, Enqueue, SpecStep, Toggle, MarkSpecRemoved,
         CancelQueuedRunsForSpec, DeletionCutShort,
         RunnerStep, PollRenew, Stop, Stopped, Crash, Start

(* A claim ends with the outcome its own executor records, or is taken over *)
(* once its lease has run out.                                              *)
THEOREM LeasesProtectClaims == Spec => ClaimsEndWithHolderOrLease
<1>1. TypeOK /\ ClaimInv /\ [Next]_vars
        => [\A r \in Run : token[r] # 0 /\ token'[r] # token[r] =>
             \/ /\ phase[<<r, token[r]>>] \in Unfinished
                /\ phase'[<<r, token[r]>>] \in {"closing", "gone"}
                /\ token'[r] = 0 /\ status'[r] \in Terminal
             \/ left[r] = 0 /\ attempts'[r] = attempts[r] + 1]_vars
  BY ClaimEnds
<1> QED
  BY <1>1, TypeCorrect, ClaimsAreOwned, PTL DEF Spec, ClaimsEndWithHolderOrLease

-----------------------------------------------------------------------------

(* Which steps change where an executor is, and how. *)
LEMMA PhaseSteps ==
  ASSUME TypeOK, [Next]_vars, NEW e \in Exec, phase'[e] # phase[e]
  PROVE  \/ /\ phase'[e] = "preparing"
            /\ \E p \in Runner : ticking[p] /\ owner'[e] = p /\ UNCHANGED proc
         \/ /\ phase[e] \in Unfinished /\ phase'[e] # "preparing"
            /\ UNCHANGED <<owner>>
<1> USE DEF dbVars, runnerVars, execVars
<1>1. ASSUME NEW p \in Runner, PollClaim(p)
      PROVE  phase'[e] = "preparing" /\ ticking[p] /\ owner'[e] = p /\ UNCHANGED proc
  <2>1. PICK C \in SUBSET Run : TakeBatch(p, C)
    BY <1>1 DEF PollClaim
  <2> QED
    BY <1>1, <2>1 DEF TakeBatch, PollClaim
<1>2. ASSUME NEW p \in Runner, RunnerStep(p), ~PollClaim(p)
      PROVE  phase[e] \in Unfinished /\ phase'[e] # "preparing" /\ UNCHANGED owner
  BY <1>2 DEF RunnerStep, PollRenew, Stop, Stopped, Crash, Start
<1>3. ASSUME NEW x \in Exec, ExecStep(x)
      PROVE  phase[e] \in Unfinished /\ phase'[e] # "preparing" /\ UNCHANGED owner
  <2>1. UNCHANGED owner
    BY <1>3 DEF ExecStep, Progress, Heartbeat, Timeout, Prepared, StartFailed, SessionStarted,
                LateSession, TurnEnded, Closed, Unwind, AbortCleaned
  <2>2. /\ phase[x] \in Unfinished
        /\ \E q \in Phase \ {"preparing"} : phase' = [phase EXCEPT ![x] = q]
    BY <1>3 DEF ExecStep, Progress, Heartbeat, Timeout, Prepared, StartFailed, SessionStarted,
                LateSession, TurnEnded, Closed, Unwind, AbortCleaned, Leave, At, Unwinding,
                Unfinished, Working, Phase
  <2> QED
    BY <2>1, <2>2 DEF TypeOK
<1> QED
  BY <1>1, <1>2, <1>3
     DEF Next, vars, Tick, Enqueue, SpecStep, Toggle, MarkSpecRemoved, CancelQueuedRunsForSpec,
         DeletionCutShort

LEMMA OwnerSteps ==
  ASSUME TypeOK, [Next]_vars, NEW e \in Exec, owner'[e] # owner[e]
  PROVE  \E p \in Runner : ticking[p] /\ owner'[e] = p /\ UNCHANGED proc
<1> USE DEF dbVars, runnerVars, execVars
<1>1. ASSUME NEW p \in Runner, PollClaim(p)
      PROVE  ticking[p] /\ owner'[e] = p /\ UNCHANGED proc
  <2>1. PICK C \in SUBSET Run : TakeBatch(p, C)
    BY <1>1 DEF PollClaim
  <2> QED
    BY <1>1, <2>1 DEF TakeBatch, PollClaim
<1>2. ASSUME NEW x \in Exec, ExecStep(x)
      PROVE  FALSE
  BY <1>2 DEF ExecStep, Progress, Heartbeat, Timeout, Prepared, StartFailed, SessionStarted,
              LateSession, TurnEnded, Closed, Unwind, AbortCleaned
<1> QED
  BY <1>1, <1>2
     DEF Next, vars, Tick, Enqueue, SpecStep, Toggle, MarkSpecRemoved, CancelQueuedRunsForSpec,
         DeletionCutShort, RunnerStep, PollRenew, Stop, Stopped, Crash, Start

(* A runner that does not poll has nothing synchronous under way, and one   *)
(* that has stopped or crashed has no execution left.                       *)
RunnerInv ==
  \A p \in Runner :
    /\ proc[p] # "up" => ~ticking[p]
    /\ proc[p] \in {"stopped", "down"} =>
         \A e \in Exec : owner[e] = p => phase[e] \notin Unfinished

LEMMA RunnerInvStep ==
  ASSUME TypeOK, RunnerInv, [Next]_vars
  PROVE  RunnerInv'
<1> USE DEF dbVars, runnerVars, execVars
<1> SUFFICES ASSUME NEW p \in Runner
             PROVE  /\ proc'[p] # "up" => ~ticking'[p]
                    /\ proc'[p] \in {"stopped", "down"} =>
                         \A e \in Exec : owner'[e] = p => phase'[e] \notin Unfinished
  BY DEF RunnerInv
<1>1. proc'[p] # "up" => ~ticking'[p]
  <2>1. ASSUME NEW q \in Runner, RunnerStep(q)
        PROVE  proc'[p] # "up" => ~ticking'[p]
    BY <2>1 DEF RunnerStep, PollRenew, PollClaim, Stop, Stopped, Crash, Start, RunnerInv, TypeOK,
                Idle
  <2>2. ASSUME NEW x \in Exec, ExecStep(x)
        PROVE  UNCHANGED <<proc, ticking>>
    BY <2>2 DEF ExecStep, Progress, Heartbeat, Timeout, Prepared, StartFailed, SessionStarted,
                LateSession, TurnEnded, Closed, Unwind, AbortCleaned
  <2> QED
    BY <2>1, <2>2
       DEF Next, vars, Tick, Enqueue, SpecStep, Toggle, MarkSpecRemoved,
           CancelQueuedRunsForSpec, DeletionCutShort, RunnerInv
<1>2. ASSUME proc'[p] \in {"stopped", "down"}, NEW e \in Exec, owner'[e] = p
      PROVE  phase'[e] \notin Unfinished
  <2>1. CASE proc'[p] = proc[p]
    <3>1. CASE phase'[e] = phase[e]
      <4>1. CASE owner'[e] = owner[e]
        BY <1>2, <2>1, <3>1, <4>1 DEF RunnerInv
      <4>2. CASE owner'[e] # owner[e]
        BY <1>2, <2>1, <4>2, OwnerSteps DEF RunnerInv, TypeOK
      <4> QED BY <4>1, <4>2
    <3>2. CASE phase'[e] # phase[e]
      BY <1>2, <2>1, <3>2, PhaseSteps DEF RunnerInv, TypeOK
    <3> QED BY <3>1, <3>2
  <2>2. CASE proc'[p] # proc[p]
    <3>1. Stopped(p) \/ Crash(p)
      <4>1. \A x \in Exec : ExecStep(x) => UNCHANGED proc
        BY DEF ExecStep, Progress, Heartbeat, Timeout, Prepared, StartFailed, SessionStarted,
               LateSession, TurnEnded, Closed, Unwind, AbortCleaned
      <4> QED
        BY <1>2, <2>2, <4>1
           DEF Next, vars, Tick, Enqueue, SpecStep, Toggle, MarkSpecRemoved, RunnerStep,
               CancelQueuedRunsForSpec, DeletionCutShort, PollRenew, PollClaim, Stop, Start,
               Stopped, Crash, TypeOK
    <3> QED
      BY <1>2, <3>1 DEF Stopped, Crash, TypeOK, Unfinished, Working
  <2> QED BY <2>1, <2>2
<1> QED
  BY <1>1, <1>2

(* stop(), once it has resolved, leaves no run claimed by what it was       *)
(* executing: it waits for every execution, and each settles its row        *)
(* (CronRunner.stop, executeClaim).                                         *)
THEOREM StopsLeaveNoClaim == Spec => []StopLeavesNoClaim
<1>1. Init => RunnerInv
  BY DEF Init, RunnerInv, Unfinished, Working
<1>2. TypeOK /\ ClaimInv /\ RunnerInv => StopLeavesNoClaim
  <2> SUFFICES ASSUME TypeOK, ClaimInv, RunnerInv, NEW p \in Runner, NEW r \in Run,
                      proc[p] = "stopped", token[r] # 0, owner[<<r, token[r]>>] = p
               PROVE  phase[<<r, token[r]>>] = "crashed"
    BY DEF StopLeavesNoClaim
  <2>1. <<r, token[r]>> \in Exec
    BY DEF TypeOK, Exec, Attempt
  <2> QED
    BY <2>1 DEF ClaimInv, RunnerInv, Unfinished
<1> QED
  BY <1>1, <1>2, RunnerInvStep, TypeCorrect, ClaimsAreOwned, PTL DEF Spec

LEMMA LeaksStep ==
  ASSUME TypeOK, NoLeakedSession, [Next]_vars
  PROVE  NoLeakedSession'
<1> USE DEF dbVars, runnerVars, execVars
<1> SUFFICES ASSUME NEW e \in Exec, phase'[e] \in {"gone", "crashed"}
             PROVE  /\ session'[e] # "open"
                    /\ session'[e] = "opening" => abort'[e] # "no"
  BY DEF NoLeakedSession
<1>1. CASE UNCHANGED <<phase, session>> /\ (abort[e] # "no" => abort'[e] # "no")
  BY <1>1 DEF NoLeakedSession
<1>2. ASSUME NEW p \in Runner, RunnerStep(p)
      PROVE  /\ session'[e] # "open"
             /\ session'[e] = "opening" => abort'[e] # "no"
  <2>1. CASE PollRenew(p) \/ Stop(p) \/ Stopped(p) \/ Start(p)
    BY <1>1, <2>1 DEF PollRenew, Stop, Stopped, Start, Aborted
  <2>2. CASE PollClaim(p)
    <3>1. PICK C \in SUBSET Run : TakeBatch(p, C)
      BY <2>2 DEF PollClaim
    <3>2. phase'[e] = phase[e]
      BY <3>1 DEF TakeBatch
    <3> QED
      BY <2>2, <3>2 DEF PollClaim, NoLeakedSession
  <2>3. CASE Crash(p)
    <3>1. CASE owner[e] = p
      BY <2>3, <3>1 DEF Crash, NoLeakedSession
    <3>2. CASE owner[e] # p
      BY <2>3, <3>2 DEF Crash, NoLeakedSession
    <3> QED
      BY <3>1, <3>2
  <2> QED
    BY <1>2, <2>1, <2>2, <2>3 DEF RunnerStep
<1>3. ASSUME NEW x \in Exec, ExecStep(x)
      PROVE  /\ session'[e] # "open"
             /\ session'[e] = "opening" => abort'[e] # "no"
  <2>1. CASE Heartbeat(x) \/ Timeout(x)
    BY <1>1, <2>1 DEF Heartbeat, Timeout, Aborted, TypeOK
  <2>2. CASE Prepared(x)
    BY <2>2 DEF Prepared, NoLeakedSession, TypeOK
  <2>3. CASE StartFailed(x) \/ Closed(x) \/ AbortCleaned(x)
    BY <2>3 DEF StartFailed, Closed, AbortCleaned, Leave, NoLeakedSession, TypeOK
  <2>4. CASE SessionStarted(x)
    BY <2>4 DEF SessionStarted, At, NoLeakedSession, TypeOK
  <2>5. CASE LateSession(x)
    BY <2>5 DEF LateSession, NoLeakedSession, TypeOK
  <2>6. CASE TurnEnded(x)
    BY <2>6 DEF TurnEnded, NoLeakedSession, TypeOK
  <2>7. CASE Unwind(x)
    BY <2>7 DEF Unwind, Unwinding, Leave, NoLeakedSession, TypeOK
  <2> QED
    BY <1>3, <2>1, <2>2, <2>3, <2>4, <2>5, <2>6, <2>7 DEF ExecStep, Progress
<1> QED
  BY <1>1, <1>2, <1>3
     DEF Next, vars, Tick, Enqueue, SpecStep, Toggle, MarkSpecRemoved, CancelQueuedRunsForSpec,
         DeletionCutShort

(* No executor leaves a session behind, whenever it is aborted              *)
(* (executeClaim's finally block, startSession answering late).             *)
THEOREM SessionsAreNotLeaked == Spec => []NoLeakedSession
<1>1. Init => NoLeakedSession
  BY DEF Init, NoLeakedSession
<1> QED
  BY <1>1, LeaksStep, TypeCorrect, PTL DEF Spec

(* A turn begins for the claim the row names at that moment (the token      *)
(* check of attachSessionIdToRun).                                          *)
THEOREM HoldersBeginTurns == Spec => TurnsAreBegunByTheHolder
<1>1. TypeOK /\ [Next]_vars =>
        [\A e \in Exec : phase[e] # "turn" /\ phase'[e] = "turn" =>
           token'[e[1]] = e[2] /\ abort'[e] = "no"]_vars
  <2> SUFFICES ASSUME TypeOK, [Next]_vars, NEW e \in Exec, phase[e] # "turn",
                      phase'[e] = "turn"
               PROVE  token'[e[1]] = e[2] /\ abort'[e] = "no"
    OBVIOUS
  <2> USE DEF dbVars, runnerVars, execVars
  <2>1. ASSUME NEW p \in Runner, RunnerStep(p) PROVE FALSE
    BY <2>1 DEF RunnerStep, PollRenew, PollClaim, TakeBatch, Stop, Stopped, Crash, Start
  <2>2. ASSUME NEW x \in Exec, ExecStep(x) PROVE SessionStarted(x) /\ x = e
    BY <2>2 DEF ExecStep, Progress, Heartbeat, Timeout, Prepared, StartFailed, SessionStarted,
                LateSession, TurnEnded, Closed, Unwind, AbortCleaned, Leave, TypeOK
  <2>3. SessionStarted(e) => token'[e[1]] = e[2] /\ abort'[e] = "no"
    BY DEF SessionStarted, At, Holds, TypeOK
  <2> QED
    BY <2>1, <2>2, <2>3
       DEF Next, vars, Tick, Enqueue, SpecStep, Toggle, MarkSpecRemoved,
           CancelQueuedRunsForSpec, DeletionCutShort
<1> QED
  BY <1>1, TypeCorrect, PTL DEF Spec, TurnsAreBegunByTheHolder

(* Turns and outcomes belong to the holder of the claim, which keeps it as   *)
(* long as its lease lasts, for any number of runners, runs and faults.      *)
THEOREM ClaimsExclude == Spec => ClaimsAreExclusive
  BY HoldersBeginTurns, LeasesProtectClaims DEF ClaimsAreExclusive

-----------------------------------------------------------------------------
(* The limits of a claim.  What one transaction takes is given by a formula *)
(* about all of it (ClaimBatch); the argument looks at the row taken last,  *)
(* of the batch and of the spec.                                            *)

(* A finite set of ranks that is not empty has a last one: the one after    *)
(* which the fewest follow.                                                 *)
LEMMA LastOne ==
  ASSUME NEW C, IsFiniteSet(C), C \subseteq Nat, C # {}
  PROVE  \E l \in C : \A x \in C : x <= l
<1> DEFINE after(l) == {x \in C : l < x}
           T == {after(l) : l \in C}
           R == StrictSubsetOrdering(C)
<1>1. \A l \in C : after(l) \in SUBSET C /\ IsFiniteSet(after(l))
  <2> TAKE l \in C
  <2>1. after(l) \in SUBSET C
    OBVIOUS
  <2> HIDE DEF after
  <2> QED
    BY <2>1, FS_Subset
<1>2. T \subseteq FiniteSubsetsOf(C) /\ T # {}
  <2> HIDE DEF after
  <2> QED
    BY <1>1 DEF FiniteSubsetsOf
<1>3. PICK m \in T : \A y \in T : <<y, m>> \notin R
  <2> HIDE DEF T, R
  <2>1. IsWellFoundedOn(R, FiniteSubsetsOf(C))
    BY FS_StrictSubsetOrderingWellFounded DEF R
  <2> QED
    BY <1>2, <2>1, WFMin
<1>4. PICK l \in C : m = after(l)
  OBVIOUS
<1>5. ASSUME NEW x \in C, l < x PROVE FALSE
  <2>1. l \in Nat /\ x \in Nat
    OBVIOUS
  <2>2. \A z \in C : x < z => l < z
    <3> TAKE z \in C
    <3>1. z \in Nat
      OBVIOUS
    <3> QED
      BY <1>5, <2>1, <3>1
  <2>3. after(x) \subseteq after(l)
    BY <2>2, Zenon
  <2>4. x \in after(l) /\ x \notin after(x)
    BY <1>5, <2>1
  <2>5. after(x) \in T
    OBVIOUS
  <2> HIDE DEF after, T
  <2>6. <<after(x), m>> \in R
    BY <1>1, <1>4, <2>3, <2>4 DEF StrictSubsetOrdering
  <2> QED
    BY <1>3, <2>5, <2>6
<1> QED
  <2>1. \A x \in C : x \in Nat /\ l \in Nat
    OBVIOUS
  <2> QED
    BY <1>5, <2>1

(* The rows that count against the limits, and the rows of a batch, are      *)
(* finitely many and different.                                              *)
LEMMA BatchIsFinite ==
  ASSUME TypeOK, NEW C \in SUBSET Run, ClaimBatch(C)
  PROVE  /\ IsFiniteSet(Live) /\ IsFiniteSet(C) /\ C \cap Live = {}
         /\ Cardinality(Live) \in Nat /\ Cardinality(C) \in Nat
         /\ IsFiniteSet(Live \cup C)
         /\ Cardinality(Live \cup C) = Cardinality(Live) + Cardinality(C)
<1>1. Live \subseteq Run /\ IsFiniteSet(Live) /\ IsFiniteSet(C)
  BY RunAssumption, FS_Subset DEF Live
<1>2. C \cap Live = {}
  <2>1. \A x \in C : Claimable(x)
    BY DEF ClaimBatch
  <2> QED
    BY <2>1 DEF Claimable, Live
<1>3. Live \cap C = {} /\ Cardinality(Live \cap C) = 0
  BY <1>2, FS_EmptySet
<1>4. Cardinality(Live) \in Nat /\ Cardinality(C) \in Nat
  BY <1>1, FS_CardinalityType
<1>5. /\ IsFiniteSet(Live \cup C)
      /\ Cardinality(Live \cup C) = Cardinality(Live) + Cardinality(C) - Cardinality(Live \cap C)
  BY <1>1, FS_Union
<1> QED
  BY <1>1, <1>2, <1>3, <1>4, <1>5

(* A batch keeps within the three limits, the row taken last included.       *)
LEMMA BatchFits ==
  ASSUME TypeOK, NEW C \in SUBSET Run, ClaimBatch(C), NEW r \in C
  PROVE  /\ Cardinality(C) <= ClaimLimit
         /\ Cardinality(Live \cup C) <= Capacity
         /\ Cardinality((Live \cup C) \cap RunsOf(SpecOf[r])) <= MaxParallel[SpecOf[r]]
<1> DEFINE before(l) == {x \in C : x < l}
           s == SpecOf[r]
           D == C \cap RunsOf(s)
<1>1. /\ IsFiniteSet(Live) /\ IsFiniteSet(C)
      /\ Cardinality(Live) \in Nat /\ Cardinality(C) \in Nat
      /\ Cardinality(Live \cup C) = Cardinality(Live) + Cardinality(C)
  BY BatchIsFinite
<1>2. C \subseteq Nat /\ D \subseteq Nat /\ s \in SpecId
  BY RunAssumption, SpecAssumption
<1>3. ClaimLimit \in Nat /\ Capacity \in Nat /\ MaxParallel[s] \in Nat
  BY <1>2, LimitAssumption
<1>4. \A l \in C : /\ Cardinality(before(l)) < ClaimLimit
                   /\ Cardinality(Live) + Cardinality(before(l)) < Capacity
                   /\ Cardinality((Live \cup before(l)) \cap RunsOf(SpecOf[l]))
                        < MaxParallel[SpecOf[l]]
  BY DEF ClaimBatch
<1>5. \A l \in C : IsFiniteSet(before(l)) /\ Cardinality(before(l)) \in Nat /\ l \notin before(l)
  <2> TAKE l \in C
  <2>1. before(l) \subseteq C /\ l \notin before(l)
    BY <1>2
  <2> HIDE DEF before
  <2> QED
    BY <1>1, <2>1, FS_Subset, FS_CardinalityType
<1>6. Cardinality(C) <= ClaimLimit /\ Cardinality(Live \cup C) <= Capacity
  <2>1. PICK l \in C : \A x \in C : x <= l
    BY <1>1, <1>2, LastOne
  <2>2. C = before(l) \cup {l}
    <3>1. \A x \in C : x \in before(l) \/ x = l
      <4> TAKE x \in C
      <4>1. x \in Nat /\ l \in Nat /\ x <= l
        BY <1>2, <2>1
      <4> QED
        BY <4>1
    <3> QED
      BY <3>1
  <2> HIDE DEF before
  <2>3. Cardinality(C) = Cardinality(before(l)) + 1
    BY <1>5, <2>2, FS_AddElement
  <2>4. Cardinality(before(l)) < ClaimLimit /\ Cardinality(Live) + Cardinality(before(l)) < Capacity
    BY <1>4
  <2> QED
    BY <1>1, <1>3, <1>5, <2>3, <2>4
<1>7. Cardinality((Live \cup C) \cap RunsOf(s)) <= MaxParallel[s]
  <2>1. r \in D /\ IsFiniteSet(D) /\ \A d \in D : d \in C /\ SpecOf[d] = s
    BY <1>1, FS_Subset DEF RunsOf
  <2>2. PICK d \in D : \A x \in D : x <= d
    <3> HIDE DEF D
    <3> QED
      BY <1>2, <2>1, LastOne
  <2> DEFINE held == (Live \cup before(d)) \cap RunsOf(s)
  <2>3. (Live \cup C) \cap RunsOf(s) = held \cup {d}
    <3>1. \A x \in D : x \in before(d) \/ x = d
      <4> TAKE x \in D
      <4>1. x \in Nat /\ d \in Nat /\ x <= d /\ x \in C
        BY <1>2, <2>2
      <4> QED
        BY <4>1
    <3>2. before(d) \subseteq C
      OBVIOUS
    <3> HIDE DEF before
    <3> QED
      BY <3>1, <3>2
  <2>4. IsFiniteSet(held) /\ Cardinality(held) \in Nat
    <3>1. held \subseteq Live \cup C
      OBVIOUS
    <3> HIDE DEF held
    <3> QED
      BY <3>1, BatchIsFinite, FS_Subset, FS_CardinalityType
  <2>5. Cardinality(held) < MaxParallel[s]
    BY <1>4, <2>1
  <2> HIDE DEF held
  <2>6. Cardinality(held \cup {d}) <= Cardinality(held) + 1
    <3>1. CASE d \in held
      <4>1. Cardinality(held \cup {d}) = Cardinality(held)
        BY <2>4, <3>1, FS_AddElement
      <4> QED
        BY <2>4, <4>1
    <3>2. CASE d \notin held
      <4>1. Cardinality(held \cup {d}) = Cardinality(held) + 1
        BY <2>4, <3>2, FS_AddElement
      <4> QED
        BY <2>4, <4>1
    <3> QED
      BY <3>1, <3>2
  <2>7. Cardinality(held \cup {d}) \in Nat
    BY <2>4, FS_AddElement, FS_CardinalityType
  <2> QED
    BY <1>3, <2>3, <2>4, <2>5, <2>6, <2>7
<1> QED
  BY <1>6, <1>7

(* A batch adds no more to the live rows than it takes.                      *)
LEMMA BatchIsLive ==
  ASSUME TypeOK, NEW p \in Runner, NEW C \in SUBSET Run, ClaimBatch(C), TakeBatch(p, C)
  PROVE  /\ Live' \subseteq Live \cup C
         /\ \A r \in Run : /\ attempts'[r] > attempts[r] <=> r \in C
                           /\ token'[r] > token[r] => r \in C
<1>1. \A r \in Run : attempts[r] \in Nat /\ token[r] \in Nat
  BY BoundAssumption DEF TypeOK
<1>2. \A r \in Run : r \notin C => /\ status'[r] = status[r] /\ left'[r] = left[r]
                                   /\ token'[r] = token[r] /\ attempts'[r] = attempts[r]
  BY DEF TakeBatch
<1>3. \A r \in C : attempts'[r] = attempts[r] + 1
  BY DEF TakeBatch
<1>4. Live' \subseteq Live \cup C
  BY <1>2 DEF Live
<1> QED
  BY <1>1, <1>2, <1>3, <1>4

(* Only a claim gives a row a higher token: completeRun clears it.           *)
LEMMA TokensRise ==
  ASSUME TypeOK, [Next]_vars, NEW r \in Run, token'[r] > token[r]
  PROVE  \E p \in Runner : PollClaim(p)
<1> USE DEF dbVars, runnerVars, execVars
<1>1. token[r] \in Nat
  BY BoundAssumption DEF TypeOK
<1>2. token'[r] # token[r]
  BY <1>1
<1>3. ASSUME NEW e \in Exec, ExecStep(e) PROVE FALSE
  <2>1. token' # token
    BY <1>2
  <2>2. PICK o \in Terminal : CompleteRun(e, o)
    BY <1>3, <2>1 DEF ExecStep, Progress, Heartbeat, Timeout, Prepared, SessionStarted,
                LateSession, Closed, StartFailed, TurnEnded, Unwind, AbortCleaned,
                AbortOutcome, Terminal
  <2>3. token' = [token EXCEPT ![e[1]] = 0]
    BY <2>1, <2>2 DEF CompleteRun
  <2>4. token'[r] = 0
    BY <1>2, <2>3 DEF TypeOK
  <2> QED
    BY <1>1, <2>4
<1> QED
  BY <1>2, <1>3
     DEF Next, vars, Tick, Enqueue, SpecStep, Toggle, MarkSpecRemoved, CancelQueuedRunsForSpec,
         DeletionCutShort, RunnerStep, PollRenew, Stop, Stopped, Crash, Start

(* No claim takes the database over the global concurrency, nor the spec     *)
(* over its max_parallel, however many rows one transaction takes            *)
(* (claimDueRuns).                                                           *)
THEOREM LimitsAreRespected == Spec => ClaimsRespectLimits
<1>1. TypeOK /\ [Next]_vars =>
        [\A r \in Run : token'[r] > token[r] =>
           /\ Cardinality(Live') <= Capacity
           /\ Cardinality((Live \cap RunsOf(SpecOf[r]))') <= MaxParallel[SpecOf[r]]]_vars
  <2> SUFFICES ASSUME TypeOK, [Next]_vars, NEW r \in Run, token'[r] > token[r]
               PROVE  /\ Cardinality(Live') <= Capacity
                      /\ Cardinality((Live \cap RunsOf(SpecOf[r]))') <= MaxParallel[SpecOf[r]]
    OBVIOUS
  <2>1. PICK p \in Runner : PollClaim(p)
    BY TokensRise
  <2>2. PICK C \in SUBSET Run : ClaimBatch(C) /\ TakeBatch(p, C)
    BY <2>1 DEF PollClaim
  <2>3. r \in C /\ Live' \subseteq Live \cup C
    BY <2>2, BatchIsLive
  <2>4. PICK live : live = Live'
    OBVIOUS
  <2> DEFINE own == RunsOf(SpecOf[r])
  <2>5. (Live \cap RunsOf(SpecOf[r]))' = live \cap own
    BY <2>4 DEF RunsOf
  <2>6. /\ IsFiniteSet(Live \cup C) /\ Cardinality(Live \cup C) \in Nat
        /\ IsFiniteSet((Live \cup C) \cap own)
        /\ Cardinality((Live \cup C) \cap own) \in Nat
    BY <2>2, BatchIsFinite, FS_Intersection, FS_CardinalityType
  <2>7. /\ Cardinality(Live \cup C) <= Capacity
        /\ Cardinality((Live \cup C) \cap own) <= MaxParallel[SpecOf[r]]
    BY <2>2, <2>3, BatchFits
  <2> HIDE DEF own
  <2>8. live \subseteq Live \cup C /\ live \cap own \subseteq (Live \cup C) \cap own
    BY <2>3, <2>4
  <2>9. /\ Cardinality(live) <= Cardinality(Live \cup C) /\ Cardinality(live) \in Nat
        /\ Cardinality(live \cap own) <= Cardinality((Live \cup C) \cap own)
        /\ Cardinality(live \cap own) \in Nat
    BY <2>6, <2>8, FS_Subset, FS_CardinalityType
  <2>10. Capacity \in Nat /\ MaxParallel[SpecOf[r]] \in Nat
    BY SpecAssumption, LimitAssumption
  <2> QED
    BY <2>4, <2>5, <2>6, <2>7, <2>9, <2>10
<1> QED
  BY <1>1, TypeCorrect, PTL DEF Spec, ClaimsRespectLimits

(* A row that is due and not in the batch was kept out by a limit that the   *)
(* whole batch has reached.                                                  *)
LEMMA LeftOutForRoom ==
  ASSUME TypeOK, NEW C \in SUBSET Run, ClaimBatch(C), NEW r \in Run \ C, Claimable(r)
  PROVE  \/ Cardinality(C) = ClaimLimit
         \/ Cardinality(Live \cup C) >= Capacity
         \/ Cardinality((Live \cup C) \cap RunsOf(SpecOf[r])) >= MaxParallel[SpecOf[r]]
<1> DEFINE before == {x \in C : x < r}
           own == RunsOf(SpecOf[r])
<1>1. /\ IsFiniteSet(Live) /\ IsFiniteSet(C) /\ IsFiniteSet(Live \cup C)
      /\ Cardinality(Live) \in Nat /\ Cardinality(C) \in Nat
      /\ Cardinality(Live \cup C) = Cardinality(Live) + Cardinality(C)
  BY BatchIsFinite
<1>2. ClaimLimit \in Nat \ {0} /\ Capacity \in Nat /\ MaxParallel[SpecOf[r]] \in Nat
  BY SpecAssumption, LimitAssumption
<1>3. \/ ~(Cardinality(before) < ClaimLimit)
      \/ ~(Cardinality(Live) + Cardinality(before) < Capacity)
      \/ ~(Cardinality((Live \cup before) \cap own) < MaxParallel[SpecOf[r]])
  BY DEF ClaimBatch
<1>4. before \subseteq C /\ (Live \cup before) \cap own \subseteq (Live \cup C) \cap own
  OBVIOUS
<1>5. IsFiniteSet((Live \cup C) \cap own) /\ Cardinality((Live \cup C) \cap own) \in Nat
  BY <1>1, FS_Intersection, FS_CardinalityType
<1> HIDE DEF before, own
<1>6. /\ Cardinality(before) <= Cardinality(C) /\ Cardinality(before) \in Nat
      /\ Cardinality((Live \cup before) \cap own) <= Cardinality((Live \cup C) \cap own)
      /\ Cardinality((Live \cup before) \cap own) \in Nat
  BY <1>1, <1>4, <1>5, FS_Subset, FS_CardinalityType
<1>7. Cardinality(C) <= ClaimLimit
  <2>1. CASE C = {}
    BY <1>2, <2>1, FS_EmptySet
  <2>2. CASE C # {}
    BY <2>2, BatchFits
  <2> QED
    BY <2>1, <2>2
<1> QED
  BY <1>1, <1>2, <1>3, <1>5, <1>6, <1>7 DEF own

(* A poll leaves a due row unclaimed only for want of room, of the batch,    *)
(* of the database or of the row's own spec: no backlog of one spec keeps    *)
(* the rows of others waiting (claimDueRuns).                                *)
THEOREM NoneLeftBehind == Spec => NoEligibleRunLeftBehind
<1>1. TypeOK /\ [Next]_vars =>
        [\A p \in Runner : ticking[p] /\ ~ticking'[p] /\ proc'[p] = "up" =>
           LET claimed == {r \in Run : attempts'[r] > attempts[r]}
               busy == Live \cup claimed
           IN \A r \in Run \ claimed : Claimable(r) =>
                \/ Cardinality(claimed) = ClaimLimit
                \/ Cardinality(busy) >= Capacity
                \/ Cardinality(busy \cap RunsOf(SpecOf[r])) >= MaxParallel[SpecOf[r]]]_vars
  <2> SUFFICES ASSUME TypeOK, [Next]_vars, NEW p \in Runner,
                      ticking[p], ~ticking'[p], proc'[p] = "up"
               PROVE  LET claimed == {r \in Run : attempts'[r] > attempts[r]}
                          busy == Live \cup claimed
                      IN \A r \in Run \ claimed : Claimable(r) =>
                           \/ Cardinality(claimed) = ClaimLimit
                           \/ Cardinality(busy) >= Capacity
                           \/ Cardinality(busy \cap RunsOf(SpecOf[r]))
                                >= MaxParallel[SpecOf[r]]
    OBVIOUS
  <2> USE DEF dbVars, runnerVars, execVars
  <2>1. ASSUME NEW e \in Exec, ExecStep(e) PROVE UNCHANGED ticking
    BY <2>1 DEF ExecStep, Progress, Heartbeat, Timeout, Prepared, StartFailed, SessionStarted,
                LateSession, TurnEnded, Closed, Unwind, AbortCleaned
  <2>2. ASSUME NEW q \in Runner, RunnerStep(q) PROVE PollClaim(q)
    BY <2>2 DEF RunnerStep, PollRenew, Stop, Stopped, Crash, Start, TypeOK
  <2>3. PICK q \in Runner : PollClaim(q)
    BY <2>1, <2>2
       DEF Next, vars, Tick, Enqueue, SpecStep, Toggle, MarkSpecRemoved,
           CancelQueuedRunsForSpec, DeletionCutShort
  <2>4. PICK C \in SUBSET Run : ClaimBatch(C) /\ TakeBatch(q, C)
    BY <2>3 DEF PollClaim
  <2>5. {r \in Run : attempts'[r] > attempts[r]} = C
    BY <2>4, BatchIsLive
  <2>6. \A r \in Run \ C : Claimable(r) =>
          \/ Cardinality(C) = ClaimLimit
          \/ Cardinality(Live \cup C) >= Capacity
          \/ Cardinality((Live \cup C) \cap RunsOf(SpecOf[r])) >= MaxParallel[SpecOf[r]]
    BY <2>4, LeftOutForRoom
  <2> QED
    BY <2>5, <2>6
<1> QED
  BY <1>1, TypeCorrect, PTL DEF Spec, NoEligibleRunLeftBehind

=============================================================================
