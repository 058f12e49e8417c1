----------------------------- MODULE CronQueue -----------------------------
(***************************************************************************)
(* The cron run queue: the rows of cron_runs in cron.db, and the           *)
(* CronRunner processes that claim them under a lease, execute them in an  *)
(* agent session and write the outcome back.                               *)
(*                                                                         *)
(* Every store method is one SQLite statement or one transaction, hence    *)
(* one atomic step; the runners interleave between them.  A runner's       *)
(* JavaScript is modelled at its awaits: a step of an executor is the code *)
(* from one await of executeClaim to the next one.                         *)
(*                                                                         *)
(* Time is kept as what remains of it: left[r] is how long the lease of a  *)
(* running row still holds (claim_until_at - now) and wait[r] how far in   *)
(* the future its scheduled_for lies; Tick lets both run down.  A runner   *)
(* that takes no step while time ticks is a suspended machine or a blocked *)
(* event loop.                                                             *)
(***************************************************************************)
EXTENDS Integers, FiniteSets

CONSTANTS
  Runner,       \* the CronRunner instances sharing one cron.db
  Nobody,       \* no CronRunner: the owner of a claim not yet made
  Run,          \* run ids, ranked as claimDueRuns orders them
  SpecId,       \* cron specs
  SpecOf,       \* the spec a run belongs to
  MaxParallel,  \* max_parallel of each spec
  Timed,        \* the specs with a timeoutSeconds
  Capacity,     \* globalMaxConcurrency
  ClaimLimit,   \* how many rows one claimDueRuns takes at most (25)
  Lease,        \* claimLeaseMs, in ticks
  MaxWait,      \* bound: how far ahead a run is scheduled, in ticks
  MaxAttempts,  \* bound: claims per run
  MaxFaults     \* bound: crashes, stops and lapsed leases of live executors

ASSUME RunAssumption == Run \subseteq Nat /\ IsFiniteSet(Run)
ASSUME RunnerAssumption == Nobody \notin Runner
ASSUME SpecAssumption == SpecOf \in [Run -> SpecId] /\ Timed \subseteq SpecId
ASSUME LimitAssumption ==
  /\ MaxParallel \in [SpecId -> Nat \ {0}]
  /\ Capacity \in Nat \ {0}
  /\ ClaimLimit \in Nat \ {0}
ASSUME BoundAssumption ==
  /\ Lease \in Nat \ {0}
  /\ MaxWait \in Nat
  /\ MaxAttempts \in Nat
  /\ MaxFaults \in Nat

VARIABLES
  \* cron.db
  status,     \* cron_runs.status; "none" before the row is inserted
  token,      \* claim_token, as the attempt that holds it; 0 is NULL
  left,       \* lease time left; 0 is NULL or expired
  wait,       \* time until scheduled_for
  attempts,   \* attempt_count
  specState,  \* enabled and removed of each spec
  \* CronRunner
  proc,       \* life cycle of the runner's process and timer
  ticking,    \* inside the synchronous part of tick()
  active,     \* activeRuns: run id -> the attempt registered there, 0 if none
  \* one executor per claim
  owner,      \* the runner that executes the claim
  phase,      \* where executeClaim is
  session,    \* the agent session the executor asked for
  abort,      \* its AbortController
  heartbeat,  \* the executors whose lease heartbeat interval is set
  \* environment
  faults      \* faults so far

dbVars == <<status, token, left, wait, attempts, specState>>
runnerVars == <<proc, ticking, active>>
execVars == <<owner, phase, session, abort, heartbeat>>
vars == <<dbVars, runnerVars, execVars, faults>>

Attempt == 1 .. MaxAttempts
Exec == Run \X Attempt

Terminal == {"done", "failed", "cancelled"}
Status == {"none", "queued", "running"} \cup Terminal
Working == {"preparing", "starting", "turn"}
Unfinished == Working \cup {"aborting", "closing"}
Phase == {"idle", "gone", "crashed"} \cup Unfinished

TypeOK ==
  /\ status \in [Run -> Status]
  /\ token \in [Run -> 0 .. MaxAttempts]
  /\ left \in [Run -> 0 .. Lease]
  /\ wait \in [Run -> 0 .. MaxWait]
  /\ attempts \in [Run -> 0 .. MaxAttempts]
  /\ specState \in [SpecId -> {"on", "off", "removing", "removed"}]
  /\ proc \in [Runner -> {"up", "stopping", "stopped", "down"}]
  /\ ticking \in [Runner -> BOOLEAN]
  /\ active \in [Runner -> [Run -> 0 .. MaxAttempts]]
  /\ owner \in [Exec -> Runner \cup {Nobody}]
  /\ phase \in [Exec -> Phase]
  /\ session \in [Exec -> {"none", "opening", "open", "released"}]
  /\ abort \in [Exec -> {"no", "cancelled", "timeout"}]
  /\ heartbeat \subseteq Exec
  /\ faults \in 0 .. MaxFaults

Init ==
  /\ status = [r \in Run |-> "none"]
  /\ token = [r \in Run |-> 0]
  /\ left = [r \in Run |-> 0]
  /\ wait = [r \in Run |-> 0]
  /\ attempts = [r \in Run |-> 0]
  /\ specState = [s \in SpecId |-> "on"]
  /\ proc = [p \in Runner |-> "up"]
  /\ ticking = [p \in Runner |-> FALSE]
  /\ active = [p \in Runner |-> [r \in Run |-> 0]]
  /\ owner = [e \in Exec |-> Nobody]
  /\ phase = [e \in Exec |-> "idle"]
  /\ session = [e \in Exec |-> "none"]
  /\ abort = [e \in Exec |-> "no"]
  /\ heartbeat = {}
  /\ faults = 0

-----------------------------------------------------------------------------
(* The store. *)

Live == {r \in Run : status[r] = "running" /\ left[r] > 0}
RunsOf(s) == {r \in Run : SpecOf[r] = s}

\* Mutant of Claimable: rows running on an expired lease are not looked for.
ClaimableOnce(r) == status[r] = "queued" /\ wait[r] = 0 /\ attempts[r] < MaxAttempts

\* A row the claim query selects before it looks at capacity: due, and queued
\* or running on an expired lease.
Claimable(r) ==
  /\ \/ status[r] = "queued"
     \/ status[r] = "running" /\ left[r] = 0
  /\ wait[r] = 0
  /\ attempts[r] < MaxAttempts

\* Mutant of ClaimBatch: both limits are looked up before the first claim only.
ClaimBatchCountedOnce(C) ==
  \A r \in Run :
    r \in C <=>
      /\ Claimable(r)
      /\ Cardinality({x \in C : x < r}) < ClaimLimit
      /\ Cardinality(Live) < Capacity
      /\ Cardinality(Live \cap RunsOf(SpecOf[r])) < MaxParallel[SpecOf[r]]

\* Mutant of ClaimBatch: the query takes the oldest due rows first and then
\* leaves out those there is no room for.
ClaimBatchOfTheOldest(C) ==
  \A r \in Run :
    r \in C <=>
      LET before == {x \in C : x < r} IN
        /\ Claimable(r)
        /\ Cardinality({x \in Run : x < r /\ Claimable(x)}) < ClaimLimit
        /\ Cardinality(Live) + Cardinality(before) < Capacity
        /\ Cardinality((Live \cup before) \cap RunsOf(SpecOf[r]))
             < MaxParallel[SpecOf[r]]

\* C is what one claimDueRuns transaction takes: row after row in rank order,
\* the global and the per-spec limit evaluated anew after every claim.
ClaimBatch(C) ==
  \A r \in Run :
    r \in C <=>
      LET before == {x \in C : x < r} IN
        /\ Claimable(r)
        /\ Cardinality(before) < ClaimLimit
        /\ Cardinality(Live) + Cardinality(before) < Capacity
        /\ Cardinality((Live \cup before) \cap RunsOf(SpecOf[r]))
             < MaxParallel[SpecOf[r]]

Holds(e) == token[e[1]] = e[2]

\* Mutants of CompleteRun: the claim token is not compared; it is not cleared.
CompleteRunUnchecked(e, outcome) ==
  /\ status' = [status EXCEPT ![e[1]] = outcome]
  /\ token' = [token EXCEPT ![e[1]] = 0]
  /\ left' = [left EXCEPT ![e[1]] = 0]

CompleteRunKeepingToken(e, outcome) ==
  IF Holds(e)
    THEN status' = [status EXCEPT ![e[1]] = outcome] /\ UNCHANGED <<token, left>>
    ELSE UNCHANGED <<status, token, left>>

\* completeRun(runId, {status, claimToken}) on behalf of executor e.
CompleteRun(e, outcome) ==
  IF Holds(e)
    THEN /\ status' = [status EXCEPT ![e[1]] = outcome]
         /\ token' = [token EXCEPT ![e[1]] = 0]
         /\ left' = [left EXCEPT ![e[1]] = 0]
    ELSE UNCHANGED <<status, token, left>>

\* enqueueRun: the materializer, a manual trigger or an event inserts the row.
\* Ranks follow scheduled_for.
Enqueue(r, w) ==
  /\ status[r] = "none"
  /\ specState[SpecOf[r]] = "on"
  /\ \A x \in Run : status[x] = "queued" =>
       /\ x < r => wait[x] <= w
       /\ r < x => w <= wait[x]
  /\ status' = [status EXCEPT ![r] = "queued"]
  /\ wait' = [wait EXCEPT ![r] = w]
  /\ UNCHANGED <<token, left, attempts, specState, runnerVars, execVars, faults>>

\* The spec is disabled, or enabled or re-created again.
Toggle(s) ==
  /\ specState' = [specState EXCEPT ![s] = IF @ = "on" THEN "off" ELSE "on"]
  /\ specState[s] # "removing"
  /\ UNCHANGED <<status, token, left, wait, attempts, runnerVars, execVars, faults>>

\* Deletion is two statements: markSpecRemoved, then cancelQueuedRunsForSpec.
MarkSpecRemoved(s) ==
  /\ specState[s] \in {"on", "off"}
  /\ specState' = [specState EXCEPT ![s] = "removing"]
  /\ UNCHANGED <<status, token, left, wait, attempts, runnerVars, execVars, faults>>

\* Mutant of CancelQueuedRunsForSpec: runs that have ended are cancelled too.
CancelRunsForSpec(s) ==
  /\ specState[s] = "removing"
  /\ specState' = [specState EXCEPT ![s] = "removed"]
  /\ status' = [r \in Run |->
       IF SpecOf[r] = s /\ status[r] # "running" THEN "cancelled" ELSE status[r]]
  /\ UNCHANGED <<token, left, wait, attempts, runnerVars, execVars, faults>>

CancelQueuedRunsForSpec(s) ==
  /\ specState[s] = "removing"
  /\ specState' = [specState EXCEPT ![s] = "removed"]
  /\ status' = [r \in Run |->
       IF SpecOf[r] = s /\ status[r] = "queued" THEN "cancelled" ELSE status[r]]
  /\ UNCHANGED <<token, left, wait, attempts, runnerVars, execVars, faults>>

\* The process deleting the spec died between the two statements.
DeletionCutShort(s) ==
  /\ specState[s] = "removing"
  /\ specState' = [specState EXCEPT ![s] = "removed"]
  /\ UNCHANGED <<status, token, left, wait, attempts, runnerVars, execVars, faults>>

-----------------------------------------------------------------------------
(* Time. *)

Down(n) == IF n = 0 THEN 0 ELSE n - 1

\* An executor still at work loses its lease with the next tick.
Lapsing ==
  {r \in Run : /\ left[r] = 1
               /\ phase[<<r, token[r]>>] \in Unfinished}

\* A tick passes.  The synchronous part of a poll is shorter than a lease: what
\* it renewed has not lapsed when it claims.
Tick ==
  /\ \A p \in Runner, r \in Lapsing : ticking[p] => active[p][r] # token[r]
  /\ \E r \in Run : left[r] > 0 \/ wait[r] > 0
  /\ left' = [r \in Run |-> Down(left[r])]
  /\ wait' = [r \in Run |-> Down(wait[r])]
  /\ \/ Lapsing = {} /\ faults' = faults
     \/ Lapsing # {} /\ faults < MaxFaults /\ faults' = faults + 1
  /\ UNCHANGED <<status, token, attempts, specState, runnerVars, execVars>>

-----------------------------------------------------------------------------
(* The runner. *)

Unwinding(e) == phase[e] \in Working /\ abort[e] # "no"

\* The runner's event loop takes up its next callback: no synchronous code is
\* under way, and aborts, which settle as microtasks, have been delivered.
Idle(p) == ~ticking[p] /\ \A e \in Exec : owner[e] = p => ~Unwinding(e)

\* controller.abort(reason): only the first reason sticks.
Aborted(e, reason) == IF abort[e] = "no" THEN reason ELSE abort[e]

\* tick(), first half: renew every claim registered in activeRuns, before any
\* work is claimed, and abort the ones another runner has taken.
PollRenew(p) ==
  /\ proc[p] = "up" /\ Idle(p)
  /\ ticking' = [ticking EXCEPT ![p] = TRUE]
  /\ left' = [r \in Run |->
       IF active[p][r] # 0 /\ token[r] = active[p][r] THEN Lease ELSE left[r]]
  /\ abort' = [e \in Exec |->
       IF active[p][e[1]] = e[2] /\ ~Holds(e)
         THEN Aborted(e, "cancelled") ELSE abort[e]]
  /\ UNCHANGED <<status, token, wait, attempts, specState, proc, active,
                 owner, phase, session, heartbeat, faults>>

\* The claims of batch C and the synchronous start of executeClaim for each; a
\* claim of a disabled or removed spec is cancelled on the spot.
TakeBatch(p, C) ==
  LET starts == {r \in C : specState[SpecOf[r]] = "on"}
      begun == {<<r, attempts[r] + 1>> : r \in starts}
  IN /\ status' = [r \in Run |->
          IF r \in starts THEN "running"
          ELSE IF r \in C THEN "cancelled" ELSE status[r]]
     /\ token' = [r \in Run |->
          IF r \in starts THEN attempts[r] + 1
          ELSE IF r \in C THEN 0 ELSE token[r]]
     /\ left' = [r \in Run |->
          IF r \in starts THEN Lease ELSE IF r \in C THEN 0 ELSE left[r]]
     /\ attempts' = [r \in Run |->
          IF r \in C THEN attempts[r] + 1 ELSE attempts[r]]
     /\ active' = [active EXCEPT ![p] =
          [r \in Run |-> IF r \in starts THEN attempts[r] + 1 ELSE @[r]]]
     /\ owner' = [e \in Exec |-> IF e \in begun THEN p ELSE owner[e]]
     /\ phase' = [e \in Exec |-> IF e \in begun THEN "preparing" ELSE phase[e]]
     /\ heartbeat' = heartbeat \cup begun

\* tick(), second half: claim what is due and start executing it.
PollClaim(p) ==
  /\ ticking[p]
  /\ ticking' = [ticking EXCEPT ![p] = FALSE]
  /\ \E C \in SUBSET Run : ClaimBatch(C) /\ TakeBatch(p, C)
  /\ UNCHANGED <<wait, specState, proc, session, abort, faults>>

\* stop(): no more polling, and everything in activeRuns is aborted.
Stop(p) ==
  /\ proc[p] = "up" /\ Idle(p)
  /\ faults < MaxFaults
  /\ faults' = faults + 1
  /\ proc' = [proc EXCEPT ![p] = "stopping"]
  /\ abort' = [e \in Exec |->
       IF active[p][e[1]] = e[2] THEN Aborted(e, "cancelled") ELSE abort[e]]
  /\ UNCHANGED <<dbVars, ticking, active, owner, phase, session, heartbeat>>

\* Mutant of Stopped: stop() does not wait for the executions it aborted.
StoppedAtOnce(p) ==
  /\ proc[p] = "stopping"
  /\ proc' = [proc EXCEPT ![p] = "stopped"]
  /\ UNCHANGED <<dbVars, ticking, active, execVars, faults>>

\* stop() resolves once every execution has settled.
Stopped(p) ==
  /\ proc[p] = "stopping"
  /\ \A e \in Exec : owner[e] = p => phase[e] \notin Unfinished
  /\ proc' = [proc EXCEPT ![p] = "stopped"]
  /\ UNCHANGED <<dbVars, ticking, active, execVars, faults>>

\* The process dies, its executors and their agent sessions with it.
Crash(p) ==
  /\ proc[p] \in {"up", "stopping"}
  /\ faults < MaxFaults
  /\ faults' = faults + 1
  /\ proc' = [proc EXCEPT ![p] = "down"]
  /\ ticking' = [ticking EXCEPT ![p] = FALSE]
  /\ active' = [active EXCEPT ![p] = [r \in Run |-> 0]]
  /\ phase' = [e \in Exec |->
       IF owner[e] = p /\ phase[e] \in Unfinished THEN "crashed" ELSE phase[e]]
  /\ session' = [e \in Exec |->
       IF owner[e] = p /\ session[e] # "none" THEN "released" ELSE session[e]]
  /\ heartbeat' = {e \in heartbeat : owner[e] # p}
  /\ UNCHANGED <<dbVars, owner, abort>>

\* start(), in a new process or after stop().
Start(p) ==
  /\ proc[p] \in {"down", "stopped"}
  /\ proc' = [proc EXCEPT ![p] = "up"]
  /\ UNCHANGED <<dbVars, ticking, active, execVars, faults>>

-----------------------------------------------------------------------------
(* The executor. *)

\* The event loop of e's runner is free to run a callback of e.
Runs(e) == owner[e] # Nobody /\ Idle(owner[e])

\* Mutant of Heartbeat: the lease is added to what is left of it.
HeartbeatAdding(e) ==
  /\ Runs(e)
  /\ e \in heartbeat /\ Holds(e)
  /\ left' = [left EXCEPT ![e[1]] = @ + Lease]
  /\ UNCHANGED <<status, token, wait, attempts, specState, runnerVars, execVars, faults>>

\* The lease heartbeat.  A failed renewal ends the interval and aborts whatever
\* attempt activeRuns holds under this run id.
Heartbeat(e) ==
  /\ Runs(e)
  /\ e \in heartbeat
  /\ IF Holds(e)
       THEN /\ left' = [left EXCEPT ![e[1]] = Lease]
            /\ UNCHANGED <<abort, heartbeat>>
       ELSE /\ heartbeat' = heartbeat \ {e}
            /\ abort' = [x \in Exec |->
                 IF x = <<e[1], active[owner[e]][e[1]]>>
                   THEN Aborted(x, "cancelled") ELSE abort[x]]
            /\ UNCHANGED left
  /\ UNCHANGED <<status, token, wait, attempts, specState, runnerVars, owner,
                 phase, session, faults>>

\* The deadline timer of a spec with timeoutSeconds.
Timeout(e) ==
  /\ Runs(e)
  /\ SpecOf[e[1]] \in Timed
  /\ phase[e] \in Working
  /\ abort[e] = "no"
  /\ abort' = [abort EXCEPT ![e] = "timeout"]
  /\ UNCHANGED <<dbVars, runnerVars, owner, phase, session, heartbeat, faults>>

\* The finally block once no session is left to clean up: it deletes the
\* activeRuns entry of the run id, whichever attempt registered it.
Leave(e) ==
  /\ phase' = [phase EXCEPT ![e] = "gone"]
  /\ heartbeat' = heartbeat \ {e}
  /\ active' = [active EXCEPT ![owner[e]][e[1]] = 0]

At(e, where) == Runs(e) /\ phase[e] = where /\ abort[e] = "no"

\* buildStartRequest resolved: ask the runtime for a session.
Prepared(e) ==
  /\ At(e, "preparing")
  /\ phase' = [phase EXCEPT ![e] = "starting"]
  /\ session' = [session EXCEPT ![e] = "opening"]
  /\ UNCHANGED <<dbVars, runnerVars, owner, abort, heartbeat, faults>>

\* buildStartRequest, or startSession, rejected: no session to clean up.
StartFailed(e) ==
  /\ At(e, "preparing") \/ At(e, "starting")
  /\ session' = [session EXCEPT ![e] = "none"]
  /\ CompleteRun(e, "failed")
  /\ Leave(e)
  /\ UNCHANGED <<wait, attempts, specState, proc, ticking, owner, abort, faults>>

\* Mutant of SessionStarted: the turn is dispatched whatever attaching says.
SessionStartedUnattached(e) ==
  /\ At(e, "starting")
  /\ session' = [session EXCEPT ![e] = "open"]
  /\ active' = [active EXCEPT ![owner[e]][e[1]] = e[2]]
  /\ phase' = [phase EXCEPT ![e] = "turn"]
  /\ UNCHANGED <<dbVars, proc, ticking, owner, abort, heartbeat, faults>>

\* startSession answered in time: register and attach the session, and
\* dispatch the turn unless the claim turns out to be lost.
SessionStarted(e) ==
  /\ At(e, "starting")
  /\ session' = [session EXCEPT ![e] = "open"]
  /\ active' = [active EXCEPT ![owner[e]][e[1]] = e[2]]
  /\ \/ /\ Holds(e) /\ status[e[1]] = "running"
        /\ phase' = [phase EXCEPT ![e] = "turn"]
        /\ UNCHANGED abort
     \/ /\ ~(Holds(e) /\ status[e[1]] = "running")
        /\ abort' = [abort EXCEPT ![e] = "cancelled"]
        /\ UNCHANGED phase
  /\ UNCHANGED <<dbVars, proc, ticking, owner, heartbeat, faults>>

\* Mutant of LateSession: nobody takes charge of the session that came late.
LateSessionDropped(e) ==
  /\ Runs(e)
  /\ session[e] = "opening" /\ abort[e] # "no"
  /\ session' = [session EXCEPT ![e] = "open"]
  /\ UNCHANGED <<dbVars, runnerVars, owner, phase, abort, heartbeat, faults>>

\* startSession answered after the abort: the late session is cleaned up.
LateSession(e) ==
  /\ Runs(e)
  /\ session[e] = "opening" /\ abort[e] # "no"
  /\ session' = [session EXCEPT ![e] = "released"]
  /\ UNCHANGED <<dbVars, runnerVars, owner, phase, abort, heartbeat, faults>>

\* sendSession resolved or rejected: record the outcome, if the claim is still
\* held, before the session is closed.
TurnEnded(e) ==
  /\ At(e, "turn")
  /\ \E outcome \in {"done", "failed"} : CompleteRun(e, outcome)
  /\ phase' = [phase EXCEPT ![e] = "closing"]
  /\ heartbeat' = heartbeat \ {e}
  /\ UNCHANGED <<wait, attempts, specState, runnerVars, owner, session, abort, faults>>

\* cleanupSession in the finally block has settled or timed out.
Closed(e) ==
  /\ Runs(e)
  /\ phase[e] = "closing"
  /\ session' = [session EXCEPT ![e] = "released"]
  /\ Leave(e)
  /\ UNCHANGED <<dbVars, proc, ticking, owner, abort, faults>>

AbortOutcome(e) == IF abort[e] = "timeout" THEN "failed" ELSE "cancelled"

\* Mutants of Unwind: an open session is left behind; only the await on the
\* turn is raced against the abort.
UnwindLeavingSession(e) ==
  /\ owner[e] # Nobody /\ ~ticking[owner[e]]
  /\ Unwinding(e)
  /\ CompleteRun(e, AbortOutcome(e))
  /\ Leave(e)
  /\ UNCHANGED <<wait, attempts, specState, proc, ticking, owner, session, abort, faults>>

UnwindTurnOnly(e) ==
  /\ owner[e] # Nobody /\ ~ticking[owner[e]]
  /\ Unwinding(e)
  /\ session[e] = "open"
  /\ phase' = [phase EXCEPT ![e] = "aborting"]
  /\ UNCHANGED <<dbVars, runnerVars, owner, session, abort, heartbeat, faults>>

\* The abort reaches the await executeClaim is in: an open session is aborted
\* first, and the outcome recorded once that has settled.
Unwind(e) ==
  /\ owner[e] # Nobody /\ ~ticking[owner[e]]
  /\ Unwinding(e)
  /\ IF session[e] = "open"
       THEN /\ phase' = [phase EXCEPT ![e] = "aborting"]
            /\ UNCHANGED <<status, token, left, active, heartbeat>>
       ELSE CompleteRun(e, AbortOutcome(e)) /\ Leave(e)
  /\ UNCHANGED <<wait, attempts, specState, proc, ticking, owner, session, abort, faults>>

AbortCleaned(e) ==
  /\ Runs(e)
  /\ phase[e] = "aborting"
  /\ session' = [session EXCEPT ![e] = "released"]
  /\ CompleteRun(e, AbortOutcome(e))
  /\ Leave(e)
  /\ UNCHANGED <<wait, attempts, specState, proc, ticking, owner, abort, faults>>

Progress(e) ==
  \/ Prepared(e) \/ StartFailed(e) \/ SessionStarted(e) \/ LateSession(e)
  \/ TurnEnded(e) \/ Closed(e) \/ Unwind(e) \/ AbortCleaned(e)

ExecStep(e) == Heartbeat(e) \/ Timeout(e) \/ Progress(e)

RunnerStep(p) ==
  PollRenew(p) \/ PollClaim(p) \/ Stop(p) \/ Stopped(p) \/ Crash(p) \/ Start(p)

SpecStep(s) ==
  \/ Toggle(s) \/ MarkSpecRemoved(s)
  \/ CancelQueuedRunsForSpec(s) \/ DeletionCutShort(s)

Next ==
  \/ Tick
  \/ \E r \in Run, w \in 0 .. MaxWait : Enqueue(r, w)
  \/ \E s \in SpecId : SpecStep(s)
  \/ \E p \in Runner : RunnerStep(p)
  \/ \E e \in Exec : ExecStep(e)

Spec == Init /\ [][Next]_vars

\* Fairness.  A runner that is up keeps polling, a stop() in progress returns
\* and a runner that went down is started again; time passes; the runtime
\* answers and agent turns end.  A callback that is ready runs in the end even
\* though other callbacks keep taking the event loop, hence strong fairness.
\* Nobody has to disable a spec, stop a runner, enqueue a run or miss a lease.
RunnerLoop(p) == PollRenew(p) \/ PollClaim(p) \/ Stopped(p) \/ Start(p)

FairSpec ==
  /\ Spec
  /\ SF_vars(Tick)
  /\ \A p \in Runner : SF_vars(RunnerLoop(p))
  /\ \A e \in Exec : SF_vars(Progress(e))

-----------------------------------------------------------------------------
(* Properties. *)

\* What an outcome once written owes to the claim token being unique and
\* cleared: no late, superseded or aborted executor, and no later claim, can
\* change the row of a run that has ended.
OutcomeIsFinal ==
  [][\A r \in Run : status[r] \in Terminal => status'[r] = status[r]]_vars

\* Every claim transaction leaves the spec it claims for within max_parallel
\* and the database within the global capacity, counting the rows claimed
\* earlier in the same batch.
ClaimsRespectLimits ==
  [][\A r \in Run : token'[r] > token[r] =>
       /\ Cardinality(Live') <= Capacity
       /\ Cardinality((Live \cap RunsOf(SpecOf[r]))') <= MaxParallel[SpecOf[r]]]_vars

\* A poll leaves a due run unclaimed only for want of room: a backlog of one
\* saturated spec, however old, does not keep the runs of other specs waiting.
NoEligibleRunLeftBehind ==
  [][\A p \in Runner : ticking[p] /\ ~ticking'[p] /\ proc'[p] = "up" =>
       LET claimed == {r \in Run : attempts'[r] > attempts[r]}
           busy == Live \cup claimed
       IN \A r \in Run \ claimed : Claimable(r) =>
            \/ Cardinality(claimed) = ClaimLimit
            \/ Cardinality(busy) >= Capacity
            \/ Cardinality(busy \cap RunsOf(SpecOf[r])) >= MaxParallel[SpecOf[r]]]_vars

\* The row names a claim exactly while it runs, the youngest one of the run, and
\* that claim's executor is still at work unless its process crashed: no older
\* executor passes a token check again, and no executor ends without settling
\* the row it still holds.
ClaimInv ==
  \A r \in Run :
    /\ status[r] = "running" <=> token[r] # 0
    /\ left[r] > 0 => token[r] # 0
    /\ token[r] # 0 =>
         /\ token[r] = attempts[r]
         /\ owner[<<r, token[r]>>] # Nobody
         /\ phase[<<r, token[r]>>] \in Working \cup {"aborting", "crashed"}

\* What every step keeps: the types, and that the rows and the executors agree on
\* who holds a claim.
QueueInv == TypeOK /\ ClaimInv

\* An executor that has finished leaves no agent session behind, also when it
\* was aborted while startSession was still pending.
NoLeakedSession ==
  \A e \in Exec : phase[e] \in {"gone", "crashed"} =>
    /\ session[e] # "open"
    /\ session[e] = "opening" => abort[e] # "no"

\* A graceful stop leaves no run claimed by the stopped runner, except those a
\* crash of an earlier process left: nothing it was executing has to wait for a
\* lease to expire and be executed a second time.
StopLeavesNoClaim ==
  \A p \in Runner, r \in Run :
    proc[p] = "stopped" /\ token[r] # 0 /\ owner[<<r, token[r]>>] = p
      => phase[<<r, token[r]>>] = "crashed"

\* A late response or a lost lease never dispatches a turn: a turn begins for
\* the claim the row names at that moment.
TurnsAreBegunByTheHolder ==
  [][\A e \in Exec : phase[e] # "turn" /\ phase'[e] = "turn" =>
       token'[e[1]] = e[2] /\ abort'[e] = "no"]_vars

\* A claim is given up only by the executor that holds it, together with the outcome
\* it records, or taken by a poll after its lease ran out: no late executor, stop or
\* deletion of the spec ends the claim of another.
ClaimsEndWithHolderOrLease ==
  [][\A r \in Run : token[r] # 0 /\ token'[r] # token[r] =>
       \/ /\ phase[<<r, token[r]>>] \in Unfinished
          /\ phase'[<<r, token[r]>>] \in {"closing", "gone"}
          /\ token'[r] = 0 /\ status'[r] \in Terminal
       \/ left[r] = 0 /\ attempts'[r] = attempts[r] + 1]_vars

\* Claims exclude each other: the turn of a run is begun and its outcome recorded by
\* the holder of the claim, which no one takes from it as long as its lease lasts.
ClaimsAreExclusive == TurnsAreBegunByTheHolder /\ ClaimsEndWithHolderOrLease

\* However runners crash, stop or sleep, a queued run ends.
EveryRunEnds == \A r \in Run : status[r] = "queued" ~> status[r] \in Terminal

\* stop() resolves.
StopResolves == \A p \in Runner : proc[p] = "stopping" ~> proc[p] # "stopping"

\* A session asked for is eventually given back, or was never opened.
SessionsAreReleased ==
  \A e \in Exec : session[e] \in {"opening", "open"} ~> session[e] \in {"none", "released"}

\* What cron.db promises about its rows.
Ledger == INSTANCE RunLedger WITH claims <- attempts
LedgerSpec == Ledger!Spec

-----------------------------------------------------------------------------
(* Claims of the source that the code does not keep. *)

\* cron-runner.ts:259-261: a live session is not reclaimed and started a second
\* time by the runner that executes it.
NoSelfReclaim ==
  [][\A p \in Runner, e \in Exec :
       /\ owner[e] = p /\ phase[e] = "turn" /\ abort[e] = "no" /\ Holds(e)
       /\ token'[e[1]] # 0
       => \/ token'[e[1]] = e[2]
          \/ owner'[<<e[1], token'[e[1]]>>] # p]_vars

=============================================================================
