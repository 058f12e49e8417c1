# Formal model of the Anticeil Code core

TLA+ specifications of the concurrent core of this repository, checked with TLC
and, where it is worth it, proved with TLAPS. All paths below are relative to
`src/sdk/packages/core/src/` unless they start with another directory of the
repository.

## 1. The system

The repository is an agent platform: a VS Code extension (`apps/vscode`), a CLI
(`apps/cli`) and a hub user interface (`apps/cline-hub`) on top of an SDK
(`sdk/packages`: `agents`, `core`, `llms`, `shared`). The applications are mostly
presentation; the program's own logic is in `core`, and there in the parts that
share state between asynchronous activities or between processes. Parts in bold are modelled:

| Part | State it keeps | Operations | What is hard, and what makes it correct |
| --- | --- | --- | --- |
| **Cron run queue and runner** (`cron/runner`, `cron/store`) | rows of `cron_runs` with status, claim token, lease and attempt count; `activeRuns`, the timer and the running executions of each `CronRunner` | enqueue, claim, renew, complete, cancel; `tick`, `executeClaim`, heartbeat, deadline, `start`, `stop` | Several processes on one SQLite file; crashes, machine sleep, answers after a cancellation. A run has one owner and one final outcome, sessions are released, limits are kept, queued runs end |
| **Session turns** (`runtime/host`, `runtime/turn-queue`, `runtime/orchestration`) | `ActiveSession` (aborting, pendingPrompts, drainingPendingPrompts), `SessionRuntime` (running, abortRequested, shutdownCalled, activeRunPromise) | `runTurn`, `abort`, `stopSession`, queue, edit and delete prompts, drain, retry after an authentication error | Any number of calls interleave at every await. One turn at a time, no prompt lost, every call and shutdown returns |
| **Cron specs and schedules** (`cron/store`, `cron/runner/cron-materializer.ts`, `cron/service`, `cron/specs`) | rows of `cron_specs` with revision, enabled and removed flags and next run; the rows they queue in `cron_runs` | create, update, pause, resume, trigger, delete a hub schedule; reconcile a spec file; `materializeAll` | Several processes (hub daemon, CLI, hub user interface) on one database, each in the middle of some operation of several statements; crashes between them. No slot twice, a one-off once, nothing stale left queued, schedules go on |
| **Cron events** (`cron/events`) | `cron_event_log`; the event runs of `cron_runs` with trigger event and due time | ingest, with debounce, dedupe window and cooldown | Several processes on one database; an event is stamped before it waits for the write lock, and a debounced event rewrites the row the window is looked up by. Each event covered by one run or dropped for cause |
| **Hub run queue** (`hub/server/hub-run-queue.ts`, `handlers/run-queue-handlers.ts`, `run-handlers.ts`) | durable FIFO of runs per session, in-memory pumps | admit, pump, execute, time out, recover, drain, stop | crash between admission and execution, a timed out turn still running, a queue closed under a pump |
| **Hub approvals** (`handlers/approval-handlers.ts`) | pending requests | ask, respond, cancel, issue again | the client may be away when it is asked. Every request is seen by somebody, and settled |
| **Hub event log and its delivery** (`hub/server/hub-event-log.ts`, `browser-websocket.ts`, `hub-server-transport.ts`) | sequence numbers, retained rows; subscriptions with their replay | append, prune, subscribe, replay, publish | pruning, drops and restarts, events published during a replay. In order, nothing twice, no gap between replay and live delivery |
| Hub daemon (`hub/daemon`, `hub/discovery`) | shutdown state, watchdog, instance lock | request, force, finish | forced and graceful shutdown racing; exit code |
| **Hub clients** (`hub/client`) | connection, subscriptions, a cursor for each | subscribe, reconnect, answer | the hub may notice the end of a connection after the client is back |
| Agent loop (`sdk/packages/agents/src/agent-runtime.ts`) | messages, iteration, tool calls | run, tool batch, abort | abort between a tool call and its result |
| Agent teams (`extensions/tools/team/multi-agent.ts`) | tasks, runs, mailbox | claim, dispatch, retry, settle | concurrency limit with delayed retries |
| **Agenda tasks** (`tasks`) | rows of `agenda_tasks` and `agenda_task_runs`, a spec file for each task, `activeRuns` of the manager | approve, run, update, cancel, reconcile the files, complete, dispose, recover | calls wait where a reconciliation aborts a session, and go on with what they read before. Nothing runs that was not approved, outcomes stay, no task is in progress for ever |
| Hub capability requests, transport and instance lock, OAuth, mistake and loop tracking, connector supervision, persistence, providers, applications | | | see `PROJECT.json`, `components`: planned or left out with the reason |

How they interact: the CronRunner calls a `HubScheduleRuntimeHandlers` (start,
send, abort and stop a session), which in the hub is served by the
`LocalRuntimeHost`; the hub's run queue sends its runs to the same host's
`runTurn`; `LocalRuntimeHost` drives one `SessionRuntime` per session, which
drives the agent loop. The daemon's shutdown coordinator stops the hub's transport,
which disposes of the host and then closes the queue. Cron events and agenda tasks are
two more sources of sessions; the tools of a session ask for approvals, which reach the
clients as events of the hub. The CronQueue model keeps of the runtime what the runner
sees: a session that opens, late or not at all, and a turn that ends or throws.

`PROJECT.json` lists every part ("components") and what in this code is hard to
test, each at its line ("hazards"), with the property that covers it or the
reason why none does.

## 2. Modules

| Module | Models |
| --- | --- |
| `RunLedger` | what `cron.db` promises about a run, whoever runs it: queued once, claimed again only while it has no outcome, one outcome |
| `CronQueue` | the store's run queue, the CronRunners and their executors; implements `RunLedger` |
| `CronQueueProofs` | theorems about `CronQueue` |
| `CronSchedule` | the specs of `cron.db`, hub schedules and spec files, and the polls that turn them into runs; implements `RunLedger` too |
| `CronScheduleProofs` | theorems about `CronSchedule` |
| `CronOneOffProofs` | theorems about schedules and one-offs of `CronSchedule` when one process works on the database |
| `CronEventIngress` | events and the runs they queue or postpone; its rows implement `RunLedger` as well |
| `CronEventIngressProofs` | theorems about `CronEventIngress` |
| `SessionTurns` | the turns of one interactive session |
| `SessionTurnsProofs` | theorems about `SessionTurns` |
| `FifoService` | what the hub's run queue promises: per session first come, first served, one at a time, each once |
| `ShutdownCoordinator` | the shutdown life cycle of the daemon: shared cleanup, watchdog, forced exit, exit code |
| `HubRuns` | the hub's run queue, its pumps and the daemon around them; extends `ShutdownCoordinator`, implements `FifoService` |
| `HubRunsProofs` | theorems about `HubRuns` |
| `EventFeed` | what a subscriber is promised of a log that is pruned: what it wants, in the order of the log, nothing twice, and nothing passed over that is still logged |
| `HubEvents` | events and approval requests on their way from the hub to a client and back; implements `EventFeed` for a client with one subscription |
| `HubEventsProofs` | theorems about `HubEvents` |
| `AgendaTasks` | the agenda's tasks, their runs and their files |
| `AgendaTasksProofs` | theorems about `AgendaTasks` |
| `MCCronQueue`, `MCCronSchedule`, `MCCronEventIngress`, `MCSessionTurns`, `MCHubRuns`, `MCHubEvents`, `MCAgendaTasks` | instances for TLC |

Operators named `...Unchecked`, `...ShiftingFirst` and the like, with a comment
"Mutant of", are not part of any specification: each stands for a plausible bug
in the code it varies, and `PROJECT.json` names the property that tells it apart.

### 2.1 CronQueue

A store method is one SQL statement or one transaction (`BEGIN IMMEDIATE` in
`claimDueRuns`), so it is one atomic step, and processes interleave between
them. Inside a process JavaScript runs from await to await:

- `tick()` renews the claims in `activeRuns` (`PollRenew`), then claims
  (`PollClaim`); these are separate statements of one synchronous section:
  other *processes* may act in between, callbacks of the same process may not
  (`ticking`, `Idle`). `TakeBatch` is the claim together with the synchronous
  start of `executeClaim` for every run of the batch.
- An executor is identified by run and attempt; the attempt stands for the claim
  token, a fresh UUID per claim. Its steps are those of `executeClaim`:
  `Prepared`, `SessionStarted` or `LateSession` or `StartFailed`, `TurnEnded`,
  `Closed`; an abort reaches whichever await it is in (`Unwind`,
  `AbortCleaned`) as microtasks, before the loop takes another callback.
- `activeRuns` is kept as the code keeps it, by run id, with the entry deleted by
  whichever attempt leaves (`Leave`).
- `cleanupSession` releases a session in the end: it is bounded by a timeout and
  swallows errors, so a session whose abort failed counts as released.
- Time is what is left of it: `left[r]` of the lease, `wait[r]` until
  `scheduled_for`. A live executor that loses its lease is a machine asleep or a
  blocked loop, and counts as a fault, as do crashes and stops.
- Deleting a spec is two statements, as in the code, and a crash may come between
  them.

The claim query is stated as what it computes: `ClaimBatch(C)` holds of exactly
one set, the rows taken one after the other in rank order with both limits
recounted after each.

### 2.2 CronSchedule

The hub daemon, a CLI and the hub user interface each open the database and each may
run schedules. The store is synchronous: a process goes through an operation
without awaiting anything, so its own timer and callbacks do not come in between, but
the statements of *other* processes do. `doing[p]` and `target[p]` say which
operation a process is in, and at which spec; a step is one statement or one
transaction:

| Operation | Steps |
| --- | --- |
| `createSchedule` | `Create` (the row), `Created` (its next run) |
| `updateSchedule`, `pauseSchedule`, `resumeSchedule` | `Update`, one transaction |
| `triggerScheduleNow` | `TriggerNow`, and then a poll |
| `deleteSchedule`, a spec file that is gone | `MarkRemoved`, `CancelQueued` |
| `reconcileFile` | `FileUpserted`, `NextComputed`, `NextRunApplied` |
| `refreshScheduleNextRunAt` | `Refresh`, `NextRunApplied` |
| `tick` | `ListOneOffs`, then per one-off `CheckOneOff`, `InsertOneOff`; `ListSchedules`, then per schedule `MaterializeDue`, a transaction; `ClaimDue` |
| the end of an execution | `Ended`, and `Cleared` for a one-off |

- A spec row keeps what decides: kind, flags, revision, next run, the `runAt` of a
  one-time schedule and, for a file, the enabled flag in its content. What the prompt,
  the model or the pattern *is* does not matter, only whether it was edited: the
  inputs of `Update` and `FileUpserted` say so. `MeaningfulChange` decides, as the code
  does, whether an edit makes a revision.
- A listing (`listed`) is a copy of the rows, and what is inserted later is what was
  listed. Recurring schedules are read again in their transaction.
- The unique index of `cron_runs` is the guard of `InsertOneOff`: if it is violated
  the statement throws and with it the poll, which nothing catches before
  `materializeAll` returns.
- A statement that needs the write lock waits while another process has it, for up to
  five seconds (`busy_timeout`, `cron-schema.ts:122`), and a time it uses was read before
  that: `updateSpecNextRunAt` writes what `applyScheduleNextRunAt` (`cron-reconciler.ts:232`)
  or `initializeScheduleNextRun` (`sqlite-cron-store.ts:1165`) has computed, `materializeDueScheduleRun`
  is given its `nowMs` before `BEGIN IMMEDIATE`. `since[p]` is the time the statement before
  ended, and such a step takes any time from then on (`Reading`) for its own. `SetNext` notes in
  the history `late` when another process has queued a later slot meanwhile (`Overtaken`):
  the next run goes back then, and `SlotsRunOnce` excuses that schedule, and no other.
- `NextSlot` is `getNextCronTime`: the first match strictly after a time. Time counts
  minutes, and one set of slots serves all patterns. An edit of the pattern is still an
  edit, and the next run is computed anew.
- Claims and executions belong to `CronQueue`. `ClaimDue` claims any due rows at once,
  whatever the limits leave room for, and cancels the claims of disabled specs.
- Abstractions that join statements: `updateSchedule` reads the schedule for its
  validation in the step of the transaction that follows, and `upsertSpec` reads and
  writes a file's row in one step. A claim and the look at the spec that
  `executeClaim` begins with are one step. `updateHubSchedule` computes the next run inside
  its transaction, with the lock; the checks of `updateSchedule` and the time of a manual run
  are taken from the clock of their step, and `NextComputed` reads row and clock together.

### 2.3 SessionTurns

One Node event loop; a step is the code from one await to the next. The state is
that of `ActiveSession` and `SessionRuntime`, and a phase for each call of
`runTurn`:

    idle -> queued                                    (runTurn returns at once)
    idle -> preparing -> setup -> turn -> settling -> returned
                  ^          |     |  \-> refreshing -> setup    (result: auth error)
                  |          |     \----> reauth ----^ (to setup) (throw: auth error)
                  \----------+-----> raising -> settling (aborted)
                                             \-> failing -> failed

- `preparing` is `executeTurn` before it reaches the agent (persistence, git
  metadata, credentials), `setup` the run before its agent loop, `settling` the
  awaits after it. `Begin` is `agent.run`, which checks again that the agent is
  free, and refuses otherwise.
- `Drain` is the one call of `runTurn` the queue makes for itself. A drain is
  scheduled as a microtask (`drainDue`), which runs before anything else.
- `stopSession` and the failure of a turn share `shutdownSession`: `ShutdownBegins`,
  `AgentShutdown`, `Forget`. `dispose` has the same shape as `stopSession`.
- Prompt texts are model values; attachments and modes are left out. `UpdatePrompt` may give
  an entry another delivery and another text, which may be that of another entry. Instead of
  an id, which it keeps for life, an entry carries the calls whose prompts it holds (`calls`:
  two if the same prompt was sent twice) and whether an update has reworded it; `submitted` and
  `dropped` are history, the calls whose prompts have left the queue.

### 2.4 HubRuns

One event loop again, over a database that outlives it. The rows of `hub_runs`
(`state`, `seq`) survive `Dies`; pumps, sessions and turns do not.

- `HubRunExecutor.activeSessions` is the set of sessions whose pump is not `idle`.
  A pump is `looking` while `handleSessionInput` looks the session up, in its
  `turn` while `runTurn` is awaited, `replying` while the snapshot for the reply is
  read, and `settled` between the end of `drainSession` and its `finally`, which is
  when an admission finds the session active and relies on the `finally` block.
- `Record` is `markTerminal` together with the next round of the loop, which marks
  the next row running before it awaits anything. `Admit` includes the synchronous
  start of an idle pump, and `Restart` is `startRunQueue`: recovery of the rows and
  the start of the pumps.
- `turn[r]` is what became of the prompt of run `r` in the host: awaited by the
  pump; `detached`, under way with nobody waiting for it (after a time-out, or when
  the host submits a prompt it had queued); `deferred`, queued by the host;
  `dropped` with the session. The host is abstract otherwise: `runTurn` may return,
  throw or, if it queues the prompt (`HostQueues`), return without a result: behind another turn
  (`Occupied`), because the payload of the run asks for it (`Behind`), or because the agent is not free
  although no turn is under way (`Wedged`: a session that is being stopped, or the one of `TurnsWedged`).
  That these are all the reasons, and that a call which throws has taken its session with it, is
  `AnswersAreForCause` of `SessionTurns`, which is proved there; that it returns at all is what the run
  `Turns` shows (`CallsReturn`).
- `hub` follows `HubServerTransport.stop`: `up`, `stopping`, `disposed` (the host),
  `closed` (the queue), `down`. A queue closed under a pump throws in the pump's
  `finally` block as well; nothing catches that rejection, and the daemon's handler
  turns it into a fatal error (`PumpBreaks`), so that a graceful stop may end with
  exit code 1.
- `ShutdownCoordinator` is the code's state, request by request. The process ends
  when it exits, so nothing follows `exitCode`.

### 2.5 CronEventIngress

`ingestEvent` takes the time and then runs one `BEGIN IMMEDIATE` transaction, which may
wait for another process: `Deliver` is the first, `Accept` or `Duplicate` the second
(the log entry, for every matching spec the look at the runs there are, and the run that
is queued or postponed). `RolledBack` is a transaction that fails, or a process that
dies in it; the sender may deliver the event again.

- A run is named by its spec and the event that created it. `trigger` is
  `trigger_event_id`, by which the dedupe window and the cooldown look runs up; a
  debounced event replaces it.
- `covers` is history: the events a run was queued or postponed for.
- The stamp is what the code calls `receivedAt`. A stamp that has waited is older than
  those of events accepted before it. With a debounce, it may become the trigger of a
  run that a later-stamped event triggered, so that the window of that run is measured from
  the earlier time; `WindowInv` and `SuppressedForCause`, which is part of `CoverageInv`, are stated accordingly.
- `Ledger` maps the rows to `RunLedger`: a row that was queued for an event, its one claim, its outcome.
- `Claim` is the claim together with `executeClaim`'s look at the spec. `Reconcile` and
  `CancelQueued` are what the reconciler does to a spec, in its two statements. The
  settings of a spec do not change.

### 2.6 HubEvents

The hub and one client that reconnects under the same client id; the hub may end and be
started again over the same log.

- `Publish` appends to the log and sends to every subscription of the client that is
  heard. `Gate` is the function `gate` in the handler of `stream.subscribe` during a replay: what is published then is held
  back. `Turn` is one turn of the replay loop, a page of `listAfter` or the end with its
  `Flush`; between turns the loop is free.
- `Subscribe` without a cursor goes live at once. Either way the pending approvals are
  issued again; such a frame has no sequence number, so that a frame is either the index
  of an event or an approval.
- `Ask` and `Register` are the two sides of the await in `requestToolApproval`.
- `Drop` loses what is on the wire. The hub notices the end of a connection later
  (`NoticeClose`), perhaps when the client is back: it unregisters the client, and the
  listeners of the new connection go with those of the old one (`hears`). `Deaf` says
  that this has happened. Late frames of the old connection are lost.
- `Receive` advances the cursor of every key the event belongs to, whichever
  subscription has brought it.
- `Feed` is `EventFeed` with `seen` for what the subscriber has got and `Wanted` for what it
  subscribed to, both empty unless the client has one subscription (`OneKeyed`); section 6 says
  why a client with two gets no feed.
- `Overtaken(a)`: the event that asked for `a` is no longer logged and a later one has been sent. If
  a replay held that event back, its flush leaves it out (section 6).

### 2.7 AgendaTasks

One process, one event loop. A *chain* is a call that begins with a reconciliation of
the spec files; it waits where the reconciliation aborts a session, and when it goes on
it works with the listing it made before.

- `pc` is where a chain stands: `reconcile` and `loop` have the event loop (`Busy`: no
  other step comes between), `abort` waits for the session. After the reconciliation
  the call itself is done (read, approve, run, update).
- `phase` is where the execution of a run stands: the session that is started, its turn, the
  closing of the session. `runStatus` is the row, `activeRuns` the map of the manager.
- `CancelTask` needs no reconciliation. `Deadline` is the time of a task's expiry and `Expire` the
  look at the task that finds it.
- `Dispose`, `AwaitRuns`, `Disposed` are the steps of `dispose`; `Crash` leaves the rows as they
  are, and `Start` settles them (`Recovered`) before it reconciles the files.
- Every statement of the store commits by itself. Nothing of this process comes between the two that write a
  run and its task, so an action writes both; what can come between is the end of the process, and `CrashWithin`
  is that: between `updateRun` and `updateTaskState` in `finishRun`, `finishRunFailure`,
  `cancelTask` and after the start of a session (`CrashBetween`), between `createRun` and the task
  (`CrashCreating`), between the two statements of `updateTask` (`CrashUpdating`), and anywhere in the loops of
  `dispose` and of the recovery (`CrashDisposing`, `CrashRecovering`: some runs are written, and their tasks
  but for the last). `torn` is history: the runs whose outcome was written and whose task was not.
- Awaits that do not wait (`reconcileScope` and the like, which do file system calls that are synchronous and
  resume in microtasks) do not let other calls in: a chain keeps the loop (`Busy`) until it waits for the runtime.
- `sanctioned` is history: the revisions somebody has asked to approve.
- A spec file is the same as the row, edited, or missing.

## 3. Runs

| Run | Instance | What it shows |
| --- | --- | --- |
| `CronQueue` | two runners, one run with a time limit, scheduled up to one tick ahead, a lease of two ticks, two claims, one fault; `FairSpec` | claims stay with one owner, sessions are released, no claim survives `stop()`, turns are begun by the holder, who loses the claim with its outcome or after its lease only, the rows follow `RunLedger`; queued runs end, `stop()` resolves |
| `CronQueueCapacity` | one runner, four runs of two specs, global limit 2, batch limit 2, spec limits 1 and 2 | each batch keeps both limits and leaves nothing behind there is room for |
| `CronScheduleRaces` | two processes, one hub schedule of either kind, one schedule file, slots at 2 and 3, times 1 and 2, two revisions in all | no slot is run twice but for the late write of a next run, one record per revision of a one-off |
| `CronScheduleLive` | one process that may crash once, one hub schedule of either kind, one one-off file, two revisions, one manual run; `FairSpec` | a one-off runs once although it may be triggered by hand, queued one-offs are of the current revision, the rows follow `RunLedger`, schedules advance, one-offs are queued |
| `CronEventIngress` | two processes, three events of two keys, one spec with debounce 1, window 2 and cooldown 1, time to 3 | each event is covered by one run or dropped for cause; debouncing postpones one run; the window is kept; the rows follow `RunLedger` |
| `HubEvents` | two sessions, one approval, pages of one event, two events before sessions fall silent; a client of all sessions or of one with two faults, or with both subscriptions and one fault; `FairSpec` | what a client with one subscription gets is a feed of the log over replays, prunings, drops and restarts: in order, nothing twice, nothing left out; approvals are shown and settle unless overtaken; later events arrive |
| `AgendaTasks` | one task with two calls under way, two runs and an edit, or that is edited and expires, with one crash or disposal, between any two statements; one or two tasks with two of them; two tasks whose files are deleted, with none; `FairSpec` | a task in progress is executed unless a crash tore it from its run, nothing runs but what somebody asked to approve, outcomes stay, no other task stays in progress for ever |
| `Turns` | two clients with a prompt each, one gesture, any two of five faults; `FairSpec` | one turn at a time, promises awaited are of runs that end, the prompt of a queued call in one place, neither lost nor doubled, and not left without anybody to submit it, calls answered for the reasons `HubRuns` assumes, and submitted unless the agent is stuck; every call returns, every shutdown completes |
| `HubRuns` | three runs of one session, one with a time-out and one that asks the host to queue its prompt, two pending at most, one fault; `FairSpec` | rows and pumps agree, first come first served, no turn begun twice, fatal errors in the exit code, a watchdog over every shutdown; every run settles, every shutdown ends |
| `CronQueueReclaim`, `TurnsWedged`, `HubRunsDropped` | as small as the counterexample allows | the code departs from what a comment or a test says; section 6 |

### Bounds, and why they are enough

Bounds are guards named in the modules (`MaxAttempts`, `MaxFaults`, `MaxWait`,
`MaxGestures`, `MaxTime`, `MaxRevision` for the revisions of all specs together, `MaxManual`, `MaxRow` for the rows compared with `RunLedger`,
`MaxEmitted`, `MaxRun`; `Bounds` of `AgendaTasks` and `KeySets` of `HubEvents` list the
instances one of which `Init` chooses).

- Runs of one spec interact through capacity only, and everything about a claim
  (lease, token, `activeRuns`, abort) concerns one run and at most two runners:
  one that loses the claim and one that takes it. Two claims and a fault give an
  executor that goes on after its run was claimed anew, in the same process or in
  another. What more claims could add to safety is covered by the proofs, which
  hold for every value of the bounds. For liveness the fault keeps `MaxFaults < MaxAttempts`: a run that
  used up `MaxAttempts` would stay claimable in the code.
- Capacity needs four runs: a spec saturated with an older backlog and a second
  one behind it, with a batch limit that can cut between them.
- Polls of two processes collide at one spec at a time, and a third process can do
  nothing to a row that one of the two cannot. The specs interact through the poll
  that handles both: one of each kind is enough. Time 1 is before a slot and time 2
  at one, the slot at 3 is the one to come, and a next run computed at 1 and written after
  the slot at 2 was queued is one that is set back. Runs by hand are left to the other run: they
  touch no recurring schedule. Two revisions in all are one spec edited
  or two specs. `OneOffRunsOnce` and `QueuedOneOffsAreCurrent` are claims about one
  process, and the run checks them with one: section 6 says what a second one does.
- Event specs do not interact, so one is enough. Two events of a key and one of another
  tell the window from the cooldown, which counts every key; the
  window is longer than the cooldown, so that either may decide. Two processes give a
  stamp that waits while a later one is accepted. The processes are interchangeable,
  as are the two events of one key, which is the symmetry of that run.
- The subscriptions of a client meet in its cursors only; one client is enough, since
  hub and client keep nothing per pair of clients. Two events and those an approval
  publishes fill two pages of one and leave one to be held back. Two faults are a drop during
  the replay that follows a drop, a pruning while the client is away, or a hub that ends in between.
  An approval is overtaken only with four events (`MaxEmitted = 4`): that instance was checked while
  the invariant was sought; it takes too long for a run, and the proof covers it.
- Tasks of the agenda meet in a reconciliation, which looks at all of them: two tasks whose
  files are missing show one archived, or the run of one end, while it waits for the other's abort. Two runs of a task
  are the least for a late answer of the first to meet the second. Two faults are the least for a disposal or
  a recovery that is broken off, and two tasks for one that is after it has settled one of them; the files stay as they
  are in these instances (`files`).
- A session has one drain and at most one call in the agent. Two clients give a
  running turn and a prompt that is queued, or a turn being prepared on the same agent.
  Their prompts differ, but the gesture may reword one to the other, before the second is queued, which then
  joins the first, or after, which leaves two equal entries. What happens when one more call sends their
  text is left to the proof of `PromptsAreQueuedOnce`. The run has no abort while the session is idle (`IdleAborts`); section 6 says why.
- Sessions of the hub interact only through the daemon, so one session is enough;
  two runs are needed for order and a third for an admission that is refused, or
  that finds a pump with one run ended and one waiting. One of the three has a time-out and one asks to be queued. A fault is a crash, a fatal error or a
  request to shut down, after which the cleanup may end, fail, hang or, when a pump breaks, meet a fatal error.
- `CHECK_DEADLOCK FALSE`: with all runs ended, all calls returned or all events
  delivered there is nothing left to do.

### Fairness

- `CronQueue!FairSpec`: pollers keep polling and a stopped or crashed process is
  started again (the daemon is supervised; its interval timer re-arms itself),
  time passes, the runtime answers and turns end (each is bounded by the
  runtime's own limits or by `timeoutSeconds`). Strong fairness, because a
  callback that is ready is only intermittently *enabled* while other synchronous
  sections of the same loop take turns. Enqueuing, disabling, stopping, crashing
  and sleeping are never forced.
- `CronSchedule!FairSpec`: a process that has begun an operation goes on with it, its code
  being synchronous (weak fairness), and polls again and again, its timer being an
  interval (strong fairness: between any two client calls the loop is free). Clients,
  edits of files, ends of executions, crashes and the clock are never forced.
- `HubEvents!FairSpec`: a client that has subscriptions reconnects (its retries have no limit), the hub notices
  the end of a connection (by its heartbeat) and is started again by the next client that needs it,
  frames arrive, replays go on, and the user answers what he is shown. Weak fairness: nothing
  disables these but themselves and a bounded number of faults.
- `AgendaTasks!FairSpec`: a call that has the event loop goes on with it and a process that has
  ended is started again (weak fairness); an abort that is awaited returns, an execution goes
  on and a disposal ends, each of which waits for the loop to be free (strong fairness). Sessions
  are bounded by the runtime's own limits. Approvals, cancellations, edits, crashes and disposals are never forced.
- `HubRuns!FairSpec`: pumps go on, the watchdog's timer fires, and a daemon that is
  gone is started again (by the next client that needs one). The cleanup is not
  assumed to end: that is what the watchdog is for. Faults are bounded.
- `SessionTurns!FairSpec`: the event loop runs what is ready and a turn under way
  ends. Nobody has to send, edit, abort or stop.

## 4. Proofs

For every value of the constants allowed by the named assumptions:

- `TypeCorrect` (of `CronQueue` and of `CronSchedule`), `TurnsTypeCorrect`, `HubTypeCorrect`: type
  correctness. The queue of prompts needs facts about sequences (`RemoveAtType`,
  `InsertAtType`, `EnqueuedType`, `UpdatedType`).

Of `CronQueue`:

- `ClaimsAreOwned`, and with it `QueueIsConsistent`: `ClaimInv`, which is inductive together with
  `TypeOK`: a row names a claim exactly while it runs, it is the youngest of the run, and the
  executor it names is at work or crashed. The lemmas `HolderIsNamed` and
  `CompleteRunKeepsClaims` carry the token check of `completeRun`.
- `RefinesLedger`: every step is a step or a stutter of `RunLedger`
  under `claims <- attempts`, from `ClaimInv`: an executor whose token check
  succeeds works on a row that is running. `OutcomesAreFinal` follows from the same invariant.
- `StopsLeaveNoClaim`: from `RunnerInv`, that a runner which does not poll has nothing under
  way and one that has stopped has no execution left; `PhaseSteps` and `OwnerSteps` say
  what a step may do to an execution and to its owner.
- `ClaimsExclude`: the executor that begins a turn or records an outcome holds the claim
  (`HoldersBeginTurns`), and a claim ends with the outcome its holder records, or is
  taken by a poll after its lease ran out (`LeasesProtectClaims`): no late executor, stop or
  deletion of a spec ends the claim of another. Both follow from `ClaimInv`, step by step.
- `LimitsAreRespected`, `NoneLeftBehind`: what a claim batch is, for any number of runs and specs and any
  limits. `ClaimBatch` counts, so these rest on the library's facts about finite sets: a batch is finite
  and apart from the live rows (`BatchIsFinite`), its last row in rank order was admitted with all others
  counted, which gives the limits (`BatchFits`), and a due row that is not in it was refused by a count the batch
  is part of (`LeftOutForRoom`). `TokensRise` says that nothing but a poll's claim adds to what is live.
- `SessionsAreNotLeaked`: an execution that has ended has released its session, step by step through
  `executeClaim` (`LeaksStep`).

Of `CronSchedule`, all by the lemma `StepHasShape`: whatever the step, it
leaves the rows on record as they are but for a status that moves on
(`RunsKept`), or adds one queued row, by hand, of a one-off not on record, or for
the next run of a schedule (`RunAdded`); and it changes a schedule's next run
only to nothing, or to a time that is later than it, than now or than all runs
on record, unless it is late (`NextMoves`, `NextLater`).

- `SlotsAreRunOnce`: from `SlotInv`, which adds to `SlotsRunOnce` that the slots on record
  lie in the past, and before the next run of their schedule if that was never set too late
  (`SlotsArePast`).
  Without it a next run that is reset by an edit could be a slot that was run.
  `NextSetInTime` is the case of a statement that has waited: what it computed at a time no run
  on record has passed is later than them all. It
  assumes that `getNextCronTime` answers with a later time (`SlotAssumption`) and that the
  clock, which all processes share, does not go back.
- `OneRecordIsKept`, `RowsAreConsistent`: `OneRecordPerRevision` is inductive with the types: the unique index.
- `RowsRefineLedger`: the rows behave as `RunLedger` says, with a row's claim as its first
  one, from `QueuedRowsAreUnclaimed`. Together with `RefinesLedger` this is what lets the
  two halves of the store be modelled apart.
- `SlotsRunOnceAlone` (in `CronOneOffProofs`): with one process (`OneProcess`) nothing is late and
  slots are in order without exception. `OnTime` says why: what the process has read of the clock
  is not before any slot it has queued.
- `OneOffsRunOnce`, `QueuedOneOffsStayCurrent` (in `CronOneOffProofs`): what is promised of one-offs
  holds if one process works on the database, an assumption of that module
  (`OneProcess`) without which both fail. `OneOffInv` has to say what the process knows
  between two statements of its poll: that its list is as the rows are (`ListIsCurrent`)
  and that the one-off it is about to insert has not run (`InsertIsFirst`); and of the rows, that
  no revision is still to come (`RowsArePast`) and one run of the present revision is not cancelled (`OneActive`).

Of `CronEventIngress`, from one inductive invariant (`IInv`), the interesting step being `Accept`:

- `EventsAreCoveredOnce`, `DebouncePostpones`: an event is covered by at most one run of a spec,
  and exactly then reported as queued; while a run waits there is no other of its key.
- `WindowIsKept`: the dedupe window holds over the triggers as they are replaced. It needs
  that a run which waits was created last of its key (`WaitingIsLast`), so that postponing it moves
  no trigger that a later run was measured by.
- `DropsHaveCause`: an event that was dropped was dropped because of one before it. With
  `EventsAreCoveredOnce` it is `EventsAreAccountedFor`.
- `EventRowsRefineLedger`: the rows behave as `RunLedger` says. A row that is postponed stutters, and a row
  that `Accept` adds is new, which needs that an event without a run has none of any status. With
  `RefinesLedger` and `RowsRefineLedger` this is the third module that shares the table
  `cron_runs`, and the reason it may be modelled apart from the others.

Of `AgendaTasks`, from `AgendaInv`:

- `TasksInProgressAreExecuted`: `CurrentInv`: while the current run of a task lives, neither the task's revision
  nor its approval moves on from those of the run, although calls go on with listings that are out of date. Nothing
  is assumed of where the process ends: the invariant holds after every statement that commits, and says of a
  torn run only that it is still the task's and of its revision.
- `AgendaOutcomesAreFinal`: `ActiveInv`: `activeRuns` names only runs of the task that have not
  ended, or have failed, which is why a disposal may overwrite a failure and nothing else.
- `SanctionedIntentRuns`: `SanctionInv`: an approval carries the revision it was asked for over the
  await of the reconciliation.

Of `SessionTurns`:

- `TurnsOneAtATime`, and with it `TurnsAreConsistent`: `AgentInv`, which is inductive together with `TypeOK`. The
  interesting cases are those in which `canStartRun` holds although a call is
  inside `executeRun` (between the two runs of an authentication retry): a second
  call may take over `activeRunPromise`, and the lemma `RunLeft` shows that
  whichever call leaves its run takes with it everybody who waits for it.
- `PromptsAreQueuedOnce`: while the session lives, the prompt of a queued call is in one entry of the queue,
  was submitted, or was deleted or discarded by an abort, and only one of these; two entries have
  the same text only if one of them was reworded (`Apart`), and steers stand first.
  `RemoveAtKeeps`, `EnqueuedKeeps`, `UpdatedKeeps` and `TailKeeps` say for each operation on the
  queue what it does to the calls in it and their order, also when the same prompt is queued again
  (`EnqueuedCases`) or reworded where it stands (`ReplacedKeeps`). It is inductive.
- `NoWakeUpIsLost`: while a prompt is queued, a drain is due, or a turn or a shutdown is under way; what else
  keeps it is an agent that is stuck, an abort while nothing was under way (`IdleAborts`), or a turn that
  finished with an error. This is the safety half of
  `PromptsRunUnlessStuck`: with it, what remains for fairness is that calls in flight go on.
  It is not inductive by itself; `WakeInv` adds what the early return of `drain` relies
  on: an agent that was shut down belongs to a session being closed, and an abort ends with
  the turn it was meant for, and `DrainInv` that the queue's own call never waits to be queued.
- `AnswersHaveCauses`: what `HubRuns` takes for granted of its host. A prompt that nobody asked to queue is
  queued behind another turn, in a session that is ending, or on a stuck agent, which is `WakeInv` again;
  a call throws only when its session has ended, which needs that a call that fails is shutting its session
  down (`FailInv`).

Of `HubRuns`:

- `RunsAreExecutedByPumps`, and with it `HubIsConsistent`: `PumpInv`, which is inductive
  with the types. It says which pumps have a current row, that this row is running, and,
  while the queue is open, that there is no other running row and no queued row
  without a pump. Its critical steps are `Settled` (the second look at the queue) and
  `Restart`.
- `RunOutcomesAreFinal`, `RefinesFifo`: from `PumpInv` every step but an admission is
  a `QueueStep`, which takes queued rows, each the first of its session and with no
  other row of the session left running, and ends running ones. The order needs
  `SeqInv` in addition: no sequence number is above the last one handed out.
- `NoRunOvertakes`: from the service alone, `FifoSpec => []ServiceInv`: the runs of a session are taken in the order
  they were admitted, one at a time. Through `RefinesFifo` this holds of the rows of `hub_runs`, over crashes.
- `ShutdownsAreWatched`: a daemon that shuts down has its watchdog until it exits, whatever becomes of the
  cleanup, and a daemon that nobody asked to shut down has stopped nothing: the safety half of `ShutdownEnds`.
- `RunsBeginOnce`: from `TurnInv`, that the prompt of a queued row, or of one whose
  session is still being looked up, has not reached the host.
- `FatalErrorsReachTheExit`: from `ExitInv`, that a fatal error is in the requested
  code already.

Of `HubEvents`, for any number of sessions, approvals and events, any subscriptions and pages of any size:

- `RefinesFeed`: what a client with one subscription gets is a feed of the log (`FeedSpec`).
- `EventsAreSound`: `EventsInv`, which says the same of every state, and that no approval is pending behind the back of
  a client that is there.
- `DeliveryInvariant`: what both rest on. `NothingMissed` is not inductive: a gap in what the
  client has got is made earlier, in what is buffered, replayed or sent. So `OneKeyInv` says of everything
  got or on its way (`Got`) that it is a whole stretch of what the log still holds (`Whole`), in order
  (`Rising`), complete up to the last event replayed while a replay goes on (`SentUpTo`) and up to the end of
  the log once the subscription is live; `ReplayInv`, that what is held back is in order and that what of it is not
  after the last event replayed has been replayed or was pruned before; `ConnInv`, which
  connection a subscription belongs to; `ShownInv`, for every approval, that a replay has sent it
  or holds it back, or that it was overtaken. TLC checked the conjunction before it was proved.
- What these need of pages and buffers is stated as lemmas about the frames in them (`PageFrames`,
  `FlushFrames`, `IssuedFrames`): a page is empty only if nothing is left and otherwise all that is left
  up to its last event. They rest on `AscendingOrder`: listing a finite set of numbers in order gives
  each of them once, by the bijection that takes a number to its rank.

Every safety property of the passing runs is a theorem or a conjunct of one. Only model-checked:
the liveness properties (`EveryRunEnds`, `StopResolves`, `SessionsAreReleased`, `SchedulesAdvance`,
`OneOffsAreQueued`, `ApprovalsSettle`, `EventsArrive`, `TasksSettle`, `PromptsRunUnlessStuck`, `CallsReturn`,
`ShutdownsComplete`, `EveryRunSettles`, `ShutdownEnds`), since fairness and `ENABLED` are out of the prover's
reach. So is induction over data; where an argument needs it, for a minimum, a
cardinality or an order, it is taken from the library's theorems about finite sets, and definitions that count or
list (`ClaimBatch`, `Ascending`) are written so that those apply.

## 5. What is not modelled

- `requeueRun` is never reached: `executeClaim` asks for it when the runner is stopping, and between
  `tick`'s look at `stopping` and that one nothing is awaited. Reports, telemetry and SQL errors
  (busy, I/O) are left out. A queued row is cancelled by `cancelQueuedOneOff` and
  `consumeOneOffWithManualRun` in the same way as by the deletion of its spec,
  which stands for them.
- In `CronQueue` a spec is three flags; its revisions and next runs are `CronSchedule`.
- Of the specs: the calendar arithmetic behind `getNextCronTime`, time zones, a pattern
  that never matches, retries, tags, listings for display, the limit of
  500 specs in one listing. Parsing of spec files, the watcher's debounce and the reports.
  A file that does not parse is one whose content says disabled, since its row is then
  not valid, which every listing asks for together with enabled.
- Team runs with auto-continuation, non-interactive sessions (one turn, then the
  session ends), session start, restore and checkpoints.
- Of the hub daemon: the window before its shutdown coordinator exists, where a
  trigger is kept until it does; the instance lock, which is assumed (one daemon at a
  time); the deletion of rows a week after they ended; SQL errors while the queue is
  open. The host's pending prompts are sets here; their order is `SessionTurns`.
- Of event ingress: types, attributes and filters of events, which are a relation between
  events and specs here; an edit of a spec's settings; deletion of old log entries.
- Of `HubEvents`: a log that cannot be opened or appended to (the hub then delivers live
  only), the cap on replayed pages, unsubscribing, the refusal of non-interactive sessions,
  capability requests, events of registration, commands other than the answer to
  an approval, and other clients.
- Of the agenda: the creation of tasks, spec files that are invalid, moved or renamed, scopes, the automation's
  policy and limits (it is a client like others), priorities and listings.
- After a turn, `releaseSessionRuntime` for a session in a terminal status has the
  shape of `shutdownSession` and is not separate.
- The agent loop inside a turn is one phase: it may take steers and ends in one of
  three ways, or throws.
- The hub's transport outside of drain and stop (routing of commands, projection of session
  events) keeps no protocol of its own; the instance lock is file system semantics.
- Agent teams, the agent loop and the single flight of OAuth refreshes are in memory of one process and
  share nothing with what is modelled; section 7 says what is worth stating of them. Connector
  supervision, session files and checkpoints, model providers and applications are I/O and presentation.

## 6. Where the code departs from what it says

Each has a run, and an entry under "findings" with the line quoted.

| Run | What happens |
| --- | --- |
| `CronQueueReclaim` | `executeClaim`'s finally block deletes `activeRuns` by run id. After an older attempt of the same process ends, the newer one is not renewed by `tick` and may be claimed, and started, a third time |
| `HubRunsDropped` | `runTurn` answers without a result when it has queued the prompt behind another turn; the run is recorded as completed, and the prompt is dropped if the session, or the daemon, ends first |
| `TurnsWedged` | a set-up that fails leaves `running` set. If an abort was in force the session survives with an agent that never becomes free, and its queue is never drained |

Further observations made while modelling, which no run states:

- A slot of a recurring schedule may run twice when two processes share the database. One computes
  the next run just before a slot, for a schedule it creates or a file it reconciles, and its
  UPDATE waits for the lock; the poll of the other finds the schedule without a next run or with that
  slot, queues the slot and moves on to the next; the UPDATE, which does not look at the
  row (`sqlite-cron-store.ts:1132`), sets the next run back, and the slot is queued again. `SlotsRunOnce`
  without its condition on `late` fails in `CronScheduleRaces`.
- A one-time schedule may run before its time. Its next run is set to nothing when it is
  triggered by hand (`consumeOneOffWithManualRun`) and when a run of it ends, whatever
  revision it has by then (`cron-runner.ts:456`); a one-off without a next run is
  queued for now (`cron-materializer.ts:81`). So: a schedule for tomorrow is triggered
  by hand and then its prompt edited, which makes a new revision and does not set the
  next run (`sqlite-cron-store.ts:771`); or it is moved to tomorrow while its run of
  today is still going. Either way the next poll runs it. Another process's poll
  between the two statements of `createHubSchedule` has the same effect.
- With two processes, one may check that a one-off has not been run, the other run it by
  hand, and the first then insert: `InsertOneOff` looks for rows of trigger `one_off`
  only, as the index does. In the same way the revision it queues may have been edited
  or deleted since it was listed.
- A poll that loses the race for a one-off fails as a whole: `materializeAll` catches errors of
  recurring schedules, not of one-offs, so that poll queues no schedule and claims nothing.
- An edit of a one-off's file leaves the queued run of the old content in place, and a
  file that was deleted and restored as it was does not run again, its revision being
  on record as cancelled.
- A send while another call of `runTurn` is being prepared is not queued: `canStartRun`
  (`local-runtime-host.ts:1085`) stays true over the awaits of `executeTurn`, the agent
  refuses the second run, and the session fails. `local-runtime-host.test.ts:5191` tests
  sends to a running session only.
- `update` of a pending prompt compares its new text with no other entry (`pending-prompt-service.ts:86`):
  a prompt reworded to the text of another is queued twice, and run twice, although `enqueue` takes care
  that no text is; a later send of that text moves the first of the two.
- `stopSession` while a turn is being prepared takes the branch of an idle agent
  (`local-runtime-host.ts:1218`). If the run starts before `agent.shutdown` is called, that
  throws, the error is only recorded, and the session is deleted under the run.
- `renewClaim` compares the token only: it revives an expired lease without looking at
  capacity, so that a spec may have more live runs than `max_parallel` after its
  machine slept.
- `executeRunInternal` resets `abortRequested` when it begins: an abort that comes
  while a turn is prepared is lost, and the turn runs to its end.
- The payload of `run.enqueue` reaches the host as it is, with its `delivery` (`run-handlers.ts:262`). A
  run that asks for `queue` or `steer` is recorded as completed when its prompt has been queued, whether or
  not another turn is under way; what `HubRunsDropped` shows then needs no other turn.
- A graceful stop of the hub disposes of the host first: runs still queued are taken
  by their pumps, find no session and are recorded as failed, unless the queue is
  closed before; only those are left to the next daemon. Recovered runs fail in the
  same way unless their session has been restored by the time the pump looks.
- `Turns` with `IdleAborts = TRUE`: an abort just after the turn has ended
  stays in force until some later turn ends, and queued prompts wait
  (`QueuedPromptsRun` fails, as it does in `TurnsWedged`).
- A shutdown may complete while another call is running: it awaits the promise of
  a call that is between the two runs of its authentication retry, another call
  starts meanwhile, and the first one's promise settles. `AgentInv` therefore does
  not say that a running agent is not shut down.
- A heartbeat that finds its lease lost aborts the attempt registered under the
  run id, which may be the one that replaced it. The row is safe (`ClaimInv`); the
  healthy attempt is cancelled.
- A client may become deaf. Client ids outlive connections: when the hub notices the end of
  an older connection after the client is back, `client.unregister` deletes the listeners of
  the client (`hub-server-transport.ts:803`), those of the new connection among them, and the
  client, whose socket is open, is sent nothing until it reconnects. The hub notices
  a dead socket by its heartbeat only, so this is what happens when a client's network changes.
  It contradicts "disconnect never implies data loss" (`hub-event-log.ts:10`). `Deaf` in the liveness
  properties of `HubEvents` excuses exactly this; it is shown by that excuse, without which they fail, and has no run of its own.
- A client that subscribes to all sessions and to one has two cursors, which every event
  of that session advances (`hub/client/index.ts:986`). After a drop during the two replays the
  cursor of all sessions may stand behind an event of the one session, beyond events of
  others it has not got. `NothingMissed` and `FeedSpec` are therefore stated for clients with one subscription.
- A client that has got no event yet has no cursor and is live only when it reconnects:
  what was published while it was away is not replayed (pending approvals are issued again).
- A pending approval that is issued again during a replay is held back with what is published,
  and may be delivered after the event that resolves it.
- `stream.unsubscribe` during a replay does not end the replay loop (`browser-websocket.ts:429`).
- An abort between the await of `requestToolApproval` (`approval-handlers.ts:28`) and the registration of
  the approval finds nothing to cancel; the approval is then pending for a run that is over.
- An approval may be hidden from a client that is connected. The event that asks for it is held back during a
  replay; the log is pruned of it before the replay gets there; a later page moves the replay's
  `last` beyond it; and the flush leaves out whatever is not after `last` (`browser-websocket.ts:363`). The client
  is shown the request when it reconnects, until when the turn waits. `Overtaken` in `PendingIsShown` and
  `ApprovalsSettle` excuses exactly this. It came to light because the invariant was not inductive without
  it; TLC shows it with four events (`MaxEmitted = 4`). For other events nothing is lost by this that was not
  pruned, which is why `FeedSpec` holds.
- A task of the agenda may stay in progress for good. `updateRun` and `updateTaskState` commit one by one
  (`agenda-task-manager.ts:846`, `:902`, `:649`, `:345`), and so they do in the recovery (`:1205`). If the process
  ends between them, the run has ended and the task still names it; the next start lists runs that are starting
  or running (`:1201`) and does not come to that task, which cannot be run, updated or expire. A client must cancel
  it, or its file be deleted. A task that was approved and whose session failed to start is left waiting for the
  ended run in the same way. `torn` in `InProgressIsExecuted` and `TasksSettle` excuses exactly these runs; without
  it both fail in `AgendaTasks`.
- A task that failed may be approved again while a run of it is being started (`:611`). The start then
  finds the status changed and cancels the run, and the task keeps it as its current run (`:750`): it is approved
  and is not run until it is edited or cancelled.
- `finishRun`'s finally block (`agenda-task-manager.ts:877`) deletes `activeRuns` by task id, also
  when a newer run of the task is registered there; a disposal then does not abort that run. When the start of a
  session fails and finds its task cancelled, `finishRunFailure` returns before the deletion (line 908) and the entry stays.
- A reconciliation that awaits an abort archives the other missing tasks as it listed them before
  (`agenda-task-manager.ts:1141`): a task that was approved or completed meanwhile is archived as deleted.
- A run whose session answers that it was cancelled, when the task has been archived meanwhile,
  stays `running` in its row until the next start recovers it.
- The cooldown of an event spec is described as a wait "after a run"
  (`sdk/examples/cron/README.md:144` and `:320`). The code measures it from the time its trigger event
  was received (`hasRecentEventRunForSpec`): a run that takes longer than the cooldown does not hold the next one back,
  and a debounced run may start when its cooldown is over.

## 7. Plan

What is left that a model would say something about, in this order:

1. Agent teams (`extensions/tools/team/multi-agent.ts`): claims of tasks, the run queue with
   its concurrency limit and delayed retries, runs that are interrupted by a restart.
2. `HubRuns` composed with `SessionTurns`: an abstract host whose answers are those
   `HubRuns` assumes, implemented by `SessionTurns` step by step (`AnswersAreForCause` is the part of it
   that is about single states); with it, what an abort during the
   preparation of a turn does to a run of the queue.
3. OAuth refresh as a single flight with a forced variant, and the agent loop's pairing of tool calls
   with results under an abort.
4. Capability requests of the hub beside its approvals, and two clients answering the same request.
5. Mistake and loop tracking as pure operators checked against reference definitions.
