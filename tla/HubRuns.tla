------------------------------ MODULE HubRuns ------------------------------
(***************************************************************************)
(* The runs of a hub daemon: the durable queue hub_runs, the pump that     *)
(* executes one run after the other for each session, and the daemon's     *)
(* life cycle around them: drain, shutdown, crash, and recovery by the     *)
(* next daemon.                                                            *)
(*                                                                         *)
(* The daemon is one event loop; a step is the code from one await to the  *)
(* next.  The sessions are those of the LocalRuntimeHost, of which the     *)
(* queue sees the answers to runTurn: the turn's result, no result for a   *)
(* prompt that the host queued behind another turn, or an error.           *)
(***************************************************************************)
EXTENDS ShutdownCoordinator, FiniteSets

CONSTANTS
  Run,          \* run ids
  Session, SessionOf,
  NoRun,
  Timed,        \* the runs with a timeout
  Behind,       \* the runs whose payload asks the host to queue the prompt
  Wedged,       \* the sessions whose agent may be left running with no turn under way
  MaxPending,   \* maxPendingPerSession
  MaxFaults     \* bound: crashes and shutdown requests

ASSUME HubRunAssumption ==
  /\ NoRun \notin Run /\ SessionOf \in [Run -> Session] /\ Timed \subseteq Run
  /\ Behind \subseteq Run /\ Wedged \subseteq Session
ASSUME HubBoundAssumption == MaxPending \in Nat \ {0} /\ MaxFaults \in Nat

VARIABLES
  \* hub_runs
  state,       \* state; "none" before admission
  seq,         \* accepted_seq, 0 before admission
  admitted,    \* the last accepted_seq
  \* the daemon
  hub,         \* life cycle of the transport
  draining,
  loaded,      \* the sessions the host has in memory
  \* HubRunExecutor: activeSessions are the sessions whose pump is not idle
  pump,        \* where the pump of each session is
  current,     \* the run it executes
  turn,        \* what became of the prompt of each run in the host
  busy,        \* the sessions with a turn of a client's run.start
  fatalShutdownStarted,
  \* environment
  faults

dbVars == <<state, seq, admitted>>
pumpVars == <<pump, current>>
hostVars == <<loaded, turn, busy>>
hubVars == <<hub, draining>>
exitVars == <<fatalShutdownStarted, coordinatorVars>>
vars == <<dbVars, hubVars, pumpVars, hostVars, exitVars, faults>>

Outcome == {"completed", "failed", "aborted", "interrupted"}

TypeOK ==
  /\ state \in [Run -> {"none", "queued", "running"} \cup Outcome]
  /\ seq \in [Run -> Nat] /\ admitted \in Nat
  /\ hub \in {"up", "stopping", "disposed", "closed", "down"}
  /\ draining \in BOOLEAN /\ loaded \subseteq Session
  /\ pump \in [Session -> {"idle", "looking", "turn", "replying", "settled"}]
  /\ current \in [Session -> Run \cup {NoRun}]
  /\ turn \in [Run -> {"none", "awaited", "detached", "deferred", "dropped", "ended"}]
  /\ busy \subseteq Session /\ fatalShutdownStarted \in BOOLEAN
  /\ faults \in 0 .. MaxFaults
  /\ CoordinatorTypeOK

Init ==
  /\ state = [r \in Run |-> "none"] /\ seq = [r \in Run |-> 0] /\ admitted = 0
  /\ hub = "up" /\ draining = FALSE /\ loaded = {}
  /\ pump = [s \in Session |-> "idle"]
  /\ current = [s \in Session |-> NoRun]
  /\ turn = [r \in Run |-> "none"] /\ busy = {}
  /\ fatalShutdownStarted = FALSE /\ faults = 0
  /\ CoordinatorInit

Fault == faults < MaxFaults /\ faults' = faults + 1

-----------------------------------------------------------------------------
(* The queue. *)

RunsOf(s) == {r \in Run : SessionOf[r] = s}
Queued(s) == {r \in RunsOf(s) : state[r] = "queued"}
countPending(s) == Cardinality({r \in RunsOf(s) : state[r] \in {"queued", "running"}})

\* Mutant of First: the newest run.
Newest(r, Q) == r \in Q /\ \A x \in Q : seq[x] <= seq[r]

\* nextQueued among the rows Q.
First(r, Q) == r \in Q /\ \A x \in Q : seq[r] <= seq[x]

Admissible(r) ==
  /\ hub = "up" /\ ~draining
  /\ state[r] = "none" /\ countPending(SessionOf[r]) < MaxPending

\* The row that admit inserts comes after all the others.
Accepted(r) ==
  admitted' = admitted + 1 /\ seq' = [seq EXCEPT ![r] = admitted + 1]

markTerminal(r, outcome) == [state EXCEPT ![r] = outcome]

\* The rows a daemon that is gone has left running are closed.
recoverOnStartup ==
  [r \in Run |-> IF state[r] = "running" THEN "interrupted" ELSE state[r]]

\* Mutant of Admit: the pump is not started.
AdmitOnly(r) ==
  /\ Admissible(r)
  /\ Accepted(r)
  /\ state' = [state EXCEPT ![r] = "queued"]
  /\ UNCHANGED <<hubVars, pumpVars, hostVars, exitVars, faults>>

\* run.enqueue: admission, and the start of the pump if it is idle, which marks
\* the first run of the queue running before it awaits anything.
Admit(r) ==
  LET s == SessionOf[r] IN
    /\ Admissible(r)
    /\ Accepted(r)
    /\ \/ /\ pump[s] # "idle"
          /\ state' = [state EXCEPT ![r] = "queued"]
          /\ UNCHANGED pumpVars
       \/ /\ pump[s] = "idle"
          /\ \E q \in Queued(s) \cup {r} :
               /\ IF Queued(s) = {} THEN q = r ELSE First(q, Queued(s))
               /\ state' = [state EXCEPT ![r] = "queued", ![q] = "running"]
               /\ current' = [current EXCEPT ![s] = q]
          /\ pump' = [pump EXCEPT ![s] = "looking"]
    /\ UNCHANGED <<hubVars, hostVars, exitVars, faults>>

-----------------------------------------------------------------------------
(* Turns in the host. *)

\* Another turn than that of r is under way in its session.
Occupied(r) ==
  \/ SessionOf[r] \in busy
  \/ \E x \in RunsOf(SessionOf[r]) \ {r} : turn[x] \in {"awaited", "detached"}

\* The host queues the prompt of r: it is asked to, or finds its agent not free.
HostQueues(r) == r \in Behind \/ Occupied(r) \/ SessionOf[r] \in Wedged

\* The prompts that wait in the sessions S, which are gone, are dropped.
DroppingIn(S) ==
  [r \in Run |-> IF SessionOf[r] \in S /\ turn[r] = "deferred" THEN "dropped" ELSE turn[r]]

Alive == exitCode = -1 /\ hub # "down"

\* A prompt the host had queued is submitted, which concerns no pump any more.
DeferredTurn(r) ==
  /\ Alive /\ SessionOf[r] \in loaded
  /\ turn[r] = "deferred" /\ ~Occupied(r)
  /\ turn' = [turn EXCEPT ![r] = "detached"]
  /\ UNCHANGED <<dbVars, hubVars, pumpVars, loaded, busy, exitVars, faults>>

\* Mutant of DetachedEnd: the result of the turn is recorded.
DetachedEndRecorded(r) ==
  /\ Alive /\ turn[r] = "detached"
  /\ turn' = [turn EXCEPT ![r] = "ended"]
  /\ state' = [state EXCEPT ![r] = "completed"]
  /\ UNCHANGED <<seq, admitted, hubVars, pumpVars, loaded, busy, exitVars, faults>>

\* The turn of a run that timed out ends (run.late_end, which is only logged), or
\* that of a prompt the host had queued.
DetachedEnd(r) ==
  /\ Alive /\ turn[r] = "detached"
  /\ turn' = [turn EXCEPT ![r] = "ended"]
  /\ UNCHANGED <<dbVars, hubVars, pumpVars, loaded, busy, exitVars, faults>>

\* Turns of run.start, which do not go through the queue.
ClientTurn(s) ==
  /\ Alive
  /\ \/ hub = "up" /\ ~draining /\ s \in loaded /\ s \notin busy /\ busy' = busy \cup {s}
     \/ s \in busy /\ busy' = busy \ {s}
  /\ UNCHANGED <<dbVars, hubVars, pumpVars, loaded, turn, exitVars, faults>>

\* Clients start, restore and stop sessions.
LoadSession(s) ==
  /\ hub = "up" /\ ~draining /\ s \notin loaded
  /\ loaded' = loaded \cup {s}
  /\ UNCHANGED <<dbVars, hubVars, pumpVars, turn, busy, exitVars, faults>>

StopSession(s) ==
  /\ hub = "up" /\ s \in loaded
  /\ loaded' = loaded \ {s} /\ turn' = DroppingIn({s})
  /\ UNCHANGED <<dbVars, hubVars, pumpVars, busy, exitVars, faults>>

-----------------------------------------------------------------------------
(* The pump of session s. *)

Working(s) == Alive /\ hub # "closed" /\ current[s] # NoRun

\* execute has an outcome for the current run: markTerminal, and the loop of
\* drainSession goes on with the next queued run or ends.
Record(s, outcome) ==
  LET done == markTerminal(current[s], outcome) IN
    \/ /\ Queued(s) = {}
       /\ state' = done
       /\ current' = [current EXCEPT ![s] = NoRun]
       /\ pump' = [pump EXCEPT ![s] = "settled"]
    \/ \E q \in Queued(s) :
         /\ First(q, Queued(s))
         /\ state' = [done EXCEPT ![q] = "running"]
         /\ current' = [current EXCEPT ![s] = q]
         /\ pump' = [pump EXCEPT ![s] = "looking"]

\* handleSessionInput has looked the session up, and calls runTurn.  A session
\* the host does not have in memory fails the run, as a failing look-up does.
SessionLookedUp(s) ==
  /\ Working(s) /\ pump[s] = "looking"
  /\ \/ /\ s \in loaded /\ current[s] \notin Behind
        /\ pump' = [pump EXCEPT ![s] = "turn"]
        /\ turn' = [turn EXCEPT ![current[s]] = "awaited"]
        /\ UNCHANGED <<state, current>>
     \/ /\ s \in loaded /\ HostQueues(current[s])
        /\ pump' = [pump EXCEPT ![s] = "replying"]
        /\ turn' = [turn EXCEPT ![current[s]] = "deferred"]
        /\ UNCHANGED <<state, current>>
     \/ Record(s, "failed") /\ UNCHANGED turn
  /\ UNCHANGED <<seq, admitted, hubVars, loaded, busy, exitVars, faults>>

\* runTurn resolves with a result.
TurnReturns(s) ==
  /\ Working(s) /\ pump[s] = "turn"
  /\ pump' = [pump EXCEPT ![s] = "replying"]
  /\ turn' = [turn EXCEPT ![current[s]] = "ended"]
  /\ UNCHANGED <<dbVars, hubVars, current, loaded, busy, exitVars, faults>>

\* The snapshot for the reply is read, which may fail, and the outcome taken from
\* the result; a run whose prompt the host queued has none and counts as completed.
Reply(s) ==
  /\ Working(s) /\ pump[s] = "replying"
  /\ \/ Record(s, "completed")
     \/ Record(s, "failed")
     \/ turn[current[s]] = "ended" /\ Record(s, "aborted")
  /\ UNCHANGED <<seq, admitted, hubVars, hostVars, exitVars, faults>>

\* runTurn rejects: the turn failed, and the session with it, or is gone.
TurnThrows(s) ==
  /\ Working(s) /\ pump[s] = "turn"
  /\ Record(s, "failed")
  /\ loaded' = loaded \ {s}
  /\ turn' = [DroppingIn({s}) EXCEPT ![current[s]] = "ended"]
  /\ UNCHANGED <<seq, admitted, hubVars, busy, exitVars, faults>>

\* The run times out: its turn is aborted but not waited for.
TimedOut(s) ==
  /\ Working(s) /\ pump[s] = "turn" /\ current[s] \in Timed
  /\ Record(s, "failed")
  /\ turn' = [turn EXCEPT ![current[s]] = "detached"]
  /\ UNCHANGED <<seq, admitted, hubVars, loaded, busy, exitVars, faults>>

\* Mutant of Settled: the queue is not looked at again.
SettledBlindly(s) ==
  /\ Alive /\ hub # "closed" /\ pump[s] = "settled"
  /\ pump' = [pump EXCEPT ![s] = "idle"]
  /\ UNCHANGED <<dbVars, hubVars, current, hostVars, exitVars, faults>>

\* The finally block of pump: the session is no longer active, unless runs were
\* admitted since the loop ended.
Settled(s) ==
  /\ Alive /\ hub # "closed" /\ pump[s] = "settled"
  /\ \/ /\ Queued(s) = {}
        /\ pump' = [pump EXCEPT ![s] = "idle"]
        /\ UNCHANGED <<state, current>>
     \/ \E q \in Queued(s) :
          /\ First(q, Queued(s))
          /\ state' = [state EXCEPT ![q] = "running"]
          /\ current' = [current EXCEPT ![s] = q]
          /\ pump' = [pump EXCEPT ![s] = "looking"]
  /\ UNCHANGED <<seq, admitted, hubVars, hostVars, exitVars, faults>>

\* The queue has been closed under the pump: the next thing it writes or reads
\* throws, in the finally block too, where nothing catches it.  The rejection
\* that nobody handles is a fatal error of the daemon.
PumpBreaks(s) ==
  /\ Alive /\ hub = "closed" /\ pump[s] # "idle"
  /\ pump' = [pump EXCEPT ![s] = "idle"]
  /\ current' = [current EXCEPT ![s] = NoRun]
  /\ fatalShutdownStarted' = TRUE
  /\ IF fatalShutdownStarted THEN UNCHANGED coordinatorVars ELSE Request(1)
  /\ UNCHANGED <<dbVars, hubVars, hostVars, faults>>

-----------------------------------------------------------------------------
(* The daemon. *)

HubDrain ==
  /\ hub = "up" /\ draining' = ~draining
  /\ UNCHANGED <<dbVars, hub, pumpVars, hostVars, exitVars, faults>>

\* SIGINT, SIGTERM or an authenticated request for shutdown.
ShutdownRequested ==
  /\ Alive /\ Fault
  /\ Request(0)
  /\ UNCHANGED <<dbVars, hubVars, pumpVars, hostVars, fatalShutdownStarted>>

\* shutdownFatal: an exception or rejection that nobody handles; only the first.
FatalError ==
  /\ Alive /\ Fault
  /\ ~fatalShutdownStarted /\ fatalShutdownStarted' = TRUE
  /\ Request(1)
  /\ UNCHANGED <<dbVars, hubVars, pumpVars, hostVars>>

\* The cleanup: sockets are terminated, and the transport stops, the host first,
\* then the queue.
StopBegins ==
  /\ Alive /\ hub = "up"
  /\ CleanupStarts
  /\ hub' = "stopping"
  /\ UNCHANGED <<dbVars, draining, pumpVars, hostVars, fatalShutdownStarted, faults>>

HostDisposed ==
  /\ Alive /\ hub = "stopping"
  /\ hub' = "disposed"
  /\ loaded' = {} /\ turn' = DroppingIn(Session)
  /\ UNCHANGED <<dbVars, draining, pumpVars, busy, exitVars, faults>>

QueueClosed ==
  /\ Alive /\ hub = "disposed"
  /\ hub' = "closed"
  /\ UNCHANGED <<dbVars, draining, pumpVars, hostVars, exitVars, faults>>

\* The process ends with whatever was going on in it.
Dies ==
  /\ hub' = "down" /\ draining' = FALSE /\ loaded' = {} /\ busy' = {}
  /\ pump' = [s \in Session |-> "idle"]
  /\ current' = [s \in Session |-> NoRun]
  /\ turn' = [r \in Run |->
       IF turn[r] \in {"awaited", "detached"} THEN "ended" ELSE DroppingIn(Session)[r]]
  /\ UNCHANGED <<dbVars, fatalShutdownStarted>>

CleanedUp ==
  /\ Alive /\ hub = "closed"
  /\ CleanupEnds(TRUE) /\ Dies /\ UNCHANGED faults

\* Some part of the cleanup rejected, or the listener could not be closed.
CleanupFails ==
  /\ Alive /\ hub \in {"stopping", "disposed", "closed"}
  /\ CleanupEnds(FALSE) /\ Dies /\ UNCHANGED faults

DeadlineExceeded ==
  /\ Alive /\ watchdog
  /\ ForceExit(requestedExitCode) /\ Dies /\ UNCHANGED faults

SecondSignal ==
  /\ Alive /\ cleanup # "none"
  /\ ForceExit(0) /\ Dies /\ UNCHANGED faults

Crash ==
  /\ Alive
  /\ Fault
  /\ Dies /\ UNCHANGED coordinatorVars

\* Mutant of Restart: rows left running are taken up again with the queued ones.
RestartResuming ==
  /\ hub = "down" /\ hub' = "up"
  /\ CoordinatorRestarts /\ fatalShutdownStarted' = FALSE
  /\ \E next \in [Session -> Run \cup {NoRun}] :
       /\ \A s \in Session :
            LET rows == {r \in RunsOf(s) : state[r] \in {"queued", "running"}} IN
              IF rows = {} THEN next[s] = NoRun ELSE First(next[s], rows)
       /\ state' = [r \in Run |-> IF next[SessionOf[r]] = r THEN "running" ELSE state[r]]
       /\ current' = next
       /\ pump' = [s \in Session |-> IF next[s] = NoRun THEN "idle" ELSE "looking"]
  /\ UNCHANGED <<seq, admitted, draining, hostVars, faults>>

\* The next daemon: recoverOnStartup closes the rows left running, and the pump
\* of each session with queued runs is started.
Restart ==
  /\ hub = "down" /\ hub' = "up"
  /\ CoordinatorRestarts /\ fatalShutdownStarted' = FALSE
  /\ \E next \in [Session -> Run \cup {NoRun}] :
       /\ \A s \in Session :
            IF Queued(s) = {} THEN next[s] = NoRun ELSE First(next[s], Queued(s))
       /\ state' = [r \in Run |->
            IF next[SessionOf[r]] = r THEN "running" ELSE recoverOnStartup[r]]
       /\ current' = next
       /\ pump' = [s \in Session |-> IF next[s] = NoRun THEN "idle" ELSE "looking"]
  /\ UNCHANGED <<seq, admitted, draining, hostVars, faults>>

-----------------------------------------------------------------------------

PumpStep(s) ==
  \/ SessionLookedUp(s) \/ TurnReturns(s) \/ Reply(s) \/ TurnThrows(s)
  \/ TimedOut(s) \/ Settled(s) \/ PumpBreaks(s)

HostStep ==
  \/ \E r \in Run : DeferredTurn(r) \/ DetachedEnd(r)
  \/ \E s \in Session : ClientTurn(s) \/ LoadSession(s) \/ StopSession(s)

DaemonStep ==
  \/ HubDrain \/ ShutdownRequested \/ FatalError
  \/ StopBegins \/ HostDisposed \/ QueueClosed \/ CleanedUp \/ CleanupFails
  \/ DeadlineExceeded \/ SecondSignal \/ Crash \/ Restart

Next ==
  \/ \E r \in Run : Admit(r)
  \/ \E s \in Session : PumpStep(s)
  \/ HostStep \/ DaemonStep

Spec == Init /\ [][Next]_vars

\* Fairness: pumps go on and runTurn answers; the watchdog fires; a daemon that
\* is gone is started again by the next client.  The cleanup itself may hang.
FairSpec ==
  /\ Spec
  /\ \A s \in Session : WF_vars(PumpStep(s))
  /\ WF_vars(DeadlineExceeded) /\ WF_vars(Restart)

-----------------------------------------------------------------------------
(* Properties. *)

\* What the pump of a session executes is a running row, and there is something to
\* execute unless the pump is idle or about to be.
PumpsExecuteRunning ==
  \A s \in Session :
    /\ current[s] = NoRun <=> pump[s] \in {"idle", "settled"}
    /\ current[s] # NoRun => current[s] \in RunsOf(s) /\ state[current[s]] = "running"

\* No row is running, or queued, without a pump, unless the daemon is gone or the
\* queue was closed under it.
RowsArePumped ==
  hub \notin {"closed", "down"} => \A r \in Run :
    /\ state[r] = "running" => current[SessionOf[r]] = r
    /\ state[r] = "queued" => pump[SessionOf[r]] # "idle"

\* Rows and pumps agree whenever the queue is open: at most one row of a session
\* is running, its own pump executes it, and no queued row is forgotten.
PumpInv == PumpsExecuteRunning /\ RowsArePumped

\* A daemon that shuts down has its watchdog until it exits, whatever becomes of the
\* cleanup, which is the only thing that stops the transport; a daemon that nobody
\* asked to shut down has not stopped anything.
ShutdownIsWatched ==
  hub # "down" =>
    /\ exitCode = -1
    /\ watchdog <=> cleanup # "none"
    /\ shutdown = IF watchdog THEN "shutting_down" ELSE "idle"
    /\ hub # "up" <=> cleanup = "running"

\* What every step keeps: the types, that the rows and the pumps agree on what is
\* being executed, and that a shutdown comes to its end.
HubInv == TypeOK /\ PumpInv /\ ShutdownIsWatched

\* Whatever times out, crashes or is stopped, the runs of a session are taken one
\* at a time, in the order of their admission, and each of them once.
Place == [r \in Run |->
  CASE state[r] = "none" -> "outside"
    [] state[r] = "queued" -> "waiting"
    [] state[r] = "running" -> "inService"
    [] OTHER -> "served"]
Fifo == INSTANCE FifoService WITH arrived <- seq, place <- Place
FifoSpec == Fifo!Spec

\* The late end of a timed out turn, a restart, or the answer of a session that is
\* being disposed of does not change a recorded outcome.
RunOutcomeIsFinal ==
  [][\A r \in Run : state[r] \in Outcome => state'[r] = state[r]]_vars

\* A turn is begun once for a run: one cut short by a crash or a shutdown is not
\* resumed by the next daemon.
TurnsBeginOnce ==
  [][\A r \in Run : turn'[r] = "awaited" => turn[r] \in {"none", "awaited"}]_vars

\* A daemon that had a fatal error, before or during a graceful shutdown, and did
\* not crash, exits with a failure code, whoever forces or finishes the shutdown.
FatalErrorsShow == fatalShutdownStarted /\ exitCode # -1 => exitCode = 1

\* Every admitted run comes to an outcome, over crashes and shutdowns: again and
\* again all of them have theirs.
EveryRunSettles == []<>(\A r \in Run : state[r] \in Outcome \cup {"none"})

\* A daemon asked to shut down is gone in the end, even if its cleanup hangs.
ShutdownEnds == cleanup # "none" ~> hub = "down"

-----------------------------------------------------------------------------
(* Claims of the source that the code does not keep. *)

\* hub-run-queue.ts:9, "Runs are durable": what is recorded as completed is not a
\* prompt the host had only queued, and dropped.
CompletedRunsHaveRun ==
  \A r \in Run : state[r] = "completed" => turn[r] # "dropped"

=============================================================================
