---------------------------- MODULE SessionTurns ----------------------------
(***************************************************************************)
(* The turns of one interactive session of the LocalRuntimeHost: clients   *)
(* that send prompts, the queue of pending prompts behind a running turn,  *)
(* the drain that submits them one by one, the agent (SessionRuntime) that *)
(* runs one turn at a time, and the gestures that cut a turn short: abort, *)
(* stop, and the failure of a turn, which ends the session.                *)
(*                                                                         *)
(* All of it shares one event loop.  A step is the code from one await to  *)
(* the next, and drainDue is a drain put into the microtask queue: it runs *)
(* before any other step.                                                  *)
(***************************************************************************)
EXTENDS Integers, FiniteSets, SequencesExt

CONSTANTS
  Client,        \* the calls of runTurn made by clients, one prompt each
  Drain,         \* the runTurn call of the drain, one at a time
  Stopper,       \* the call of stopSession or dispose
  NoCall,        \* none of them
  Text,          \* prompts
  TextOf,        \* the prompt of a client's call
  Faults,        \* the failures that may happen, each at most once
  IdleAborts,    \* whether abort is also called while no turn is under way
  MaxFaults,     \* bound: failures in all
  MaxGestures    \* bound: aborts, edits and deletions by the user

ASSUME CallAssumption ==
  /\ Drain \notin Client /\ Stopper \notin Client \cup {Drain}
  /\ NoCall \notin Client \cup {Drain, Stopper}
ASSUME TextAssumption == TextOf \in [Client -> Text]
ASSUME FaultAssumption ==
  Faults \subseteq {"prepare", "setup", "throw", "authResult", "authThrow"}
ASSUME GestureAssumption ==
  IdleAborts \in BOOLEAN /\ MaxGestures \in Nat /\ MaxFaults \in Nat

VARIABLES
  \* ActiveSession
  alive,           \* the host's session map holds the session
  aborting,        \* session.aborting
  pending,         \* session.pendingPrompts
  drained,         \* the entry being drained; <<>> unless drainingPendingPrompts
  drainDue,        \* a drain is in the microtask queue
  \* SessionRuntime
  running, shutdownCalled, abortRequested,
  activeRun,       \* the call whose promise activeRunPromise is
  \* the calls
  phase,           \* where each runTurn is
  result,          \* what its turn came to
  teardown,        \* where the shutdownSession of a failed or stopping call is
  awaited,         \* the run whose end that shutdown awaits
  \* environment
  faults,          \* failures still to come
  gestures,        \* gestures so far
  submitted,       \* calls whose prompts were announced as submitted to the agent
  dropped          \* calls whose prompts were deleted, or discarded by an abort

sessionVars == <<alive, aborting, pending, drained, drainDue>>
agentVars == <<running, shutdownCalled, abortRequested, activeRun>>
callVars == <<phase, result, teardown, awaited>>
logVars == <<submitted, dropped>>
vars == <<sessionVars, agentVars, callVars, faults, gestures, logVars>>

Call == Client \cup {Drain}
Closer == Call \cup {Stopper}

\* A pending prompt.  Its id, which it keeps for life, stands here for the calls
\* whose prompts it holds; reworded says that an update has changed its text.
Entry == [text : Text, delivery : {"queue", "steer"}, calls : SUBSET Client,
          reworded : BOOLEAN]
Finish == {"completed", "aborted", "error"}

\* Inside SessionRuntime: holding it, or between the two runs of an auth retry.
Holding == {"setup", "turn"}
InRun == Holding \cup {"refreshing"}
InFlight == InRun \cup {"preparing", "reauth", "raising", "settling", "failing"}
Phase == {"idle", "queued", "returned", "failed"} \cup InFlight

TypeOK ==
  /\ alive \in BOOLEAN /\ aborting \in BOOLEAN /\ drainDue \in BOOLEAN
  /\ pending \in Seq(Entry)
  /\ drained \in Seq(Entry) /\ Len(drained) <= 1
  /\ running \in BOOLEAN /\ shutdownCalled \in BOOLEAN
  /\ abortRequested \in BOOLEAN
  /\ activeRun \in Call \cup {NoCall}
  /\ phase \in [Call -> Phase]
  /\ result \in [Call -> Finish \cup {"none", "refused", "thrown"}]
  /\ teardown \in [Closer -> {"none", "flushing", "awaiting", "releasing", "done"}]
  /\ awaited \in [Closer -> Call \cup {NoCall}]
  /\ faults \subseteq Faults
  /\ gestures \in 0 .. MaxGestures
  /\ submitted \subseteq Client /\ dropped \subseteq Client

Init ==
  /\ alive = TRUE /\ aborting = FALSE /\ drainDue = FALSE
  /\ pending = <<>> /\ drained = <<>>
  /\ running = FALSE /\ shutdownCalled = FALSE /\ abortRequested = FALSE
  /\ activeRun = NoCall
  /\ phase = [c \in Call |-> "idle"]
  /\ result = [c \in Call |-> "none"]
  /\ teardown = [k \in Closer |-> "none"]
  /\ awaited = [k \in Closer |-> NoCall]
  /\ faults = Faults
  /\ gestures = 0
  /\ submitted = {} /\ dropped = {}

Calls(q) == UNION {q[i].calls : i \in DOMAIN q}
draining == drained # <<>>
canStartRun == ~running /\ ~shutdownCalled

Fault(f) ==
  /\ f \in faults /\ Cardinality(Faults \ faults) < MaxFaults
  /\ faults' = faults \ {f}

-----------------------------------------------------------------------------
(* The queue of pending prompts. *)

NewEntry(c, delivery) ==
  [text |-> TextOf[c], delivery |-> IF delivery = "steer" THEN "steer" ELSE "queue",
   calls |-> {c}, reworded |-> FALSE]

\* Mutant of Enqueued: a steer joins the end of the queue like any other prompt.
EnqueuedAtEnd(q, c, delivery) == Append(q, NewEntry(c, delivery))

Placed(entry, rest) ==
  IF entry.delivery = "steer" THEN <<entry>> \o rest ELSE Append(rest, entry)

\* service.enqueue: a prompt that is already queued moves instead of being
\* queued twice, the first one if there are several, and stays a steer if it
\* was one.
Enqueued(q, c, delivery) ==
  LET same == {i \in DOMAIN q : q[i].text = TextOf[c]}
      first == CHOOSE i \in same : \A j \in same : i <= j
      existing == q[first]
      next == [existing EXCEPT !.calls = existing.calls \cup {c},
                               !.delivery = IF delivery = "steer" THEN "steer"
                                            ELSE existing.delivery]
  IN IF same = {} THEN Placed(NewEntry(c, delivery), q)
                  ELSE Placed(next, RemoveAt(q, first))

\* update and insertUpdatedPrompt for entry i.  The new text is not compared with
\* those of the other entries.
Updated(q, i, text, delivery) ==
  LET next == [q[i] EXCEPT !.text = text, !.delivery = delivery,
                           !.reworded = q[i].reworded \/ text # q[i].text]
      rest == RemoveAt(q, i)
  IN IF delivery = "steer" \/ q[i].delivery = "steer" THEN Placed(next, rest)
     ELSE InsertAt(rest, i, next)

\* Every queue operation ends by scheduling a drain if one could run.
ScheduleDrain ==
  drainDue' = (pending' # <<>> /\ ~aborting /\ ~draining /\ canStartRun)

\* A call by the user, while the session lives.
Gesture == ~drainDue /\ alive /\ gestures < MaxGestures /\ gestures' = gestures + 1

UpdatePrompt(i, text, delivery) ==
  /\ Gesture
  /\ pending' = Updated(pending, i, text, delivery)
  /\ ScheduleDrain
  /\ UNCHANGED <<alive, aborting, drained, agentVars, callVars, faults, logVars>>

DeletePrompt(i) ==
  /\ Gesture
  /\ pending' = RemoveAt(pending, i)
  /\ dropped' = dropped \cup pending[i].calls
  /\ ScheduleDrain
  /\ UNCHANGED <<alive, aborting, drained, agentVars, callVars, faults, submitted>>

\* Mutant of DrainStep: the entry is taken off the queue before the guards.
DrainStepShiftingFirst ==
  /\ drainDue /\ drainDue' = FALSE
  /\ IF alive /\ pending # <<>>
       THEN /\ pending' = Tail(pending)
            /\ IF ~aborting /\ ~draining /\ canStartRun
                 THEN /\ drained' = <<Head(pending)>>
                      /\ submitted' = submitted \cup Head(pending).calls
                      /\ phase' = [phase EXCEPT ![Drain] = "preparing"]
                 ELSE UNCHANGED <<drained, submitted, phase>>
       ELSE UNCHANGED <<pending, drained, submitted, phase>>
  /\ UNCHANGED <<alive, aborting, agentVars, result, teardown, awaited, faults,
                 gestures, dropped>>

\* drain(): take the first entry and send it.  Nothing is awaited between its
\* check of canStartRun and runTurn's, so the prompt is not queued again.
DrainStep ==
  /\ drainDue /\ drainDue' = FALSE
  /\ IF alive /\ ~aborting /\ ~draining /\ canStartRun /\ pending # <<>>
       THEN /\ drained' = <<Head(pending)>>
            /\ pending' = Tail(pending)
            /\ submitted' = submitted \cup Head(pending).calls
            /\ phase' = [phase EXCEPT ![Drain] = "preparing"]
       ELSE UNCHANGED <<pending, drained, submitted, phase>>
  /\ UNCHANGED <<alive, aborting, agentVars, result, teardown, awaited, faults,
                 gestures, dropped>>

-----------------------------------------------------------------------------
(* runTurn. *)

\* A client's runTurn finds no session.
RunTurnGone(c) ==
  /\ ~drainDue /\ phase[c] = "idle" /\ ~alive
  /\ phase' = [phase EXCEPT ![c] = "failed"]
  /\ UNCHANGED <<sessionVars, agentVars, result, teardown, awaited, faults,
                 gestures, logVars>>

\* It is queued: asked for by the client, or because the agent is not free.
RunTurnQueued(c, delivery) ==
  /\ ~drainDue /\ phase[c] = "idle" /\ alive
  /\ delivery = "auto" => ~canStartRun
  /\ pending' = Enqueued(pending, c, delivery)
  /\ phase' = [phase EXCEPT ![c] = "queued"]
  /\ ScheduleDrain
  /\ UNCHANGED <<alive, aborting, drained, agentVars, result, teardown, awaited,
                 faults, gestures, logVars>>

\* It executes the turn at once: executeTurn persists the session, reads git
\* metadata and refreshes credentials before it gets to the agent.
RunTurnNow(c) ==
  /\ ~drainDue /\ phase[c] = "idle" /\ alive /\ canStartRun
  /\ phase' = [phase EXCEPT ![c] = "preparing"]
  /\ UNCHANGED <<sessionVars, agentVars, result, teardown, awaited, faults,
                 gestures, logVars>>

\* One of those, or the forced refresh after an authentication error, failed.
PrepareFailed(c) ==
  /\ ~drainDue /\ phase[c] \in {"preparing", "reauth"}
  /\ Fault("prepare")
  /\ phase' = [phase EXCEPT ![c] = "raising"]
  /\ result' = [result EXCEPT ![c] = "thrown"]
  /\ UNCHANGED <<sessionVars, agentVars, teardown, awaited, gestures, logVars>>

\* Mutant of RunSettles: a rejected run leaves those who await it waiting.
RunSettlesIfFulfilled(c, fulfilled) ==
  LET waiting == {k \in Closer : fulfilled /\ teardown[k] = "awaiting" /\ awaited[k] = c} IN
    /\ activeRun' = IF activeRun = c THEN NoCall ELSE activeRun
    /\ teardown' = [k \in Closer |-> IF k \in waiting THEN "releasing" ELSE teardown[k]]
    /\ shutdownCalled' = (shutdownCalled \/ waiting # {})

\* The promise of c's run settles: whoever awaits it in agent.shutdown goes on,
\* having shut the agent down only if the promise was fulfilled.
RunSettles(c, fulfilled) ==
  LET waiting == {k \in Closer : teardown[k] = "awaiting" /\ awaited[k] = c} IN
    /\ activeRun' = IF activeRun = c THEN NoCall ELSE activeRun
    /\ teardown' = [k \in Closer |-> IF k \in waiting THEN "releasing" ELSE teardown[k]]
    /\ shutdownCalled' = (shutdownCalled \/ (fulfilled /\ waiting # {}))

\* Mutant of Begin: the agent does not check that it is free.
BeginUnchecked(c) ==
  /\ ~drainDue /\ phase[c] \in {"preparing", "reauth"}
  /\ running' = TRUE /\ abortRequested' = FALSE
  /\ activeRun' = c
  /\ phase' = [phase EXCEPT ![c] = "setup"]
  /\ UNCHANGED <<sessionVars, shutdownCalled, result, teardown, awaited, faults,
                 gestures, logVars>>

\* agent.run: executeRun makes its promise the active one whatever comes of it;
\* an agent that is running or shut down rejects at once, which clears it.
Begin(c) ==
  /\ ~drainDue /\ phase[c] \in {"preparing", "reauth"}
  /\ IF canStartRun
       THEN /\ running' = TRUE /\ abortRequested' = FALSE
            /\ activeRun' = c
            /\ phase' = [phase EXCEPT ![c] = "setup"]
            /\ UNCHANGED result
       ELSE /\ activeRun' = NoCall
            /\ phase' = [phase EXCEPT ![c] = "raising"]
            /\ result' = [result EXCEPT ![c] =
                 IF shutdownCalled THEN "thrown" ELSE "refused"]
            /\ UNCHANGED <<running, abortRequested>>
  /\ UNCHANGED <<sessionVars, shutdownCalled, teardown, awaited, faults,
                 gestures, logVars>>

SetupDone(c) ==
  /\ ~drainDue /\ phase[c] = "setup"
  /\ phase' = [phase EXCEPT ![c] = "turn"]
  /\ UNCHANGED <<sessionVars, agentVars, result, teardown, awaited, faults,
                 gestures, logVars>>

\* Extensions, prompt rules or attachments failed to load: nothing resets
\* running on this path.
SetupFailed(c) ==
  /\ ~drainDue /\ phase[c] = "setup"
  /\ Fault("setup")
  /\ phase' = [phase EXCEPT ![c] = "raising"]
  /\ result' = [result EXCEPT ![c] = "thrown"]
  /\ RunSettles(c, FALSE)
  /\ UNCHANGED <<sessionVars, running, abortRequested, awaited, gestures, logVars>>

\* The agent loop takes the first steer out of the queue.
ConsumeSteer(c) ==
  /\ ~drainDue /\ phase[c] = "turn" /\ alive
  /\ \E i \in DOMAIN pending :
       /\ pending[i].delivery = "steer"
       /\ \A j \in DOMAIN pending : j < i => pending[j].delivery # "steer"
       /\ pending' = RemoveAt(pending, i)
       /\ submitted' = submitted \cup pending[i].calls
  /\ UNCHANGED <<alive, aborting, drained, drainDue, agentVars, callVars, faults,
                 gestures, dropped>>

Free == running' = FALSE /\ abortRequested' = FALSE

TurnEnds(c, finish) ==
  /\ ~drainDue /\ phase[c] = "turn"
  /\ Free
  /\ phase' = [phase EXCEPT ![c] = "settling"]
  /\ result' = [result EXCEPT ![c] = finish]
  /\ RunSettles(c, TRUE)
  /\ UNCHANGED <<sessionVars, awaited, faults, gestures, logVars>>

TurnThrows(c) ==
  /\ ~drainDue /\ phase[c] = "turn"
  /\ \/ Fault("throw") /\ phase' = [phase EXCEPT ![c] = "raising"]
     \/ Fault("authThrow") /\ phase' = [phase EXCEPT ![c] = "reauth"]
  /\ Free
  /\ result' = [result EXCEPT ![c] = "thrown"]
  /\ RunSettles(c, FALSE)
  /\ UNCHANGED <<sessionVars, awaited, gestures, logVars>>

\* executeRunWithAuthRetry: the run failed on its credentials, and the host, if
\* it still knows the session, refreshes them before a second run; the promise
\* stays pending.
AuthFailed(c) ==
  /\ ~drainDue /\ phase[c] = "turn" /\ alive
  /\ Fault("authResult")
  /\ Free
  /\ phase' = [phase EXCEPT ![c] = "refreshing"]
  /\ UNCHANGED <<sessionVars, shutdownCalled, activeRun, result, teardown,
                 awaited, gestures, logVars>>

RetryRun(c) ==
  /\ ~drainDue /\ phase[c] = "refreshing"
  /\ IF canStartRun
       THEN /\ running' = TRUE /\ abortRequested' = FALSE
            /\ phase' = [phase EXCEPT ![c] = "setup"]
            /\ UNCHANGED <<shutdownCalled, activeRun, result, teardown>>
       ELSE /\ phase' = [phase EXCEPT ![c] = "raising"]
            /\ result' = [result EXCEPT ![c] =
                 IF shutdownCalled THEN "thrown" ELSE "refused"]
            /\ RunSettles(c, FALSE)
            /\ UNCHANGED <<running, abortRequested>>
  /\ UNCHANGED <<sessionVars, awaited, faults, gestures, logVars>>

\* The credentials cannot be refreshed.
RefreshFailed(c) ==
  /\ ~drainDue /\ phase[c] = "refreshing"
  /\ phase' = [phase EXCEPT ![c] = "settling"]
  /\ result' = [result EXCEPT ![c] = "error"]
  /\ RunSettles(c, TRUE)
  /\ UNCHANGED <<sessionVars, running, abortRequested, awaited, faults, gestures,
                 logVars>>

\* runTurn returns.  Unless the turn finished with an error, the queue is
\* drained next: by the microtask of runTurn, or, if c is the drain's own call,
\* by the finally block of drain.
Leave(c) ==
  /\ phase' = [phase EXCEPT ![c] = IF c = Drain THEN "idle" ELSE "returned"]
  /\ drained' = IF c = Drain THEN <<>> ELSE drained

\* Mutant of Settle: the queue is drained after completed turns only.
SettleDrainingIfCompleted(c) ==
  /\ ~drainDue /\ phase[c] = "settling"
  /\ aborting' = FALSE
  /\ drainDue' = (result[c] = "completed")
  /\ Leave(c)
  /\ UNCHANGED <<alive, pending, agentVars, result, teardown, awaited, faults,
                 gestures, logVars>>

\* completeInteractiveTurn has marked the session idle.
Settle(c) ==
  /\ ~drainDue /\ phase[c] = "settling"
  /\ aborting' = FALSE
  /\ drainDue' = (result[c] # "error")
  /\ Leave(c)
  /\ UNCHANGED <<alive, pending, agentVars, result, teardown, awaited, faults,
                 gestures, logVars>>

-----------------------------------------------------------------------------
(* Abort, failure and stop. *)

\* agent.abort
AgentAbort == abortRequested' = TRUE

discardQueue == pending' = <<>> /\ dropped' = dropped \cup Calls(pending)

\* abort(): while the drain's turn is under way it also discards the queue.
Abort ==
  /\ Gesture
  /\ IdleAborts \/ \E c \in Call : phase[c] \in InFlight
  /\ aborting' = TRUE
  /\ AgentAbort
  /\ IF draining THEN discardQueue ELSE UNCHANGED <<pending, dropped>>
  /\ UNCHANGED <<alive, drained, drainDue, running, shutdownCalled, activeRun,
                 callVars, faults, submitted>>

\* shutdownSession, up to its first await: abort a turn that is under way.
ShutdownBegins(k) ==
  /\ teardown' = [teardown EXCEPT ![k] = "flushing"]
  /\ IF ~aborting /\ ~canStartRun
       THEN aborting' = TRUE /\ AgentAbort
       ELSE UNCHANGED <<aborting, abortRequested>>

\* Mutant of Raise: the error is thrown on, and the session left as it is.
RaiseRethrowing(c) ==
  /\ ~drainDue /\ phase[c] = "raising"
  /\ IF aborting
       THEN /\ phase' = [phase EXCEPT ![c] = "settling"]
            /\ result' = [result EXCEPT ![c] = "aborted"]
       ELSE /\ phase' = [phase EXCEPT ![c] = "failed"]
            /\ UNCHANGED result
  /\ UNCHANGED <<sessionVars, agentVars, teardown, awaited, faults, gestures, logVars>>

\* The catch block of runTurn: a turn that was aborted returns as such, any
\* other one fails the session.
Raise(c) ==
  /\ ~drainDue /\ phase[c] = "raising"
  /\ IF aborting
       THEN /\ phase' = [phase EXCEPT ![c] = "settling"]
            /\ result' = [result EXCEPT ![c] = "aborted"]
            /\ UNCHANGED <<aborting, abortRequested, teardown>>
       ELSE /\ phase' = [phase EXCEPT ![c] = "failing"]
            /\ ShutdownBegins(c)
            /\ UNCHANGED result
  /\ UNCHANGED <<alive, pending, drained, drainDue, running, shutdownCalled,
                 activeRun, awaited, faults, gestures, logVars>>

\* stopSession: abort the turn, if there is one, and shut the session down.
StopSession ==
  /\ ~drainDue /\ alive /\ teardown[Stopper] = "none"
  /\ teardown' = [teardown EXCEPT ![Stopper] = "flushing"]
  /\ IF canStartRun
       THEN UNCHANGED <<aborting, abortRequested>>
       ELSE aborting' = TRUE /\ AgentAbort
  /\ UNCHANGED <<alive, pending, drained, drainDue, running, shutdownCalled,
                 activeRun, phase, result, awaited, faults, gestures, logVars>>

\* Mutant of AgentShutdown: a run is awaited whether or not its promise is known.
AgentShutdownAwaiting(k) ==
  /\ ~drainDue /\ teardown[k] = "flushing"
  /\ IF running
       THEN /\ teardown' = [teardown EXCEPT ![k] = "awaiting"]
            /\ awaited' = [awaited EXCEPT ![k] = activeRun]
            /\ UNCHANGED shutdownCalled
       ELSE /\ teardown' = [teardown EXCEPT ![k] = "releasing"]
            /\ shutdownCalled' = TRUE
            /\ UNCHANGED awaited
  /\ UNCHANGED <<sessionVars, running, abortRequested, activeRun, phase, result,
                 faults, gestures, logVars>>

\* agent.shutdown, once the status is written.  A run that was not aborted, or
\* whose promise is not known, makes it throw, which shutdownSession records.
AgentShutdown(k) ==
  /\ ~drainDue /\ teardown[k] = "flushing"
  /\ IF running
       THEN /\ \/ /\ abortRequested /\ activeRun # NoCall
                  /\ teardown' = [teardown EXCEPT ![k] = "awaiting"]
                  /\ awaited' = [awaited EXCEPT ![k] = activeRun]
               \/ /\ ~abortRequested \/ activeRun = NoCall
                  /\ teardown' = [teardown EXCEPT ![k] = "releasing"]
                  /\ UNCHANGED awaited
            /\ UNCHANGED shutdownCalled
       ELSE /\ teardown' = [teardown EXCEPT ![k] = "releasing"]
            /\ shutdownCalled' = TRUE
            /\ UNCHANGED awaited
  /\ UNCHANGED <<sessionVars, running, abortRequested, activeRun, phase, result,
                 faults, gestures, logVars>>

\* The runtime and the plugin sandbox are down: the host forgets the session.
\* The drain puts the entry of a turn that failed back at the front.
Forget(k) ==
  /\ ~drainDue /\ teardown[k] = "releasing"
  /\ teardown' = [teardown EXCEPT ![k] = "done"]
  /\ alive' = FALSE
  /\ phase' = IF k = Stopper THEN phase
              ELSE [phase EXCEPT ![k] = IF k = Drain THEN "idle" ELSE "failed"]
  /\ IF k = Drain THEN pending' = drained \o pending /\ drained' = <<>>
                  ELSE UNCHANGED <<pending, drained>>
  /\ UNCHANGED <<aborting, drainDue, agentVars, result, awaited, faults, gestures,
                 logVars>>

-----------------------------------------------------------------------------

Send(c) ==
  \/ RunTurnGone(c) \/ RunTurnNow(c)
  \/ \E d \in {"auto", "queue", "steer"} : RunTurnQueued(c, d)

Edit ==
  \E i \in DOMAIN pending :
    \/ DeletePrompt(i)
    \/ \E t \in Text, d \in {"queue", "steer"} : UpdatePrompt(i, t, d)

\* What goes on by itself once a turn has been asked for.
TurnStep(c) ==
  \/ PrepareFailed(c) \/ Begin(c) \/ SetupDone(c) \/ SetupFailed(c)
  \/ (\E f \in Finish : TurnEnds(c, f)) \/ TurnThrows(c)
  \/ AuthFailed(c) \/ RetryRun(c) \/ RefreshFailed(c)
  \/ Settle(c) \/ Raise(c)

CloseStep(k) == AgentShutdown(k) \/ Forget(k)

Next ==
  \/ DrainStep
  \/ \E c \in Client : Send(c)
  \/ \E c \in Call : TurnStep(c) \/ ConsumeSteer(c)
  \/ \E k \in Closer : CloseStep(k)
  \/ Edit \/ Abort \/ StopSession

Spec == Init /\ [][Next]_vars

\* Fairness: the event loop runs what is ready, and a turn under way comes to
\* its end.  Nobody has to send, abort, stop or edit anything.
FairSpec ==
  /\ Spec
  /\ WF_vars(DrainStep)
  /\ \A c \in Call : WF_vars(TurnStep(c))
  /\ \A k \in Closer : WF_vars(CloseStep(k))

-----------------------------------------------------------------------------
(* Properties. *)

\* The agent runs one turn at a time; the promise it keeps for agent.shutdown is
\* that of a run that has still to end, and so is every promise a shutdown waits
\* for; a failed turn is shut down from within that turn; drainingPendingPrompts
\* is set exactly while the drain's turn is under way.
AgentInv ==
  /\ \A c, d \in Call : phase[c] \in Holding /\ phase[d] \in Holding => c = d
  /\ \A c \in Call : phase[c] \in Holding => running
  /\ activeRun # NoCall => phase[activeRun] \in InRun
  /\ \A k \in Closer : teardown[k] = "awaiting" =>
       awaited[k] \in Call /\ phase[awaited[k]] \in InRun
  /\ \A c \in Call :
       teardown[c] \in {"flushing", "awaiting", "releasing"} => phase[c] = "failing"
  /\ draining <=> phase[Drain] # "idle"

\* The agent counts as running and no call is in it: a set-up that failed while
\* its session was being aborted leaves it so, for ever.
AgentStuck == running /\ \A c \in Call : phase[c] \notin Holding

\* A shutdownSession is under way.
Closing == \E k \in Closer : teardown[k] \in {"flushing", "awaiting", "releasing"}

\* No wake-up is lost: if prompts are queued, a drain is due, or a turn is under way
\* whose end drains the queue, or the session is being shut down.  What else keeps
\* them is an agent that is stuck, an abort while nothing was under way, or a turn
\* that finished with an error.
NoPromptIsForgotten ==
  alive /\ pending # <<>> =>
    \/ drainDue
    \/ \E c \in Call : phase[c] \in InFlight
    \/ Closing
    \/ AgentStuck
    \/ IdleAborts /\ aborting
    \/ \E c \in Call : result[c] = "error"

\* What the hub's run queue takes for granted of its host: a prompt that nobody asked
\* to queue is queued behind another turn, or because the session is ending or its
\* agent is stuck; and a call that throws has taken its session with it.
AnswersAreForCause ==
  /\ alive /\ ~canStartRun =>
       (\E c \in Call : phase[c] \in InFlight) \/ Closing \/ AgentStuck
  /\ \A c \in Call :
       /\ phase[c] = "failing" => teardown[c] \in {"flushing", "awaiting", "releasing"}
       /\ phase[c] = "failed" => ~alive

\* What every step keeps: the types, that one turn at a time has the agent, that no
\* queued prompt is forgotten, and that calls are answered as they should be.
TurnsInv == TypeOK /\ AgentInv /\ NoPromptIsForgotten /\ AnswersAreForCause

\* Two entries never hold the prompt of one call; they have the same text only if
\* an update gave it to one of them.
Apart(x, y) ==
  /\ x.calls \cap y.calls = {}
  /\ x.text = y.text => x.reworded \/ y.reworded

\* While the session lives, the prompt of a call that was queued is in exactly one
\* of three places: in one entry of the queue, among those submitted, or among those
\* the user has deleted or discarded by an abort.  It is neither lost nor submitted
\* while it stays in the queue; a text is queued twice only by rewording; and steers
\* stand before the rest.
EachPromptOnce ==
  alive =>
    /\ \A c \in Client : phase[c] = "queued" <=>
         c \in Calls(pending) \cup submitted \cup dropped
    /\ Calls(pending) \cap (submitted \cup dropped) = {}
    /\ submitted \cap dropped = {}
    /\ \A i, j \in DOMAIN pending : i < j =>
         /\ Apart(pending[i], pending[j])
         /\ pending[j].delivery = "steer" => pending[i].delivery = "steer"

\* A queued prompt is submitted in the end, or discarded, unless the session
\* ends or a turn finishes with an error, which keeps the queue for later.
QueuedPromptsRun ==
  \A c \in Client : c \in Calls(pending) ~>
    \/ c \notin Calls(pending)
    \/ ~alive
    \/ \E d \in Call : result[d] = "error"

\* Unless the agent is stuck the queue empties again and again, whatever fails and is
\* aborted before a prompt's turn comes: an abort in force would keep it waiting.
PromptsRunUnlessStuck ==
  []<>(\/ pending = <<>>
       \/ ~alive \/ AgentStuck
       \/ \E c \in Call : result[c] = "error")

\* Every runTurn returns or throws, whatever is aborted, stopped or failing: again
\* and again the session is at rest.
CallsReturn == []<>(\A c \in Call : phase[c] \notin InFlight)

\* stopSession completes, also when the run it waits for fails or is retried; the
\* shutdown of a failed turn is part of its call.
ShutdownsComplete == teardown[Stopper] # "none" ~> teardown[Stopper] = "done"

=============================================================================
