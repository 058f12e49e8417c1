-------------------------- MODULE CronEventIngress --------------------------
(***************************************************************************)
(* Event triggered runs: CronEventIngress and the statements of cron.db it *)
(* is made of.  A process stamps an event when it is delivered, and then   *)
(* waits for the write lock: the log entry, the look at the runs there are *)
(* and the runs it queues are one BEGIN IMMEDIATE transaction.  A stamp is *)
(* as old as that wait when it is used, so events may be accepted in       *)
(* another order than they were stamped in.                                *)
(*                                                                         *)
(* A run is named by its spec and the event that created it.               *)
(***************************************************************************)
EXTENDS Integers, FiniteSets, Sequences

CONSTANTS
  Process,     \* processes that deliver events to the one database
  Event,       \* event ids
  NoEvent,     \* none of them
  KeyOf,       \* the dedupe key of an event
  SpecId,      \* event specs
  Matching,    \* the events whose type and attributes match a spec
  Debounce,    \* debounceSeconds, 0 for none
  Window,      \* dedupeWindowSeconds, 0 for none
  Cooldown,    \* cooldownSeconds, 0 for none
  MaxTime      \* bound: the clock

ASSUME EventAssumption == NoEvent \notin Event
ASSUME MatchingAssumption == Matching \in [SpecId -> SUBSET Event]
ASSUME SettingAssumption ==
  /\ Debounce \in [SpecId -> Nat]
  /\ Window \in [SpecId -> Nat]
  /\ Cooldown \in [SpecId -> Nat]
ASSUME TimeAssumption == MaxTime \in Nat

VARIABLES
  now,         \* the clock of the machine
  delivering,  \* the event a process is handling
  stamp,       \* its receivedAt
  \* cron_event_log
  log,         \* the event ids in the order in which they were accepted
  received,    \* received_at
  outcome,     \* what came of an event for each spec
  \* cron_specs
  spec,
  \* cron_runs
  status,
  trigger,     \* trigger_event_id
  due,         \* scheduled_for
  \* history
  covers       \* the events a run was queued or postponed for

processVars == <<delivering, stamp>>
logVars == <<log, received, outcome>>
runVars == <<status, trigger, due, covers>>
vars == <<now, processVars, logVars, spec, runVars>>

Run == SpecId \X Event
RunsOf(s) == {r \in Run : r[1] = s}
Time == 0 .. MaxTime
Accepted == {log[i] : i \in DOMAIN log}
Status == {"none", "queued", "running", "ended", "cancelled"}

TypeOK ==
  /\ now \in Time
  /\ delivering \in [Process -> Event \cup {NoEvent}]
  /\ stamp \in [Process -> Time]
  /\ log \in Seq(Event)
  /\ received \in [Event -> Time]
  /\ outcome \in [Event -> [SpecId -> {"none", "queued", "dedupe_window", "cooldown"}]]
  /\ spec \in [SpecId -> {"on", "off", "removed"}]
  /\ status \in [Run -> Status]
  /\ trigger \in [Run -> Event]
  /\ due \in [Run -> Nat]
  /\ covers \in [Run -> SUBSET Event]

Init ==
  /\ now = 0
  /\ delivering = [p \in Process |-> NoEvent] /\ stamp = [p \in Process |-> 0]
  /\ log = <<>> /\ received = [e \in Event |-> 0]
  /\ outcome = [e \in Event |-> [s \in SpecId |-> "none"]]
  /\ spec = [s \in SpecId |-> "on"]
  /\ status = [r \in Run |-> "none"] /\ trigger = [r \in Run |-> r[2]]
  /\ due = [r \in Run |-> 0]
  /\ covers = [r \in Run |-> {}]

-----------------------------------------------------------------------------
(* One spec's part of an event: materializeForSpec(s, e, t). *)

\* findQueuedEventRunForDedupe: the one that is due last.
QueuedFor(s, k) ==
  {r \in RunsOf(s) : status[r] = "queued" /\ KeyOf[trigger[r]] = k}
LastDue(R) == {r \in R : \A x \in R : due[x] <= due[r]}

Debounced(s, e) ==
  IF Debounce[s] = 0 THEN {} ELSE LastDue(QueuedFor(s, KeyOf[e]))

\* Mutant of RecentForDedupe: only runs that have not ended are looked at.
RecentUnended(s, e, t) ==
  \E r \in RunsOf(s) :
    /\ status[r] \in {"queued", "running"} /\ KeyOf[trigger[r]] = KeyOf[e]
    /\ received[trigger[r]] + Window[s] >= t

\* hasRecentEventRunForDedupe and hasRecentEventRunForSpec: runs of any status.
RecentForDedupe(s, e, t) ==
  \E r \in RunsOf(s) :
    /\ status[r] # "none" /\ KeyOf[trigger[r]] = KeyOf[e]
    /\ received[trigger[r]] + Window[s] >= t

RecentForSpec(s, t) ==
  \E r \in RunsOf(s) :
    status[r] # "none" /\ received[trigger[r]] + Cooldown[s] >= t

\* Mutant of Suppressed: the cooldown alone decides, when there is no window.
SuppressedByCooldown(s, e, t) ==
  IF Window[s] > 0 THEN "dedupe_window"
  ELSE IF Cooldown[s] > 0 /\ RecentForSpec(s, t) THEN "cooldown" ELSE "none"

\* Why e, not debounced, gets no run of s; "none" if it gets one.
Suppressed(s, e, t) ==
  IF Window[s] > 0 /\ RecentForDedupe(s, e, t) THEN "dedupe_window"
  ELSE IF Cooldown[s] > 0 /\ RecentForSpec(s, t) THEN "cooldown"
  ELSE "none"

\* listEventSpecsForType and the filters.
Candidate(e) == {s \in SpecId : spec[s] = "on" /\ e \in Matching[s]}

Outcome(s, e, t) ==
  IF Debounced(s, e) = {} /\ Suppressed(s, e, t) # "none"
    THEN Suppressed(s, e, t) ELSE "queued"

\* The runs e creates, and those it postpones.
Created(e, t) ==
  {r \in Run : /\ r[1] \in Candidate(e) /\ r[2] = e
               /\ Debounced(r[1], e) = {} /\ Suppressed(r[1], e, t) = "none"}

\* OneQueuedPerKey: there is at most one for each spec.
Postponed(e) == {r \in Run : r[1] \in Candidate(e) /\ r \in Debounced(r[1], e)}

\* Mutant of PostponedUntil: the run is due when its latest event says so.
PostponedUntilLatest(r, t) == t + Debounce[r[1]]

\* maxIso: postponing never brings a run forward.
PostponedUntil(r, t) ==
  IF due[r] >= t + Debounce[r[1]] THEN due[r] ELSE t + Debounce[r[1]]

-----------------------------------------------------------------------------
(* Steps. *)

\* ingestEvent takes the stamp before it asks for the write lock.  The sender
\* may deliver an event again, to the same process or another.
Deliver(p, e) ==
  /\ delivering[p] = NoEvent
  /\ delivering' = [delivering EXCEPT ![p] = e]
  /\ stamp' = [stamp EXCEPT ![p] = now]
  /\ UNCHANGED <<now, logVars, spec, runVars>>

Handled(p) ==
  /\ delivering' = [delivering EXCEPT ![p] = NoEvent]
  /\ stamp' = [stamp EXCEPT ![p] = 0]

\* INSERT OR IGNORE finds the event in the log.
Duplicate(p) ==
  /\ delivering[p] \in Accepted
  /\ Handled(p)
  /\ UNCHANGED <<now, logVars, spec, runVars>>

\* Mutant of IsNew: the event is taken whether or not the log has it.
IsNewAlways(e) == e \in Event

IsNew(e) == e \in Event \ Accepted

\* The transaction of an event that is new.
Accept(p) ==
  LET e == delivering[p]
      t == stamp[p]
  IN /\ IsNew(e)
     /\ Handled(p)
     /\ log' = Append(log, e)
     /\ received' = [received EXCEPT ![e] = t]
     /\ outcome' = [outcome EXCEPT ![e] =
          [s \in SpecId |-> IF s \in Candidate(e) THEN Outcome(s, e, t) ELSE "none"]]
     /\ status' = [r \in Run |-> IF r \in Created(e, t) THEN "queued" ELSE status[r]]
     /\ trigger' = [r \in Run |-> IF r \in Postponed(e) THEN e ELSE trigger[r]]
     /\ due' = [r \in Run |->
          IF r \in Created(e, t) THEN t + Debounce[r[1]]
          ELSE IF r \in Postponed(e) THEN PostponedUntil(r, t) ELSE due[r]]
     /\ covers' = [r \in Run |-> IF r \in Created(e, t) \cup Postponed(e)
                                 THEN covers[r] \cup {e} ELSE covers[r]]
     /\ UNCHANGED <<now, spec>>

\* A statement fails, or the process dies: nothing of the transaction stays.
RolledBack(p) ==
  /\ delivering[p] # NoEvent
  /\ Handled(p)
  /\ UNCHANGED <<now, logVars, spec, runVars>>

\* A runner claims a run that is due; executeClaim cancels it unless its spec is
\* still enabled.
Claim(r) ==
  /\ status[r] = "queued" /\ due[r] <= now
  /\ status' = [status EXCEPT ![r] = IF spec[r[1]] = "on" THEN "running" ELSE "cancelled"]
  /\ UNCHANGED <<now, processVars, logVars, spec, trigger, due, covers>>

Finish(r) ==
  /\ status[r] = "running"
  /\ status' = [status EXCEPT ![r] = "ended"]
  /\ UNCHANGED <<now, processVars, logVars, spec, trigger, due, covers>>

\* The reconciler finds the spec's file edited, gone, or back.
Reconcile(s) ==
  /\ \E v \in {"on", "off", "removed"} : spec[s] # v /\ spec' = [spec EXCEPT ![s] = v]
  /\ UNCHANGED <<now, processVars, logVars, runVars>>

\* Mutant of CancelQueued: the statement does not ask for queued rows.
CancelRegardless(s) ==
  /\ spec[s] = "removed"
  /\ status' = [r \in Run |->
       IF r[1] = s /\ status[r] # "none" THEN "cancelled" ELSE status[r]]
  /\ UNCHANGED <<now, processVars, logVars, spec, trigger, due, covers>>

\* cancelQueuedRunsForSpec, the second statement of a removal.
CancelQueued(s) ==
  /\ spec[s] = "removed"
  /\ \E r \in RunsOf(s) : status[r] = "queued"
  /\ status' = [r \in Run |->
       IF r[1] = s /\ status[r] = "queued" THEN "cancelled" ELSE status[r]]
  /\ UNCHANGED <<now, processVars, logVars, spec, trigger, due, covers>>

Tick ==
  /\ now < MaxTime
  /\ now' = now + 1
  /\ UNCHANGED <<processVars, logVars, spec, runVars>>

Next ==
  \/ \E p \in Process :
       \/ \E e \in Event : Deliver(p, e)
       \/ Duplicate(p) \/ Accept(p) \/ RolledBack(p)
  \/ \E r \in Run : Claim(r) \/ Finish(r)
  \/ \E s \in SpecId : Reconcile(s) \/ CancelQueued(s)
  \/ Tick

Spec == Init /\ [][Next]_vars
-----------------------------------------------------------------------------
(* Properties. *)

\* An event that was reported as queued for a spec is covered by one run of that
\* spec, one that was not by none; a run covers accepted events of one key that
\* match its spec, its trigger event among them, and the log has no event twice.
OneRunCoversEach ==
  /\ \A i, j \in DOMAIN log : log[i] = log[j] => i = j
  /\ \A s \in SpecId, e \in Event :
       /\ outcome[e][s] = "queued" <=> \E r \in RunsOf(s) : e \in covers[r]
       /\ \A r, x \in RunsOf(s) : e \in covers[r] \cap covers[x] => r = x
  /\ \A r \in Run :
       /\ status[r] = "none" <=> covers[r] = {}
       /\ status[r] # "none" => trigger[r] \in covers[r] /\ r[2] \in covers[r]
       /\ \A e \in covers[r] : /\ e \in Accepted /\ e \in Matching[r[1]]
                                /\ KeyOf[e] = KeyOf[r[2]]

\* What every step keeps.
IngressInv == TypeOK /\ OneRunCoversEach

\* Debouncing: while a run waits, further events of its key postpone it instead of
\* queueing another one, and it is due once the debounce of every event it covers is
\* over and not later, in whatever order they were accepted.
OneQueuedPerKey ==
  \A r, x \in Run :
    /\ r[1] = x[1] /\ Debounce[r[1]] > 0 /\ KeyOf[r[2]] = KeyOf[x[2]]
    /\ status[r] = "queued" /\ status[x] = "queued"
    => r = x
DueAfterDebounce ==
  \A r \in Run : status[r] # "none" =>
    /\ \A e \in covers[r] : due[r] >= received[e] + Debounce[r[1]]
    /\ \E e \in covers[r] : due[r] = received[e] + Debounce[r[1]]
DebounceInv == OneQueuedPerKey /\ DueAfterDebounce

\* The dedupe window: when a run is created, the last trigger of every run of its key
\* that was created before is more than a window ago, also if that run has ended or
\* was cancelled, and nothing that is accepted later changes that.
CreatedBefore(r, x) ==
  \E i, j \in DOMAIN log : i < j /\ log[i] = r[2] /\ log[j] = x[2]
WindowInv ==
  \A r, x \in Run :
    /\ r[1] = x[1] /\ Window[r[1]] > 0 /\ KeyOf[r[2]] = KeyOf[x[2]]
    /\ status[r] # "none" /\ status[x] # "none" /\ CreatedBefore(r, x)
    /\ Debounce[r[1]] > 0 \/ trigger[r] = r[2]
    => received[trigger[r]] + Window[r[1]] < received[x[2]]

\* No event is dropped without cause: there is a run of the spec, and for the dedupe
\* window one of the same key, that covers an event of the time before it.
SuppressedForCause ==
  \A e \in Event, s \in SpecId :
    /\ outcome[e][s] = "dedupe_window" => \E r \in RunsOf(s) : \E x \in covers[r] :
         x # e /\ KeyOf[x] = KeyOf[e] /\ received[x] + Window[s] >= received[e]
    /\ outcome[e][s] = "cooldown" => \E r \in RunsOf(s) : \E x \in covers[r] :
         x # e /\ received[x] + Cooldown[s] >= received[e]

\* An accepted event that matches a spec is covered by one run of it, or was dropped
\* because of a run that covers another.
CoverageInv == IngressInv /\ SuppressedForCause

\* The rows that events queue keep what cron.db promises of its rows: each is queued
\* once, claimed after that, and keeps its outcome.
LedgerStatus ==
  [r \in Run |-> IF status[r] = "ended" THEN "done" ELSE status[r]]
LedgerClaims ==
  [r \in Run |-> IF status[r] \in {"running", "ended"} THEN 1 ELSE 0]
Ledger == INSTANCE RunLedger WITH status <- LedgerStatus, claims <- LedgerClaims
LedgerSpec == Ledger!Spec

=============================================================================
