---------------------------- MODULE CronSchedule ----------------------------
(***************************************************************************)
(* The specs of cron.db and the runs they give rise to: hub schedules,     *)
(* which clients create, edit, pause, trigger and delete, spec files,      *)
(* which the reconciler reads, and the materializer, which every poll of a *)
(* runner begins with.                                                     *)
(*                                                                         *)
(* Several processes work on one database: the hub daemon, a CLI and the   *)
(* hub user interface each own a store.  A process executes one operation  *)
(* after the other without awaiting anything, a step being one statement   *)
(* or transaction, so that only other processes come in between.  A        *)
(* statement waits while another process holds the write lock; the time it *)
(* uses was read before that, at any time since the statement before.      *)
(* Claims and executions are those of CronQueue, here in one step each;    *)
(* both modules implement RunLedger.                                       *)
(***************************************************************************)
EXTENDS Naturals, Sequences, FiniteSets

CONSTANTS
  Proc,         \* the processes
  Hub,          \* hub schedules
  File,         \* spec files
  FileKind,     \* the trigger kind of each file, which its path determines
  Slots,        \* the times the cron patterns match, one set for all patterns
  NoSpec,
  MaxTime, MaxRevision, MaxManual, MaxFaults,   \* bounds
  MaxRow        \* the rows that are compared with RunLedger

SpecId == Hub \cup File
NoTime == 0

ASSUME SpecAssumption ==
  /\ Hub \cap File = {} /\ NoSpec \notin SpecId
  /\ FileKind \in [File -> {"schedule", "one_off"}]
ASSUME SlotAssumption ==
  /\ Slots \subseteq Nat \ {0}
  /\ \A t \in 0 .. MaxTime : \E x \in Slots : t < x /\ \A y \in Slots : t < y => x <= y
ASSUME ScheduleBoundAssumption ==
  MaxTime \in Nat \ {0} /\ {MaxRevision, MaxManual, MaxFaults, MaxRow} \subseteq Nat

VARIABLES
  now,
  specs,     \* cron_specs
  runs,      \* cron_runs, in the order of insertion
  doing,     \* what each process is in the middle of
  target,    \* the spec it works on
  listed,    \* the one-off specs it listed, as they were, and has not dealt with
  due,       \* the schedules it listed and has not dealt with
  since,     \* when it ended the statement before, if the next one uses the clock
  faults,
  late       \* history: specs whose next run was set too late, see Overtaken

procVars == <<doing, target, listed, due, since>>
vars == <<now, specs, runs, procVars, faults, late>>

Kind == {"schedule", "one_off"}
Trigger == {"schedule", "one_off", "manual"}
Status == {"queued", "running", "done", "cancelled"}
Doing == {"idle", "creating", "deleting", "applying", "setting", "clearing",
          "ticking", "oneOffs", "inserting", "schedules"}

SpecRow == [known : BOOLEAN, kind : Kind, enabled : BOOLEAN, removed : BOOLEAN,
            revision : Nat, next : Nat,
            runAt : Nat,          \* metadata of a one-time schedule
            content : BOOLEAN]    \* the enabled flag in the content of a file
RunRow == [spec : SpecId, revision : Nat, trigger : Trigger, status : Status,
           claimed : BOOLEAN, at : Nat \ {0}]

TypeOK ==
  /\ now \in 1 .. MaxTime /\ faults \in 0 .. MaxFaults
  /\ specs \in [SpecId -> SpecRow]
  /\ runs \in Seq(RunRow)
  /\ doing \in [Proc -> Doing]
  /\ target \in [Proc -> SpecId \cup {NoSpec}]
  /\ listed \in [Proc -> SUBSET [spec : SpecId, revision : Nat, next : Nat]]
  /\ due \in [Proc -> SUBSET SpecId]
  /\ since \in [Proc -> 0 .. MaxTime]
  /\ late \subseteq SpecId

Init ==
  /\ now = 1 /\ faults = 0
  /\ specs = [s \in SpecId |->
       [known |-> FALSE, kind |-> IF s \in File THEN FileKind[s] ELSE "schedule",
        enabled |-> FALSE, removed |-> FALSE, revision |-> 0, next |-> NoTime,
        runAt |-> NoTime, content |-> FALSE]]
  /\ runs = <<>>
  /\ doing = [p \in Proc |-> "idle"] /\ target = [p \in Proc |-> NoSpec]
  /\ listed = [p \in Proc |-> {}] /\ due = [p \in Proc |-> {}]
  /\ since = [p \in Proc |-> NoTime] /\ late = {}

-----------------------------------------------------------------------------
(* The store. *)

\* Mutant of NextSlot: a time that matches is its own successor.
NextSlotInclusive(t) ==
  CHOOSE x \in Slots : t <= x /\ \A y \in Slots : t <= y => x <= y

\* getNextCronTime(pattern, t).
NextSlot(t) == CHOOSE x \in Slots : t < x /\ \A y \in Slots : t < y => x <= y

Rows(s, revision) == {i \in DOMAIN runs : runs[i].spec = s /\ runs[i].revision = revision}
QueuedRows(s) == {i \in DOMAIN runs : runs[i].spec = s /\ runs[i].status = "queued"}
WithStatus(I, status) ==
  [i \in DOMAIN runs |-> IF i \in I THEN [runs[i] EXCEPT !.status = status] ELSE runs[i]]

QueuedRun(s, revision, trigger, at) ==
  [spec |-> s, revision |-> revision, trigger |-> trigger, status |-> "queued",
   claimed |-> FALSE, at |-> at]

\* The key of the unique index: there is a row with trigger one_off.
OnRecord(s, revision) ==
  \E i \in Rows(s, revision) : runs[i].trigger = "one_off"

\* Mutant of Consumed: a manual run does not count.
ConsumedByItself(s, revision) == OnRecord(s, revision)

\* hasConsumedOneOffRevision: whatever became of the run.
Consumed(s, revision) ==
  \E i \in Rows(s, revision) : runs[i].trigger \in {"one_off", "manual"}

Live(s) == specs[s].known /\ specs[s].enabled /\ ~specs[s].removed

Begins(p) == doing[p] = "idle"
Now(p, what) == doing' = [doing EXCEPT ![p] = what]
Goes(p, what, s) == Now(p, what) /\ target' = [target EXCEPT ![p] = s]

Ends(p) == since' = [since EXCEPT ![p] = now]
Forgets(p) == since' = [since EXCEPT ![p] = NoTime]

\* What p has read of the clock for its statement.
Reading(p) == {t \in 1 .. now : since[p] <= t}

\* After time t a run for a later slot was queued.
Overtaken(s, t) ==
  \E i \in DOMAIN runs :
    runs[i].spec = s /\ runs[i].trigger = "schedule" /\ t < runs[i].at

\* The next run of s is set as it was computed at time t.
SetNext(s, t, next) ==
  /\ specs' = [specs EXCEPT ![s].next = next]
  /\ late' = IF Overtaken(s, t) THEN late \cup {s} ELSE late

\* The bound on the revisions of all specs together.
MayRevise ==
  Cardinality(UNION {{s} \X (1 .. specs[s].revision) : s \in SpecId}) < MaxRevision

-----------------------------------------------------------------------------
(* Rows of cron_specs. *)

\* insertSpecRow, for a hub schedule.
Inserted(kind, enabled, runAt) ==
  [known |-> TRUE, kind |-> kind, enabled |-> enabled, removed |-> FALSE,
   revision |-> 1, next |-> NoTime, runAt |-> runAt, content |-> FALSE]

\* hasMeaningfulChange, from x to y.  edited: a field of the spec that is run, or
\* the pattern, differs.
MeaningfulChange(x, y, edited) ==
  edited \/ y.kind # x.kind \/ y.runAt # x.runAt \/ (y.enabled /\ ~x.enabled)

\* upsertSpec gives a new row revision 1; a known one is revised only if the hash of
\* the content, too, has changed.
Revised(x, y, hashChanged, edited) ==
  ~x.known \/ (hashChanged /\ MeaningfulChange(x, y, edited))

\* updateSpecRow: a removed spec is back, its next run stays.
Upserted(y, revised) ==
  [y EXCEPT !.known = TRUE, !.removed = FALSE, !.revision = IF revised THEN @ + 1 ELSE @]

\* initializeHubScheduleNextRun.
InitialNext(x, t) ==
  IF ~x.enabled THEN NoTime ELSE IF x.kind = "one_off" THEN x.runAt ELSE NextSlot(t)

-----------------------------------------------------------------------------
(* Hub schedules: HubScheduleService and the store behind it. *)

\* validateScheduleTiming, which only wants a future time of what is enabled.
ValidTiming(kind, runAt, enabled) ==
  IF kind = "one_off" THEN enabled => now < runAt ELSE runAt = NoTime

\* createHubSchedule inserts the row; the next run is set by a later statement.
Create(p, s, kind, runAt, enabled) ==
  /\ Begins(p) /\ s \in Hub /\ ~specs[s].known
  /\ ValidTiming(kind, runAt, TRUE)
  /\ MayRevise
  /\ specs' = [specs EXCEPT ![s] = Inserted(kind, enabled, runAt)]
  /\ Goes(p, "creating", s) /\ Ends(p)
  /\ UNCHANGED <<now, runs, listed, due, faults, late>>

Created(p) ==
  /\ doing[p] = "creating"
  /\ \E t \in Reading(p) : SetNext(target[p], t, InitialNext(specs[target[p]], t))
  /\ Goes(p, "idle", NoSpec) /\ Forgets(p)
  /\ UNCHANGED <<now, runs, listed, due, faults>>

\* A client learns of a schedule when its creation has returned.
Announced(s) ==
  s \in Hub /\ specs[s].known /\ ~specs[s].removed
  /\ \A q \in Proc : doing[q] = "creating" => target[q] # s

\* cronSpecRecordToHubScheduleInput: x with what an update says of the enabled
\* flag, switch, and of the time, timing and at.  A recurring schedule has no runAt.
Merged(x, switch, timing, at) ==
  LET kind == CASE timing = "once" -> "one_off" [] timing = "cron" -> "schedule"
                [] OTHER -> x.kind
  IN [x EXCEPT !.kind = kind,
               !.enabled = IF switch = "unset" THEN @ ELSE switch = "on",
               !.runAt = IF kind = "schedule" THEN NoTime
                         ELSE IF timing = "once" THEN at ELSE @]

\* Mutant of Replaced: only pausing or resuming replaces what is queued.
ReplacedWhenToggled(s, y, revised) ==
  IF "one_off" \in {specs[s].kind, y.kind} /\ y.enabled # specs[s].enabled
    THEN {i \in QueuedRows(s) : runs[i].trigger = "one_off"} ELSE {}

\* cancelQueuedOneOffRunsForSpec, in the cases where an update calls it.
Replaced(s, y, revised) ==
  IF "one_off" \in {specs[s].kind, y.kind} /\ (revised \/ y.enabled # specs[s].enabled)
    THEN {i \in QueuedRows(s) : runs[i].trigger = "one_off"} ELSE {}

\* updateSchedule, and with it pauseSchedule and resumeSchedule: one transaction.
\* The next run is set anew only if the update says something of flag or time.
Update(p, s, edited, switch, timing, at) ==
  LET y == Merged(specs[s], switch, timing, at)
      revised == MeaningfulChange(specs[s], y, edited)
      z == Upserted(y, revised)
  IN /\ Begins(p) /\ Announced(s)
     /\ ValidTiming(y.kind, y.runAt, y.enabled)
     /\ revised => MayRevise
     /\ specs' = [specs EXCEPT ![s] =
          IF switch = "unset" /\ timing = "unset" THEN z
          ELSE [z EXCEPT !.next = InitialNext(z, now)]]
     /\ runs' = WithStatus(Replaced(s, y, revised), "cancelled")
     /\ UNCHANGED <<now, procVars, faults, late>>

\* triggerScheduleNow.  A one-time schedule is consumed: a transaction replaces
\* its queued run by a manual one, unless a run is on record that was not
\* cancelled.  In any case the process polls next.
TriggerNow(p, s) ==
  LET x == specs[s]
      taken == {i \in Rows(s, x.revision) :
                  \/ runs[i].trigger = "manual" /\ runs[i].status # "cancelled"
                  \/ runs[i].trigger = "one_off" /\ runs[i].status \in {"running", "done"}}
      replaced == {i \in Rows(s, x.revision) :
                     runs[i].trigger = "one_off" /\ runs[i].status = "queued"}
      manual == QueuedRun(s, x.revision, "manual", now)
  IN /\ Begins(p) /\ Announced(s) /\ Live(s)
     /\ Cardinality({i \in DOMAIN runs : runs[i].trigger = "manual"}) < MaxManual
     /\ \/ /\ x.kind = "schedule"
           /\ runs' = Append(runs, manual) /\ UNCHANGED specs
        \/ /\ x.kind = "one_off"
           /\ specs' = [specs EXCEPT ![s].next = NoTime]
           /\ runs' = IF taken # {} THEN runs
                      ELSE Append(WithStatus(replaced, "cancelled"), manual)
     /\ Now(p, "ticking")
     /\ UNCHANGED <<now, target, listed, due, since, faults, late>>

-----------------------------------------------------------------------------
(* Deletion, of a hub schedule or of a spec whose file is gone, is two         *)
(* statements.                                                                 *)

MarkRemoved(p, s) ==
  /\ Begins(p) /\ specs[s].known /\ ~specs[s].removed
  /\ s \in Hub => Announced(s)
  /\ specs' = [specs EXCEPT ![s].removed = TRUE, ![s].enabled = FALSE]
  /\ Goes(p, "deleting", s)
  /\ UNCHANGED <<now, runs, listed, due, since, faults, late>>

\* Mutant of CancelQueued: runs that have ended are cancelled too.
CancelAll(p) ==
  /\ doing[p] = "deleting"
  /\ runs' = WithStatus({i \in DOMAIN runs : runs[i].spec = target[p]}, "cancelled")
  /\ Goes(p, "idle", NoSpec)
  /\ UNCHANGED <<now, specs, listed, due, since, faults, late>>

CancelQueued(p) ==
  /\ doing[p] = "deleting"
  /\ runs' = WithStatus(QueuedRows(target[p]), "cancelled")
  /\ Goes(p, "idle", NoSpec)
  /\ UNCHANGED <<now, specs, listed, due, since, faults, late>>

-----------------------------------------------------------------------------
(* Spec files: the reconciler, at startup or after the watcher saw a change. *)

\* reconcileFile upserts the spec.  enabled is what the file says (FALSE too for
\* a file that does not parse); edited, retimed: what is run, or its pattern,
\* differs from the row.  A file that was removed may return as it was.
FileUpserted(p, s, enabled, edited, retimed) ==
  LET x == specs[s]
      y == [x EXCEPT !.enabled = enabled, !.content = enabled]
      same == ~edited /\ ~retimed /\ enabled = x.content
      revised == Revised(x, y, ~same, edited \/ retimed)
      reset == ~x.known \/ x.removed \/ ~x.enabled \/ retimed \/ x.next = NoTime
  IN /\ Begins(p) /\ s \in File
     /\ retimed => x.kind = "schedule"
     /\ revised => MayRevise
     /\ specs' = [specs EXCEPT ![s] = Upserted(y, revised)]
     /\ IF x.kind = "schedule" /\ enabled /\ reset THEN Goes(p, "applying", s)
          ELSE UNCHANGED <<doing, target>>
     /\ UNCHANGED <<now, runs, listed, due, since, faults, late>>

\* The row is read again, and the clock: what the row has is not written again.
NextComputed(p) ==
  /\ doing[p] = "applying"
  /\ IF specs[target[p]].next = NextSlot(now)
       THEN Goes(p, "idle", NoSpec) /\ UNCHANGED since
       ELSE Now(p, "setting") /\ Ends(p) /\ UNCHANGED target
  /\ UNCHANGED <<now, specs, runs, listed, due, faults, late>>

\* refreshScheduleNextRunAt finds an enabled schedule that has no next run.
Refresh(p, s) ==
  /\ Begins(p) /\ Live(s) /\ specs[s].kind = "schedule" /\ specs[s].next = NoTime
  /\ Goes(p, "setting", s) /\ Ends(p)
  /\ UNCHANGED <<now, specs, runs, listed, due, faults, late>>

\* applyScheduleNextRunAt: the statement does not look at the row again.
NextRunApplied(p) ==
  /\ doing[p] = "setting"
  /\ \E t \in Reading(p) : SetNext(target[p], t, NextSlot(t))
  /\ Goes(p, "idle", NoSpec) /\ Forgets(p)
  /\ UNCHANGED <<now, runs, listed, due, faults>>

-----------------------------------------------------------------------------
(* A poll: materializeAll, then claimDueRuns. *)

Listing(s) == [spec |-> s, revision |-> specs[s].revision, next |-> specs[s].next]

\* Mutant of ListOneOffs: only those whose time has come.
ListDueOneOffs(p) ==
  /\ doing[p] \in {"idle", "ticking"}
  /\ Now(p, "oneOffs")
  /\ listed' = [listed EXCEPT ![p] =
       {Listing(s) : s \in {s \in SpecId : /\ Live(s) /\ specs[s].kind = "one_off"
                                           /\ specs[s].next \in 1 .. now}}]
  /\ UNCHANGED <<now, specs, runs, target, due, since, faults, late>>

ListOneOffs(p) ==
  /\ doing[p] \in {"idle", "ticking"}
  /\ Now(p, "oneOffs")
  /\ listed' = [listed EXCEPT ![p] =
       {Listing(s) : s \in {s \in SpecId : Live(s) /\ specs[s].kind = "one_off"}}]
  /\ UNCHANGED <<now, specs, runs, target, due, since, faults, late>>

\* materializeOneOff looks for a run of the revision that was listed ...
CheckOneOff(p, o) ==
  /\ doing[p] = "oneOffs" /\ o \in listed[p]
  /\ IF Consumed(o.spec, o.revision)
       THEN listed' = [listed EXCEPT ![p] = @ \ {o}] /\ UNCHANGED <<doing, target, since>>
       ELSE Goes(p, "inserting", o.spec) /\ Ends(p) /\ UNCHANGED listed
  /\ UNCHANGED <<now, specs, runs, due, faults, late>>

\* Mutant of InsertOneOff: the table has no unique index.
InsertOneOffUnindexed(p, o) ==
  /\ doing[p] = "inserting" /\ o \in listed[p] /\ target[p] = o.spec
  /\ \E t \in Reading(p) :
       runs' = Append(runs, QueuedRun(o.spec, o.revision, "one_off",
                                      IF o.next = NoTime THEN t ELSE o.next))
  /\ listed' = [listed EXCEPT ![p] = @ \ {o}]
  /\ Goes(p, "oneOffs", NoSpec) /\ Forgets(p)
  /\ UNCHANGED <<now, specs, due, faults, late>>

\* ... and inserts one.  If another process was faster the unique index of
\* cron_runs makes the statement fail, and with it the whole poll.
InsertOneOff(p, o) ==
  /\ doing[p] = "inserting" /\ o \in listed[p] /\ target[p] = o.spec
  /\ \/ /\ OnRecord(o.spec, o.revision)
        /\ listed' = [listed EXCEPT ![p] = {}]
        /\ Goes(p, "idle", NoSpec)
        /\ UNCHANGED runs
     \/ /\ ~OnRecord(o.spec, o.revision)
        /\ \E t \in Reading(p) :
             runs' = Append(runs, QueuedRun(o.spec, o.revision, "one_off",
                                            IF o.next = NoTime THEN t ELSE o.next))
        /\ listed' = [listed EXCEPT ![p] = @ \ {o}]
        /\ Goes(p, "oneOffs", NoSpec)
  /\ Forgets(p)
  /\ UNCHANGED <<now, specs, due, faults, late>>

ListSchedules(p) ==
  /\ doing[p] = "oneOffs" /\ listed[p] = {}
  /\ Now(p, "schedules")
  /\ due' = [due EXCEPT ![p] = {s \in SpecId : Live(s) /\ specs[s].kind = "schedule"}]
  /\ Ends(p)
  /\ UNCHANGED <<now, specs, runs, target, listed, faults, late>>

\* Mutant of MaterializeDue: a schedule without a next run is passed over.
MaterializeInitialised(p, s) ==
  LET x == specs[s] IN
    /\ doing[p] = "schedules" /\ s \in due[p]
    /\ due' = [due EXCEPT ![p] = @ \ {s}]
    /\ \E t \in Reading(p) :
         \/ /\ x.kind = "schedule" /\ Live(s) /\ x.next # NoTime /\ x.next <= t
            /\ runs' = Append(runs, QueuedRun(s, x.revision, "schedule", x.next))
            /\ specs' = [specs EXCEPT ![s].next = NextSlot(t)]
         \/ /\ x.kind # "schedule" \/ ~Live(s) \/ x.next = NoTime \/ t < x.next
            /\ UNCHANGED <<specs, runs>>
    /\ Ends(p)
    /\ UNCHANGED <<now, doing, target, listed, faults, late>>

\* materializeDueScheduleRun: a transaction that reads the spec again.  However
\* many slots have passed, it gives one run, for the oldest of them.
MaterializeDue(p, s) ==
  LET x == specs[s] IN
    /\ doing[p] = "schedules" /\ s \in due[p]
    /\ due' = [due EXCEPT ![p] = @ \ {s}]
    /\ \E t \in Reading(p) :
         \/ /\ x.kind = "schedule" /\ Live(s) /\ x.next = NoTime
            /\ SetNext(s, t, NextSlot(t))
            /\ UNCHANGED runs
         \/ /\ x.kind = "schedule" /\ Live(s) /\ x.next # NoTime /\ x.next <= t
            /\ runs' = Append(runs, QueuedRun(s, x.revision, "schedule", x.next))
            /\ specs' = [specs EXCEPT ![s].next = NextSlot(t)]
            /\ UNCHANGED late
         \/ /\ x.kind # "schedule" \/ ~Live(s) \/ t < x.next
            /\ UNCHANGED <<specs, runs, late>>
    /\ Ends(p)
    /\ UNCHANGED <<now, doing, target, listed, faults>>

\* claimDueRuns takes what there is room for; executeClaim cancels the claim of a
\* spec that is disabled or removed.
ClaimDue(p) ==
  /\ doing[p] = "schedules" /\ due[p] = {}
  /\ \E C \in SUBSET {i \in DOMAIN runs : runs[i].status = "queued" /\ runs[i].at <= now} :
       runs' = [i \in DOMAIN runs |->
         IF i \in C
           THEN [runs[i] EXCEPT !.claimed = TRUE,
                   !.status = IF Live(runs[i].spec) THEN "running" ELSE "cancelled"]
           ELSE runs[i]]
  /\ Now(p, "idle") /\ Forgets(p)
  /\ UNCHANGED <<now, specs, target, listed, due, faults, late>>

\* An execution ends: done or failed, or cancelled by a stop or a time-out.  After
\* that of a one-off the next run of its spec is cleared ...
Ended(p, i) ==
  /\ Begins(p) /\ i \in DOMAIN runs /\ runs[i].status = "running"
  /\ \E status \in {"done", "cancelled"} : runs' = WithStatus({i}, status)
  /\ IF runs[i].trigger = "one_off" THEN Goes(p, "clearing", runs[i].spec)
       ELSE UNCHANGED <<doing, target>>
  /\ UNCHANGED <<now, specs, listed, due, since, faults, late>>

\* ... whatever the spec has become meanwhile.
Cleared(p) ==
  /\ doing[p] = "clearing"
  /\ specs' = [specs EXCEPT ![target[p]].next = NoTime]
  /\ Goes(p, "idle", NoSpec)
  /\ UNCHANGED <<now, runs, listed, due, since, faults, late>>

-----------------------------------------------------------------------------

\* A process dies between two statements, and is started again.
Crash(p) ==
  /\ doing[p] # "idle"
  /\ faults < MaxFaults /\ faults' = faults + 1
  /\ Goes(p, "idle", NoSpec)
  /\ listed' = [listed EXCEPT ![p] = {}] /\ due' = [due EXCEPT ![p] = {}]
  /\ Forgets(p)
  /\ UNCHANGED <<now, specs, runs, late>>

Tick ==
  now < MaxTime /\ now' = now + 1 /\ UNCHANGED <<specs, runs, procVars, faults, late>>

ClientStep(p, s) ==
  \/ \E kind \in Kind, runAt \in 0 .. MaxTime, enabled \in BOOLEAN :
       Create(p, s, kind, runAt, enabled)
  \/ \E edited \in BOOLEAN, switch \in {"unset", "on", "off"},
        timing \in {"unset", "cron", "once"} :
       \E at \in IF timing = "once" THEN 1 .. MaxTime ELSE {NoTime} :
         Update(p, s, edited, switch, timing, at)
  \/ TriggerNow(p, s) \/ MarkRemoved(p, s) \/ Refresh(p, s)
  \/ \E enabled, edited, retimed \in BOOLEAN : FileUpserted(p, s, enabled, edited, retimed)

\* What a process does next once it has begun.
Proceed(p) ==
  \/ NextComputed(p) \/ Created(p) \/ NextRunApplied(p) \/ CancelQueued(p)
  \/ \E o \in listed[p] : CheckOneOff(p, o) \/ InsertOneOff(p, o)
  \/ ListSchedules(p) \/ (\E s \in due[p] : MaterializeDue(p, s))
  \/ ClaimDue(p) \/ Cleared(p)

Next ==
  \/ \E p \in Proc : \/ \E s \in SpecId : ClientStep(p, s)
                     \/ \E i \in DOMAIN runs : Ended(p, i)
                     \/ ListOneOffs(p) \/ Proceed(p) \/ Crash(p)
  \/ Tick

Spec == Init /\ [][Next]_vars

\* Fairness: a process that has begun something goes on, and its timer polls again
\* and again, however busy its clients keep it.
FairSpec ==
  Spec /\ \A p \in Proc : WF_vars(Proceed(p)) /\ SF_vars(ListOneOffs(p))

-----------------------------------------------------------------------------
(* Properties. *)

\* The rows of a recurring schedule are for slots in increasing order, no slot is run
\* twice, however processes poll, crash, edit or restore the spec.  There is one way to
\* a second run: a process is so late with a next run it has computed that another has
\* queued the slot meanwhile, and sets it back.
SlotsRunOnce ==
  \A i, j \in DOMAIN runs :
    /\ i < j /\ runs[i].spec = runs[j].spec /\ runs[i].spec \notin late
    /\ runs[i].trigger = "schedule" /\ runs[j].trigger = "schedule"
    => runs[i].at < runs[j].at

\* ARCHITECTURE.md, "at most one run record per (spec_id, revision)": two polls do
\* not both queue a one-off, whatever became of the first run.
OneRecordPerRevision ==
  \A i, j \in DOMAIN runs :
    /\ i # j /\ runs[i].spec = runs[j].spec /\ runs[i].revision = runs[j].revision
    => ~(runs[i].trigger = "one_off" /\ runs[j].trigger = "one_off")

\* Rows have their types, and a one-off one record.
RowsInv == TypeOK /\ OneRecordPerRevision

\* One process: a one-time schedule that is triggered by hand, before its time or
\* while it is queued, runs once, unless the run was cancelled.
OneOffRunsOnce ==
  \A s \in SpecId : specs[s].kind = "one_off" =>
    Cardinality({i \in Rows(s, specs[s].revision) :
      runs[i].trigger \in {"one_off", "manual"} /\ runs[i].status # "cancelled"}) <= 1

\* One process: a client that edits, moves or pauses a one-time schedule leaves no
\* queued run of what the schedule was before.
QueuedOneOffsAreCurrent ==
  \A s \in Hub : Live(s) => \A i \in QueuedRows(s) :
    runs[i].trigger = "one_off" =>
      specs[s].kind = "one_off" /\ runs[i].revision = specs[s].revision

\* The rows are those that CronQueue claims and executes.
RowId == 1 .. MaxRow
StatusOf == [i \in RowId |-> IF i \in DOMAIN runs THEN runs[i].status ELSE "none"]
ClaimsOf == [i \in RowId |-> IF i \in DOMAIN runs /\ runs[i].claimed THEN 1 ELSE 0]
Ledger == INSTANCE RunLedger WITH Run <- RowId, status <- StatusOf, claims <- ClaimsOf
LedgerSpec == Ledger!Spec

\* An enabled schedule gets a next run, and a run for every slot that it reaches
\* or a later one, although processes die between two statements.
SchedulesAdvance ==
  \A s \in SpecId :
    Live(s) /\ specs[s].kind = "schedule" /\ specs[s].next <= now
      ~> ~Live(s) \/ specs[s].kind # "schedule" \/ now < specs[s].next

\* An enabled one-off is queued in the end, or has been run by hand.
OneOffsAreQueued ==
  \A s \in SpecId :
    Live(s) /\ specs[s].kind = "one_off"
      ~> ~Live(s) \/ specs[s].kind # "one_off" \/ Consumed(s, specs[s].revision)

=============================================================================
