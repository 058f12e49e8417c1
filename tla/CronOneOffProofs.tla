-------------------------- MODULE CronOneOffProofs --------------------------
(***************************************************************************)
(* Theorems about schedules when one process has the database: for every   *)
(* number of hub schedules, spec files, edits, polls, triggers by hand and *)
(* crashes.  With two processes none of them holds: one lists a one-off,   *)
(* the other triggers it or edits it, the first one inserts; or one        *)
(* computes the next run of a schedule, the other queues that slot, the    *)
(* first one sets it back.                                                 *)
(***************************************************************************)
EXTENDS CronScheduleProofs, FiniteSetTheorems

OneProcess == \A p, q \in Proc : p = q

ByHandOrTime == {"one_off", "manual"}

\* The runs of the current revision that were not cancelled.
Active(s) ==
  {i \in Rows(s, specs[s].revision) :
     runs[i].trigger \in ByHandOrTime /\ runs[i].status # "cancelled"}

\* Rows are of specs on record, and of no revision that is still to come.
RowsArePast ==
  \A i \in DOMAIN runs :
    /\ specs[runs[i].spec].known
    /\ runs[i].revision <= specs[runs[i].spec].revision

OneActive ==
  \A s \in SpecId : specs[s].kind = "one_off" => \A i, j \in Active(s) : i = j

\* A schedule that is not removed, paused or not, has no queued run of what it was.
QueuedOf(s) == {i \in QueuedRows(s) : runs[i].trigger = "one_off"}
QueuedAreCurrent ==
  \A s \in Hub : ~specs[s].removed => \A i \in QueuedOf(s) :
    specs[s].kind = "one_off" /\ runs[i].revision = specs[s].revision

\* What a poll has listed is so while it goes through the list: nobody else is there.
ListIsCurrent ==
  \A p \in Proc : \A o \in listed[p] :
    /\ doing[p] \in {"oneOffs", "inserting"}
    /\ Live(o.spec) /\ specs[o.spec].kind = "one_off"
    /\ specs[o.spec].revision = o.revision

InsertIsFirst ==
  \A p \in Proc : doing[p] = "inserting" =>
    ~Consumed(target[p], specs[target[p]].revision)

OneOffInv == RowsArePast /\ OneActive /\ QueuedAreCurrent /\ ListIsCurrent /\ InsertIsFirst

-----------------------------------------------------------------------------
(* What one step of the only process does. *)

SpecKept(s) ==
  /\ specs'[s].kind = specs[s].kind /\ specs'[s].revision = specs[s].revision
  /\ specs[s].known => specs'[s].known
  /\ s \in Hub /\ specs[s].removed => specs'[s].removed

SpecRevised(s) ==
  specs'[s].known /\ (specs[s].known => specs'[s].revision = specs[s].revision + 1)

\* No run that was queued for the time of a one-off is queued any longer.
OneOffsReplaced(s) == \A i \in QueuedOf(s) : runs'[i].status # "queued"

SpecStep(s) ==
  \/ SpecKept(s)
  \/ SpecRevised(s) /\ (s \in Hub => OneOffsReplaced(s))

\* A run that is inserted is one of the spec as it stands; a one-off's is the only one.
RowIsCurrent(row) ==
  LET x == specs[row.spec] IN
    /\ row.spec \in SpecId /\ x.known /\ row.revision = x.revision
    /\ row.trigger = "one_off" => x.kind = "one_off"
    /\ x.kind = "one_off" /\ row.trigger \in ByHandOrTime =>
         \A i \in Active(row.spec) : runs'[i].status = "cancelled"

OneOffStep ==
  \/ RunsKept /\ \A s \in SpecId : SpecStep(s)
  \/ /\ \A s \in SpecId : SpecKept(s)
     /\ \E row : RunAdded(row) /\ RowIsCurrent(row)

(* Such a step keeps one active run, and no outdated one.                   *)
LEMMA OneOffStepKeeps ==
  ASSUME TypeOK, TypeOK', RowsArePast, OneActive, QueuedAreCurrent, OneOffStep
  PROVE  RowsArePast' /\ OneActive' /\ QueuedAreCurrent'
<1>0. /\ \A i \in DOMAIN runs : /\ runs[i].spec \in SpecId /\ runs[i].revision \in Nat
                                /\ runs[i].status \in Status
      /\ \A s \in SpecId : specs[s].revision \in Nat /\ specs'[s].revision \in Nat
      /\ Hub \subseteq SpecId
  BY RowTypes, NewRowTypes DEF RunRow, SpecRow, SpecId
<1>1. CASE RunsKept /\ \A s \in SpecId : SpecStep(s)
  <2>0. DOMAIN runs' = DOMAIN runs /\ \A i \in DOMAIN runs : RowKept(i)
    BY <1>1 DEF RunsKept
  <2>1. RowsArePast'
    <3> SUFFICES ASSUME NEW i \in DOMAIN runs
                 PROVE  /\ specs'[runs'[i].spec].known
                        /\ runs'[i].revision <= specs'[runs'[i].spec].revision
      BY <2>0 DEF RowsArePast
    <3>1. /\ runs'[i].spec = runs[i].spec /\ runs'[i].revision = runs[i].revision
          /\ runs[i].spec \in SpecId
      BY <1>0, <2>0 DEF RowKept
    <3>2. specs[runs[i].spec].known /\ runs[i].revision <= specs[runs[i].spec].revision
      BY DEF RowsArePast
    <3>3. SpecKept(runs[i].spec) \/ SpecRevised(runs[i].spec)
      BY <1>1, <3>1 DEF SpecStep
    <3> QED
      BY <1>0, <3>1, <3>2, <3>3 DEF SpecKept, SpecRevised
  <2>2. OneActive'
    <3> SUFFICES ASSUME NEW s \in SpecId, specs'[s].kind = "one_off",
                        NEW i \in Active(s)', NEW j \in Active(s)'
                 PROVE  i = j
      BY DEF OneActive
    <3>1. ASSUME NEW k \in Active(s)'
          PROVE  /\ k \in DOMAIN runs /\ runs[k].spec = s
                 /\ runs[k].revision = specs'[s].revision
                 /\ runs[k].trigger \in ByHandOrTime /\ runs[k].status # "cancelled"
      BY <2>0, <3>1 DEF Active, Rows, RowKept
    <3>2. CASE SpecKept(s)
      <4>1. i \in Active(s) /\ j \in Active(s)
        BY <3>1, <3>2 DEF Active, Rows, SpecKept
      <4> QED
        BY <3>2, <4>1 DEF OneActive, SpecKept
    <3>3. CASE SpecRevised(s)
      <4>1. runs[i].revision <= specs[s].revision /\ runs[i].revision = specs[s].revision + 1
        BY <1>0, <3>1, <3>3 DEF RowsArePast, SpecRevised
      <4> QED
        BY <1>0, <4>1
    <3> QED
      BY <1>1, <3>2, <3>3 DEF SpecStep
  <2>3. QueuedAreCurrent'
    <3> SUFFICES ASSUME NEW s \in Hub, ~specs'[s].removed, NEW i \in QueuedOf(s)'
                 PROVE  specs'[s].kind = "one_off" /\ runs'[i].revision = specs'[s].revision
      BY DEF QueuedAreCurrent
    <3>1. /\ i \in QueuedOf(s) /\ runs'[i].revision = runs[i].revision
          /\ runs'[i].status = "queued"
      BY <2>0 DEF QueuedOf, QueuedRows, RowKept
    <3>2. SpecStep(s)
      BY <1>0, <1>1
    <3>3. SpecKept(s)
      BY <3>1, <3>2 DEF SpecStep, OneOffsReplaced
    <3> QED
      BY <3>1, <3>3 DEF SpecKept, QueuedAreCurrent
  <2> QED
    BY <2>1, <2>2, <2>3
<1>2. ASSUME \A s \in SpecId : SpecKept(s), NEW row, RunAdded(row), RowIsCurrent(row)
      PROVE  RowsArePast' /\ OneActive' /\ QueuedAreCurrent'
  <2> DEFINE n == Len(runs) + 1
  <2>0. /\ DOMAIN runs' = DOMAIN runs \cup {n} /\ runs'[n] = row /\ n \notin DOMAIN runs
        /\ \A i \in DOMAIN runs : RowKept(i)
    BY <1>2 DEF RunAdded
  <2>a. row.spec \in SpecId /\ specs[row.spec].known /\ row.revision = specs[row.spec].revision
    BY <1>2 DEF RowIsCurrent
  <2> HIDE DEF n
  <2>1. RowsArePast'
    <3> SUFFICES ASSUME NEW i \in DOMAIN runs'
                 PROVE  /\ specs'[runs'[i].spec].known
                        /\ runs'[i].revision <= specs'[runs'[i].spec].revision
      BY DEF RowsArePast
    <3>1. CASE i \in DOMAIN runs
      <4>1. runs[i].spec \in SpecId /\ SpecKept(runs[i].spec) /\ RowKept(i)
        BY <1>0, <1>2, <2>0, <3>1
      <4>2. specs[runs[i].spec].known /\ runs[i].revision <= specs[runs[i].spec].revision
        BY <3>1 DEF RowsArePast
      <4> QED
        BY <4>1, <4>2 DEF SpecKept, RowKept
    <3>2. CASE i = n
      BY <1>0, <1>2, <2>0, <2>a, <3>2 DEF SpecKept
    <3> QED
      BY <2>0, <3>1, <3>2
  <2>2. OneActive'
    <3> SUFFICES ASSUME NEW s \in SpecId, specs'[s].kind = "one_off",
                        NEW i \in Active(s)', NEW j \in Active(s)'
                 PROVE  i = j
      BY DEF OneActive
    <3>1. specs[s].kind = "one_off" /\ specs'[s].revision = specs[s].revision
      BY <1>2 DEF SpecKept
    <3>2. ASSUME NEW k \in Active(s)', k \in DOMAIN runs
          PROVE  k \in Active(s) /\ runs'[k].status # "cancelled"
      BY <2>0, <3>1, <3>2 DEF Active, Rows, RowKept
    <3>3. \A k \in Active(s)' : k \in DOMAIN runs \/ k = n
      BY <2>0 DEF Active, Rows
    <3>4. ASSUME n \in Active(s)', NEW k \in Active(s) PROVE runs'[k].status = "cancelled"
      <4>1. row.spec = s /\ row.trigger \in ByHandOrTime
        BY <2>0, <3>4 DEF Active, Rows
      <4> QED
        BY <1>2, <3>1, <3>4, <4>1 DEF RowIsCurrent
    <3> QED
      BY <3>1, <3>2, <3>3, <3>4 DEF OneActive
  <2>3. QueuedAreCurrent'
    <3> SUFFICES ASSUME NEW s \in Hub, ~specs'[s].removed, NEW i \in QueuedOf(s)'
                 PROVE  specs'[s].kind = "one_off" /\ runs'[i].revision = specs'[s].revision
      BY DEF QueuedAreCurrent
    <3>1. SpecKept(s)
      BY <1>0, <1>2
    <3>2. CASE i \in DOMAIN runs
      <4>1. i \in QueuedOf(s) /\ runs'[i].revision = runs[i].revision
        BY <2>0, <3>2 DEF QueuedOf, QueuedRows, RowKept
      <4> QED
        BY <3>1, <4>1 DEF SpecKept, QueuedAreCurrent
    <3>3. CASE i = n
      <4>1. row.spec = s /\ row.trigger = "one_off"
        BY <2>0, <3>3 DEF QueuedOf, QueuedRows
      <4> QED
        BY <1>2, <2>0, <2>a, <3>1, <3>3, <4>1 DEF SpecKept, RowIsCurrent
    <3> QED
      BY <2>0, <3>2, <3>3 DEF QueuedOf, QueuedRows
  <2> QED
    BY <2>1, <2>2, <2>3
<1> QED
  BY <1>1, <1>2 DEF OneOffStep

-----------------------------------------------------------------------------
(* A poll goes through what it has listed undisturbed. *)

(* Nothing is listed outside the part of a poll that deals with one-offs.   *)
LEMMA NothingListed ==
  ASSUME OneProcess, ListIsCurrent, NEW p \in Proc,
         doing[p] \notin {"oneOffs", "inserting"}, UNCHANGED listed,
         doing'[p] # "inserting"
  PROVE  ListIsCurrent' /\ InsertIsFirst'
<1>1. \A q \in Proc : q = p
  BY DEF OneProcess
<1>2. listed'[p] = {}
  BY DEF ListIsCurrent
<1> QED
  BY <1>1, <1>2 DEF ListIsCurrent, InsertIsFirst

LEMMA ListStaysCurrent ==
  ASSUME OneProcess, TypeOK, ListIsCurrent, InsertIsFirst, [Next]_vars
  PROVE  ListIsCurrent' /\ InsertIsFirst'
<1> USE DEF procVars
<1>0. /\ doing \in [Proc -> Doing] /\ target \in [Proc -> SpecId \cup {NoSpec}]
      /\ listed \in [Proc -> SUBSET [spec : SpecId, revision : Nat, next : Nat]]
      /\ due \in [Proc -> SUBSET SpecId]
      /\ \A p, q \in Proc : p = q
  BY DEF TypeOK, OneProcess
<1>same. ASSUME UNCHANGED <<specs, runs, doing, target, listed>>
         PROVE  ListIsCurrent' /\ InsertIsFirst'
  BY <1>same DEF ListIsCurrent, InsertIsFirst, Live, Consumed, Rows
<1>1. CASE UNCHANGED vars \/ Tick
  BY <1>1, <1>same DEF vars, Tick
<1>2. ASSUME NEW p \in Proc, NEW s \in SpecId, ClientStep(p, s)
      PROVE  ListIsCurrent' /\ InsertIsFirst'
  <2>1. /\ doing[p] = "idle" /\ UNCHANGED listed
        /\ doing' = doing \/ \E what \in Doing \ {"inserting"} : Now(p, what)
    <3>1. ASSUME NEW edited, NEW switch, NEW timing, NEW at,
                 Update(p, s, edited, switch, timing, at)
          PROVE  Begins(p) /\ UNCHANGED <<listed, doing>>
      BY <3>1 DEF Update
    <3>2. ASSUME NEW kind, NEW runAt, NEW enabled, Create(p, s, kind, runAt, enabled)
          PROVE  Begins(p) /\ UNCHANGED listed /\ Now(p, "creating")
      BY <3>2 DEF Create, Goes
    <3>3. ASSUME NEW enabled, NEW edited, NEW retimed,
                 FileUpserted(p, s, enabled, edited, retimed)
          PROVE  Begins(p) /\ UNCHANGED listed /\ (doing' = doing \/ Now(p, "applying"))
      BY <3>3 DEF FileUpserted, Goes
    <3>4. CASE TriggerNow(p, s)
      BY <3>4 DEF TriggerNow, Begins, Doing
    <3>5. CASE MarkRemoved(p, s) \/ Refresh(p, s)
      BY <3>5 DEF MarkRemoved, Refresh, Goes, Begins, Doing
    <3> QED
      BY <1>2, <3>1, <3>2, <3>3, <3>4, <3>5 DEF ClientStep, Doing, Begins
  <2>2. doing'[p] # "inserting"
    BY <1>0, <2>1 DEF Now
  <2> QED
    BY <2>1, <2>2, NothingListed
<1>3. ASSUME NEW p \in Proc, NEW i \in DOMAIN runs, Ended(p, i)
      PROVE  ListIsCurrent' /\ InsertIsFirst'
  <2>1. doing[p] = "idle" /\ UNCHANGED listed /\ doing'[p] # "inserting"
    BY <1>0, <1>3 DEF Ended, Begins, Goes, Now
  <2> QED
    BY <2>1, NothingListed
<1>4. ASSUME NEW p \in Proc, ListOneOffs(p) PROVE ListIsCurrent' /\ InsertIsFirst'
  <2>1. /\ doing'[p] = "oneOffs" /\ specs' = specs
        /\ listed'[p] = {Listing(s) : s \in {s \in SpecId : Live(s) /\ specs[s].kind = "one_off"}}
    BY <1>0, <1>4 DEF ListOneOffs, Now
  <2>2. ASSUME NEW o \in listed'[p]
        PROVE  /\ Live(o.spec)' /\ specs'[o.spec].kind = "one_off"
               /\ specs'[o.spec].revision = o.revision
    <3>1. PICK s \in SpecId : Live(s) /\ specs[s].kind = "one_off" /\ o = Listing(s)
      BY <2>1, <2>2
    <3>2. o.spec = s /\ o.revision = specs[s].revision
      BY <3>1 DEF Listing
    <3> QED
      BY <2>1, <3>1, <3>2 DEF Live
  <2>3. \A q \in Proc : q = p
    BY <1>0
  <2> QED
    BY <2>1, <2>2, <2>3 DEF ListIsCurrent, InsertIsFirst
<1>5. ASSUME NEW p \in Proc, Proceed(p) PROVE ListIsCurrent' /\ InsertIsFirst'
  <2>0. \A q \in Proc : q = p
    BY <1>0
  <2>1. CASE \/ Created(p) \/ CancelQueued(p) \/ NextRunApplied(p) \/ Cleared(p)
             \/ NextComputed(p)
    <3>1. /\ doing[p] \notin {"oneOffs", "inserting"} /\ UNCHANGED listed
          /\ doing'[p] # "inserting"
      BY <1>0, <2>1
      DEF Created, CancelQueued, NextRunApplied, Cleared, NextComputed, Goes, Now
    <3> QED
      BY <3>1, NothingListed
  <2>2. CASE (\E s \in due[p] : MaterializeDue(p, s)) \/ ClaimDue(p)
    <3>1. /\ doing[p] = "schedules" /\ UNCHANGED listed
          /\ doing'[p] # "inserting"
      BY <1>0, <2>2 DEF MaterializeDue, ClaimDue, Now
    <3> QED
      BY <3>1, NothingListed
  <2>3. CASE ListSchedules(p)
    <3>1. listed'[p] = {} /\ doing'[p] = "schedules"
      BY <1>0, <2>3 DEF ListSchedules, Now
    <3> QED
      BY <2>0, <3>1 DEF ListIsCurrent, InsertIsFirst
  <2>4. ASSUME NEW o \in listed[p], CheckOneOff(p, o) PROVE ListIsCurrent' /\ InsertIsFirst'
    <3>1. specs' = specs /\ runs' = runs /\ listed'[p] \subseteq listed[p]
      BY <1>0, <2>4 DEF CheckOneOff
    <3>2. doing'[p] \in {"oneOffs", "inserting"}
      BY <1>0, <2>4 DEF CheckOneOff, Goes, Now
    <3>3. ListIsCurrent'
      BY <2>0, <3>1, <3>2 DEF ListIsCurrent, Live
    <3>4. ASSUME doing'[p] = "inserting"
          PROVE  target'[p] = o.spec /\ ~Consumed(o.spec, specs[o.spec].revision)
      <4>1. ~Consumed(o.spec, o.revision) /\ target'[p] = o.spec
        BY <1>0, <2>4, <3>4 DEF CheckOneOff, Goes, Now
      <4>2. specs[o.spec].revision = o.revision
        BY DEF ListIsCurrent
      <4> QED
        BY <4>1, <4>2
    <3>5. InsertIsFirst'
      BY <2>0, <3>1, <3>4 DEF InsertIsFirst, Consumed, Rows
    <3> QED
      BY <3>3, <3>5
  <2>5. ASSUME NEW o \in listed[p], InsertOneOff(p, o) PROVE ListIsCurrent' /\ InsertIsFirst'
    <3>1. /\ specs' = specs
          /\ \/ listed'[p] = {} /\ doing'[p] = "idle"
             \/ listed'[p] \subseteq listed[p] /\ doing'[p] = "oneOffs"
      BY <1>0, <2>5 DEF InsertOneOff, Goes, Now
    <3> QED
      BY <2>0, <3>1 DEF ListIsCurrent, InsertIsFirst, Live
  <2> QED
    BY <1>5, <2>1, <2>2, <2>3, <2>4, <2>5 DEF Proceed
<1>6. ASSUME NEW p \in Proc, Crash(p) PROVE ListIsCurrent' /\ InsertIsFirst'
  <2>1. listed'[p] = {} /\ doing'[p] = "idle" /\ \A q \in Proc : q = p
    BY <1>0, <1>6 DEF Crash, Goes, Now
  <2> QED
    BY <2>1 DEF ListIsCurrent, InsertIsFirst
<1> QED
  BY <1>1, <1>2, <1>3, <1>4, <1>5, <1>6 DEF Next

-----------------------------------------------------------------------------
(* Every step is of that shape. *)

LEMMA NextSetKeepsSpecs ==
  ASSUME TypeOK, NEW t, NEW n, specs' = [specs EXCEPT ![t].next = n]
  PROVE  \A s \in SpecId : SpecKept(s)
BY DEF TypeOK, SpecRow, SpecKept

(* updateHubSchedule: what it revises it replaces.                          *)
LEMMA UpdateReplaces ==
  ASSUME TypeOK, OneOffInv, NEW p \in Proc, NEW s \in SpecId, NEW edited \in BOOLEAN,
         NEW switch \in {"unset", "on", "off"}, NEW timing \in {"unset", "cron", "once"},
         NEW at \in Nat, Update(p, s, edited, switch, timing, at)
  PROVE  RunsKept /\ \A t \in SpecId : SpecStep(t)
<1> DEFINE y == Merged(specs[s], switch, timing, at)
           revised == MeaningfulChange(specs[s], y, edited)
           z == Upserted(y, revised)
<1>1. /\ runs' = WithStatus(Replaced(s, y, revised), "cancelled")
      /\ \/ specs' = [specs EXCEPT ![s] = z]
         \/ specs' = [specs EXCEPT ![s] = [z EXCEPT !.next = InitialNext(z, now)]]
      /\ s \in Hub /\ specs[s].known /\ ~specs[s].removed
  BY DEF Update, Announced
<1>2. \A i \in Replaced(s, y, revised) : runs[i].status = "queued"
  BY DEF Replaced, QueuedRows
<1>3. specs[s] \in SpecRow /\ y \in SpecRow /\ revised \in BOOLEAN
  BY MergedRow DEF TypeOK, MeaningfulChange
<1>4. y.revision = specs[s].revision /\ (~revised => y.kind = specs[s].kind)
  BY <1>3 DEF Merged, SpecRow, MeaningfulChange
<1>5. RunsKept
  BY <1>1, <1>2, StatusSet
<1>6. ASSUME revised PROVE OneOffsReplaced(s)
  <2> SUFFICES ASSUME NEW i \in QueuedOf(s) PROVE runs'[i].status # "queued"
    BY DEF OneOffsReplaced
  <2>1. specs[s].kind = "one_off" /\ i \in QueuedRows(s) /\ runs[i].trigger = "one_off"
    BY <1>1 DEF OneOffInv, QueuedAreCurrent, QueuedOf
  <2>2. i \in Replaced(s, y, revised) /\ i \in DOMAIN runs
    BY <1>6, <2>1 DEF Replaced, QueuedRows
  <2>3. runs'[i] = [runs[i] EXCEPT !.status = "cancelled"]
    <3>1. runs' = WithStatus(Replaced(s, y, revised), "cancelled") /\ runs \in Seq(RunRow)
      BY <1>1 DEF TypeOK
    <3> HIDE DEF y, revised
    <3> QED
      BY <2>2, <3>1, WithStatusRows DEF Status
  <2> QED
    BY <2>2, <2>3, RowTypes DEF RunRow
<1> HIDE DEF y, revised
<1>7. z \in SpecRow /\ z.kind = y.kind /\ z.known /\ ~z.removed
      /\ z.revision = (IF revised THEN y.revision + 1 ELSE y.revision)
  <2>1. z \in SpecRow
    BY <1>3, SpecRowSet
  <2> QED
    BY <1>3, <2>1 DEF Upserted, SpecRow
<1> HIDE DEF z
<1>8. [z EXCEPT !.next = InitialNext(z, now)].kind = z.kind
      /\ [z EXCEPT !.next = InitialNext(z, now)].known
      /\ [z EXCEPT !.next = InitialNext(z, now)].revision = z.revision
  BY <1>7 DEF SpecRow
<1>9. /\ specs'[s].kind = z.kind /\ specs'[s].known /\ specs'[s].revision = z.revision
      /\ \A t \in SpecId : t # s => specs'[t] = specs[t]
  BY <1>1, <1>7, <1>8 DEF TypeOK
<1>10. SpecStep(s)
  BY <1>1, <1>4, <1>6, <1>7, <1>9 DEF SpecStep, SpecKept, SpecRevised
<1> QED
  BY <1>5, <1>9, <1>10 DEF SpecStep, SpecKept

(* triggerScheduleNow: the manual run takes the place of the queued one.    *)
LEMMA TriggerReplaces ==
  ASSUME TypeOK, NEW p \in Proc, NEW s \in SpecId, TriggerNow(p, s)
  PROVE  OneOffStep
<1> DEFINE row == QueuedRun(s, specs[s].revision, "manual", now)
           taken == {i \in Rows(s, specs[s].revision) :
                      \/ runs[i].trigger = "manual" /\ runs[i].status # "cancelled"
                      \/ runs[i].trigger = "one_off" /\ runs[i].status \in {"running", "done"}}
           replaced == {i \in Rows(s, specs[s].revision) :
                          runs[i].trigger = "one_off" /\ runs[i].status = "queued"}
<1>1. \/ /\ specs[s].kind = "schedule"
         /\ runs' = Append(runs, row) /\ UNCHANGED specs
      \/ /\ specs[s].kind = "one_off"
         /\ specs' = [specs EXCEPT ![s].next = NoTime]
         /\ runs' = IF taken # {} THEN runs
                    ELSE Append(WithStatus(replaced, "cancelled"), row)
  BY DEF TriggerNow
<1>2. \A t \in SpecId : SpecKept(t)
  BY <1>1, NextSetKeepsSpecs DEF SpecKept
<1>3. row \in RunRow
  BY QueuedRunRow, ScheduleBoundAssumption DEF TypeOK, Trigger, SpecRow
<1>4. /\ row.status = "queued" /\ ~row.claimed /\ row.trigger = "manual"
      /\ row.spec = s /\ row.revision = specs[s].revision
  BY DEF QueuedRun
<1>5. specs[s].known
  BY DEF TriggerNow, Live
<1>6. \A i \in replaced : runs[i].status = "queued" /\ i \in DOMAIN runs
  BY DEF Rows
<1>7. ASSUME taken = {}, NEW i \in Active(s) PROVE i \in replaced
  <2>1. /\ i \in Rows(s, specs[s].revision) /\ i \in DOMAIN runs
        /\ runs[i].trigger \in {"one_off", "manual"} /\ runs[i].status # "cancelled"
    BY DEF Active, ByHandOrTime, Rows
  <2>2. runs[i].status \in {"queued", "running", "done", "cancelled"}
    BY <2>1, RowTypes DEF RunRow, Status
  <2> QED
    BY <1>7, <2>1, <2>2
<1> HIDE DEF row, replaced, taken
<1>8. CASE specs[s].kind = "schedule" /\ runs' = Append(runs, row)
  <2>1. RunAdded(row)
    BY <1>3, <1>4, <1>8, RowInserted
  <2>2. RowIsCurrent(row)
    BY <1>4, <1>5, <1>8 DEF RowIsCurrent
  <2> QED
    BY <1>2, <2>1, <2>2 DEF OneOffStep
<1>9. CASE runs' = runs
  BY <1>2, <1>9, UnchangedRuns DEF OneOffStep, SpecStep
<1>10. CASE taken = {} /\ runs' = Append(WithStatus(replaced, "cancelled"), row)
  <2>1. RunAdded(row)
    BY <1>3, <1>4, <1>6, <1>10, RowReplaced
  <2>2. ASSUME NEW i \in Active(s) PROVE runs'[i].status = "cancelled"
    <3> DEFINE W == WithStatus(replaced, "cancelled")
    <3>1. i \in replaced /\ i \in DOMAIN runs
      BY <1>6, <1>7, <1>10
    <3>2. /\ W \in Seq(RunRow) /\ DOMAIN W = DOMAIN runs
          /\ W[i] = [runs[i] EXCEPT !.status = "cancelled"]
      BY <3>1, WithStatusRows DEF TypeOK, Status
    <3> HIDE DEF W
    <3>3. Append(W, row)[i] = W[i]
      BY <1>3, <3>1, <3>2, AppendRows
    <3> QED
      BY <1>10, <3>1, <3>2, <3>3, RowTypes DEF W, RunRow
  <2>3. RowIsCurrent(row)
    BY <1>4, <1>5, <2>2 DEF RowIsCurrent
  <2> QED
    BY <1>2, <2>1, <2>3 DEF OneOffStep
<1> QED
  BY <1>1, <1>8, <1>9, <1>10

LEMMA OneOffSteps ==
  ASSUME TypeOK, OneOffInv, [Next]_vars
  PROVE  OneOffStep
<1> USE DEF procVars
<1>kept. ASSUME RunsKept, \A s \in SpecId : SpecKept(s) PROVE OneOffStep
  BY <1>kept DEF OneOffStep, SpecStep
<1>same. ASSUME UNCHANGED <<specs, runs>> PROVE OneOffStep
  BY <1>kept, <1>same, UnchangedRuns DEF SpecKept
<1>1. CASE UNCHANGED vars \/ Tick
  BY <1>1, <1>same DEF vars, Tick
<1>2. ASSUME NEW p \in Proc, NEW s \in SpecId, ClientStep(p, s) PROVE OneOffStep
  <2>1. ASSUME NEW kind, NEW runAt, NEW enabled, Create(p, s, kind, runAt, enabled)
        PROVE  OneOffStep
    <3>1. specs' = [specs EXCEPT ![s] = Inserted(kind, enabled, runAt)] /\ runs' = runs
          /\ ~specs[s].known
      BY <2>1 DEF Create
    <3>2. Inserted(kind, enabled, runAt).known
      BY DEF Inserted
    <3>3. SpecRevised(s)
      BY <3>1, <3>2 DEF SpecRevised, TypeOK
    <3>4. QueuedOf(s) = {}
      BY <3>1 DEF OneOffInv, RowsArePast, QueuedOf, QueuedRows
    <3>5. \A t \in SpecId : t # s => specs'[t] = specs[t]
      BY <3>1 DEF TypeOK
    <3> QED
      BY <3>1, <3>3, <3>4, <3>5, UnchangedRuns
      DEF OneOffStep, SpecStep, SpecKept, OneOffsReplaced
  <2>2. ASSUME NEW edited \in BOOLEAN, NEW switch \in {"unset", "on", "off"},
               NEW timing \in {"unset", "cron", "once"}, NEW at \in Nat,
               Update(p, s, edited, switch, timing, at)
        PROVE  OneOffStep
    BY <2>2, UpdateReplaces DEF OneOffStep
  <2>3. CASE TriggerNow(p, s)
    BY <2>3, TriggerReplaces
  <2>4. CASE MarkRemoved(p, s)
    <3>1. specs' = [specs EXCEPT ![s].removed = TRUE, ![s].enabled = FALSE] /\ runs' = runs
      BY <2>4 DEF MarkRemoved
    <3>2. \A t \in SpecId : SpecKept(t)
      BY <3>1 DEF SpecKept, TypeOK, SpecRow
    <3> QED
      BY <1>kept, <3>1, <3>2, UnchangedRuns
  <2>5. CASE Refresh(p, s)
    BY <1>same, <2>5 DEF Refresh
  <2>6. ASSUME NEW enabled \in BOOLEAN, NEW edited \in BOOLEAN, NEW retimed \in BOOLEAN,
               FileUpserted(p, s, enabled, edited, retimed)
        PROVE  OneOffStep
    <3> DEFINE y == [specs[s] EXCEPT !.enabled = enabled, !.content = enabled]
               same == ~edited /\ ~retimed /\ enabled = specs[s].content
               revised == Revised(specs[s], y, ~same, edited \/ retimed)
    <3>1. specs' = [specs EXCEPT ![s] = Upserted(y, revised)] /\ runs' = runs /\ s \in File
      BY <2>6 DEF FileUpserted
    <3>2. /\ y.kind = specs[s].kind /\ y.revision = specs[s].revision
          /\ y \in SpecRow
      BY DEF TypeOK, SpecRow
    <3>3. ~revised => specs[s].known
      BY DEF Revised
    <3> HIDE DEF y, revised
    <3>4. /\ Upserted(y, revised).kind = y.kind /\ Upserted(y, revised).known
          /\ Upserted(y, revised).revision = IF revised THEN y.revision + 1 ELSE y.revision
      BY <3>2 DEF Upserted, SpecRow
    <3>5. /\ specs'[s] = Upserted(y, revised)
          /\ \A t \in SpecId : t # s => specs'[t] = specs[t]
      BY <3>1 DEF TypeOK
    <3>6. s \notin Hub
      BY <3>1, SpecAssumption
    <3>7. SpecKept(s) \/ SpecRevised(s)
      BY <3>2, <3>3, <3>4, <3>5, <3>6 DEF SpecKept, SpecRevised
    <3> QED
      BY <3>1, <3>5, <3>6, <3>7, UnchangedRuns DEF OneOffStep, SpecStep, SpecKept
  <2>7. \A timing \in {"unset", "cron", "once"} :
          (IF timing = "once" THEN 1 .. MaxTime ELSE {NoTime}) \subseteq Nat
    BY DEF NoTime
  <2> QED
    BY <1>2, <2>1, <2>2, <2>3, <2>4, <2>5, <2>6, <2>7 DEF ClientStep
<1>3. ASSUME NEW p \in Proc, ListOneOffs(p) PROVE OneOffStep
  BY <1>3, <1>same DEF ListOneOffs
<1>4. ASSUME NEW p \in Proc, Proceed(p) PROVE OneOffStep
  <2>1. CASE Created(p) \/ NextRunApplied(p) \/ Cleared(p)
    <3>1. runs' = runs /\ \E n : specs' = [specs EXCEPT ![target[p]].next = n]
      BY <2>1 DEF Created, NextRunApplied, Cleared, SetNext
    <3> QED
      BY <1>kept, <3>1, NextSetKeepsSpecs, UnchangedRuns
  <2>2. CASE CancelQueued(p)
    <3>1. runs' = WithStatus(QueuedRows(target[p]), "cancelled") /\ UNCHANGED specs
      BY <2>2 DEF CancelQueued
    <3>2. \A i \in QueuedRows(target[p]) : runs[i].status = "queued"
      BY DEF QueuedRows
    <3>3. RunsKept
      BY <3>1, <3>2, StatusSet
    <3> QED
      BY <1>kept, <3>1, <3>3 DEF SpecKept
  <2>3. ASSUME NEW o \in listed[p], CheckOneOff(p, o) PROVE OneOffStep
    BY <1>same, <2>3 DEF CheckOneOff
  <2>4. ASSUME NEW o \in listed[p], InsertOneOff(p, o) PROVE OneOffStep
    <3> DEFINE row(t) == QueuedRun(o.spec, o.revision, "one_off",
                                   IF o.next = NoTime THEN t ELSE o.next)
    <3>1. o.spec \in SpecId /\ o.revision \in Nat /\ o.next \in Nat
      BY <2>4 DEF TypeOK
    <3>2. \A t \in Reading(p) : row(t) \in RunRow
      BY <3>1, ReadingIsTime, QueuedRunRow DEF Trigger, NoTime
    <3>3. \A t : /\ row(t).status = "queued" /\ ~row(t).claimed /\ row(t).trigger = "one_off"
                /\ row(t).spec = o.spec /\ row(t).revision = o.revision
      BY DEF QueuedRun
    <3>4. /\ specs' = specs
          /\ runs' = runs \/ \E t \in Reading(p) : runs' = Append(runs, row(t))
          /\ doing[p] = "inserting" /\ target[p] = o.spec
      BY <2>4 DEF InsertOneOff
    <3> HIDE DEF row
    <3>5. specs[o.spec].known /\ specs[o.spec].kind = "one_off"
          /\ specs[o.spec].revision = o.revision
      BY DEF OneOffInv, ListIsCurrent, Live
    <3>6. Active(o.spec) = {}
      BY <3>4, <3>5 DEF OneOffInv, InsertIsFirst, Consumed, Active, ByHandOrTime
    <3>7. \A t : RowIsCurrent(row(t))
      BY <3>1, <3>3, <3>5, <3>6 DEF RowIsCurrent
    <3>8. runs' = runs \/ \E t : RunAdded(row(t))
      BY <3>2, <3>3, <3>4, RowInserted
    <3> QED
      BY <1>same, <3>4, <3>7, <3>8 DEF OneOffStep, SpecKept
  <2>5. CASE ListSchedules(p)
    BY <1>same, <2>5 DEF ListSchedules
  <2>6. ASSUME NEW s \in due[p], MaterializeDue(p, s) PROVE OneOffStep
    <3> DEFINE row == QueuedRun(s, specs[s].revision, "schedule", specs[s].next)
    <3>1. s \in SpecId
      BY <2>6 DEF TypeOK
    <3>2. /\ \/ specs' = specs
             \/ \E t : specs' = [specs EXCEPT ![s].next = NextSlot(t)]
          /\ \/ runs' = runs
             \/ /\ runs' = Append(runs, row) /\ specs[s].known
                /\ specs[s].kind = "schedule" /\ specs[s].next # NoTime
      BY <2>6 DEF MaterializeDue, SetNext, Live
    <3>3. \A t \in SpecId : SpecKept(t)
      BY <3>2, NextSetKeepsSpecs DEF SpecKept
    <3>4. CASE runs' = runs
      BY <1>kept, <3>3, <3>4, UnchangedRuns
    <3>5. CASE /\ runs' = Append(runs, row) /\ specs[s].known
               /\ specs[s].kind = "schedule" /\ specs[s].next # NoTime
      <4>1. row \in RunRow
        BY <3>1, <3>5, QueuedRunRow DEF TypeOK, Trigger, SpecRow, NoTime
      <4>2. /\ row.status = "queued" /\ ~row.claimed /\ row.trigger = "schedule"
            /\ row.spec = s /\ row.revision = specs[s].revision
        BY DEF QueuedRun
      <4> HIDE DEF row
      <4>3. RunAdded(row)
        BY <3>5, <4>1, <4>2, RowInserted
      <4>4. RowIsCurrent(row)
        BY <3>1, <3>5, <4>2 DEF RowIsCurrent
      <4> QED
        BY <3>3, <4>3, <4>4 DEF OneOffStep
    <3> QED
      BY <3>2, <3>4, <3>5
  <2>7. CASE ClaimDue(p)
    <3>1. UNCHANGED specs
      BY <2>7 DEF ClaimDue
    <3>2. RunsKept
      BY <2>7, ClaimsKeepRuns
    <3> QED
      BY <1>kept, <3>1, <3>2 DEF SpecKept
  <2>8. CASE NextComputed(p)
    BY <1>same, <2>8 DEF NextComputed
  <2> QED
    BY <1>4, <2>1, <2>2, <2>3, <2>4, <2>5, <2>6, <2>7, <2>8 DEF Proceed
<1>5. ASSUME NEW p \in Proc, Crash(p) PROVE OneOffStep
  BY <1>5, <1>same DEF Crash
<1>6. ASSUME NEW p \in Proc, NEW i \in DOMAIN runs, Ended(p, i) PROVE OneOffStep
  <2>1. RunsKept
    BY <1>6, StatusSet DEF Ended
  <2> QED
    BY <1>6, <1>kept, <2>1 DEF Ended, SpecKept
<1> QED
  BY <1>1, <1>2, <1>3, <1>4, <1>5, <1>6 DEF Next

-----------------------------------------------------------------------------
(* Nobody is too late who is alone. *)

\* What the process has read of the clock is not before the slots it has queued.
OnTime ==
  /\ late = {}
  /\ \A p \in Proc : doing[p] \in {"creating", "setting", "schedules"} =>
       \A i \in DOMAIN runs : runs[i].trigger = "schedule" => runs[i].at <= since[p]

\* Slots of a schedule are queued in increasing order, without exception.
SlotsIncrease ==
  \A i, j \in DOMAIN runs :
    /\ i < j /\ runs[i].spec = runs[j].spec
    /\ runs[i].trigger = "schedule" /\ runs[j].trigger = "schedule"
    => runs[i].at < runs[j].at

LEMMA NotOvertaken ==
  ASSUME TypeOK, OnTime, NEW p \in Proc, doing[p] \in {"creating", "setting", "schedules"},
         NEW t \in Reading(p), NEW s
  PROVE  ~Overtaken(s, t)
<1>1. since[p] \in Nat /\ t \in Nat /\ since[p] <= t
  BY ReadingIsTime, ScheduleBoundAssumption DEF TypeOK, Reading
<1> QED
  BY <1>1, RowTypes DEF OnTime, Overtaken, RunRow

LEMMA StaysOnTime ==
  ASSUME OneProcess, TypeOK, TypeOK', SlotsArePast, OnTime, [Next]_vars
  PROVE  OnTime'
<1> USE DEF procVars
<1> DEFINE Waiting == {"creating", "setting", "schedules"}
<1>0. /\ doing \in [Proc -> Doing] /\ since \in [Proc -> 0 .. MaxTime]
      /\ \A p, q \in Proc : p = q
  BY DEF TypeOK, OneProcess
<1>1. ASSUME UNCHANGED late, NEW p \in Proc, doing'[p] \notin Waiting
      PROVE  OnTime'
  BY <1>0, <1>1 DEF OnTime
<1>2. ASSUME UNCHANGED <<runs, late>>, NEW p \in Proc, Ends(p)
      PROVE  OnTime'
  <2>1. since'[p] = now
    BY <1>0, <1>2 DEF Ends
  <2> QED
    BY <1>0, <1>2, <2>1 DEF OnTime, SlotsArePast
<1>3. ASSUME UNCHANGED <<runs, late, doing, since>>
      PROVE  OnTime'
  BY <1>3 DEF OnTime
<1>4. CASE UNCHANGED vars \/ Tick
  BY <1>3, <1>4 DEF vars, Tick
<1>5. ASSUME NEW p \in Proc, NEW s \in SpecId, ClientStep(p, s) PROVE OnTime'
  <2>1. ASSUME NEW kind, NEW runAt, NEW enabled, Create(p, s, kind, runAt, enabled)
        PROVE  OnTime'
    BY <1>2, <2>1 DEF Create
  <2>2. ASSUME NEW edited, NEW switch, NEW timing, NEW at,
               Update(p, s, edited, switch, timing, at)
        PROVE  OnTime'
    BY <1>1, <2>2 DEF Update, Begins
  <2>3. CASE TriggerNow(p, s) \/ MarkRemoved(p, s)
    <3>1. UNCHANGED late /\ doing'[p] \notin Waiting
      BY <1>0, <2>3 DEF TriggerNow, MarkRemoved, Goes, Now
    <3> QED
      BY <1>1, <3>1
  <2>4. CASE Refresh(p, s)
    BY <1>2, <2>4 DEF Refresh
  <2>5. ASSUME NEW enabled, NEW edited, NEW retimed,
               FileUpserted(p, s, enabled, edited, retimed)
        PROVE  OnTime'
    <3>1. UNCHANGED late /\ doing'[p] \notin Waiting
      BY <1>0, <2>5 DEF FileUpserted, Begins, Goes, Now
    <3> QED
      BY <1>1, <3>1
  <2> QED
    BY <1>5, <2>1, <2>2, <2>3, <2>4, <2>5 DEF ClientStep
<1>6. ASSUME NEW p \in Proc, \/ \E i \in DOMAIN runs : Ended(p, i)
                             \/ ListOneOffs(p) \/ Crash(p)
      PROVE  OnTime'
  <2>1. UNCHANGED late /\ doing'[p] \notin Waiting
    BY <1>0, <1>6 DEF Ended, ListOneOffs, Crash, Begins, Goes, Now
  <2> QED
    BY <1>1, <2>1
<1>7. ASSUME NEW p \in Proc, Proceed(p) PROVE OnTime'
  <2>1. CASE Created(p) \/ NextRunApplied(p)
    <3>1. doing[p] \in Waiting /\ doing'[p] = "idle"
          /\ \E t \in Reading(p) : \E s, next : SetNext(s, t, next)
      BY <1>0, <2>1 DEF Created, NextRunApplied, Goes, Now
    <3>2. UNCHANGED late
      BY <3>1, NotOvertaken DEF SetNext
    <3> QED
      BY <1>1, <3>1, <3>2
  <2>2. CASE CancelQueued(p) \/ ClaimDue(p) \/ Cleared(p)
    <3>1. UNCHANGED late /\ doing'[p] \notin Waiting
      BY <1>0, <2>2 DEF CancelQueued, ClaimDue, Cleared, Goes, Now
    <3> QED
      BY <1>1, <3>1
  <2>3. CASE NextComputed(p)
    <3>1. UNCHANGED <<runs, late>> /\ (Ends(p) \/ Goes(p, "idle", NoSpec))
      BY <2>3 DEF NextComputed
    <3>2. Goes(p, "idle", NoSpec) => doing'[p] \notin Waiting
      BY <1>0 DEF Goes, Now
    <3> QED
      BY <1>1, <1>2, <3>1, <3>2
  <2>4. ASSUME NEW o \in listed[p], CheckOneOff(p, o) \/ InsertOneOff(p, o) PROVE OnTime'
    <3>1. UNCHANGED late /\ doing'[p] \notin Waiting
      BY <1>0, <2>4 DEF CheckOneOff, InsertOneOff, Goes, Now
    <3> QED
      BY <1>1, <3>1
  <2>5. CASE ListSchedules(p)
    BY <1>2, <2>5 DEF ListSchedules
  <2>6. ASSUME NEW s \in due[p], MaterializeDue(p, s) PROVE OnTime'
    <3> DEFINE run == QueuedRun(s, specs[s].revision, "schedule", specs[s].next)
    <3>1. doing[p] \in Waiting /\ Ends(p)
      BY <2>6 DEF MaterializeDue
    <3>2. PICK t \in Reading(p) :
            \/ UNCHANGED runs /\ (UNCHANGED late \/ SetNext(s, t, NextSlot(t)))
            \/ UNCHANGED late /\ runs' = Append(runs, run) /\ specs[s].next <= t
               /\ specs[s].next # NoTime
      BY <2>6 DEF MaterializeDue
    <3>3. UNCHANGED late
      BY <3>1, <3>2, NotOvertaken DEF SetNext
    <3>4. CASE UNCHANGED runs
      BY <1>2, <3>1, <3>3, <3>4
    <3>5. CASE runs' = Append(runs, run) /\ specs[s].next <= t /\ specs[s].next # NoTime
      <4>1. s \in SpecId /\ t <= now /\ t \in Nat /\ now \in Nat /\ specs[s].next \in Nat
        BY <2>6, ReadingIsTime, RowTypes DEF TypeOK, SpecRow
      <4>2. run \in RunRow /\ run.at = specs[s].next
        BY <3>5, <4>1, QueuedRunRow, RowTypes DEF QueuedRun, Trigger, SpecRow, NoTime
      <4> HIDE DEF run
      <4>3. \A i \in DOMAIN runs' : runs'[i] = run \/ (i \in DOMAIN runs /\ runs'[i] = runs[i])
        BY <3>5, <4>2, AppendRows DEF TypeOK
      <4>4. since'[p] = now
        BY <1>0, <3>1 DEF Ends
      <4>5. \A i \in DOMAIN runs' : runs'[i].trigger = "schedule" => runs'[i].at <= since'[p]
        BY <3>5, <4>1, <4>2, <4>3, <4>4 DEF SlotsArePast
      <4> QED
        BY <1>0, <3>3, <4>5 DEF OnTime
    <3> QED
      BY <3>2, <3>4, <3>5
  <2> QED
    BY <1>7, <2>1, <2>2, <2>3, <2>4, <2>5, <2>6 DEF Proceed
<1> QED
  BY <1>4, <1>5, <1>6, <1>7 DEF Next

-----------------------------------------------------------------------------
(* The theorems. *)

(* While one process has the database no slot of a recurring schedule is run
   twice at all: the late write that SlotsRunOnce excuses takes a second one. *)
THEOREM SlotsRunOnceAlone ==
  ASSUME OneProcess
  PROVE  Spec => []SlotsIncrease
<1>1. Init => OnTime
  BY DEF Init, OnTime
<1>2. TypeOK /\ TypeOK' /\ SlotInv /\ OnTime /\ [Next]_vars => OnTime'
  BY StaysOnTime DEF SlotInv
<1>3. SlotInv /\ OnTime => SlotsIncrease
  BY DEF SlotInv, SlotsRunOnce, OnTime, SlotsIncrease
<1> QED
  BY <1>1, <1>2, <1>3, TypeCorrect, SlotsAreInOrder, PTL DEF Spec

LEMMA OneOffsInvariant ==
  ASSUME OneProcess
  PROVE  Spec => []OneOffInv
<1>1. Init => OneOffInv
  BY DEF Init, OneOffInv, RowsArePast, OneActive, Active, Rows, QueuedAreCurrent, QueuedOf,
         QueuedRows, ListIsCurrent, InsertIsFirst
<1>2. TypeOK /\ TypeOK' /\ OneOffInv /\ [Next]_vars => OneOffInv'
  BY OneOffSteps, OneOffStepKeeps, ListStaysCurrent DEF OneOffInv
<1> QED
  BY <1>1, <1>2, TypeCorrect, PTL DEF Spec

(* A one-time schedule runs once while one process has the database: however
   it is triggered by hand, polled, edited, paused, and whatever crashes.    *)
THEOREM OneOffsRunOnce ==
  ASSUME OneProcess
  PROVE  Spec => []OneOffRunsOnce
<1>1. TypeOK /\ OneActive => OneOffRunsOnce
  <2> SUFFICES ASSUME OneActive, NEW s \in SpecId, specs[s].kind = "one_off"
               PROVE  Cardinality(Active(s)) <= 1
    BY DEF OneOffRunsOnce, Active, ByHandOrTime
  <2>1. \A i, j \in Active(s) : i = j
    BY DEF OneActive
  <2>2. CASE Active(s) = {}
    BY <2>2, FS_EmptySet
  <2>3. CASE Active(s) # {}
    <3>1. PICK i \in Active(s) : TRUE
      BY <2>3
    <3>2. Active(s) = {i}
      BY <2>1, <3>1
    <3>3. Cardinality({i}) = 1
      BY FS_Singleton
    <3>4. Cardinality(Active(s)) = 1
      BY <3>2, <3>3
    <3> QED
      BY <3>4
  <2> QED
    BY <2>2, <2>3
<1> QED
  BY <1>1, OneOffsInvariant, TypeCorrect, PTL DEF OneOffInv

(* What was queued for a schedule that a client has since edited, moved or paused
   is cancelled, while one process has the database.                         *)
THEOREM QueuedOneOffsStayCurrent ==
  ASSUME OneProcess
  PROVE  Spec => []QueuedOneOffsAreCurrent
<1>1. QueuedAreCurrent => QueuedOneOffsAreCurrent
  BY DEF QueuedAreCurrent, QueuedOneOffsAreCurrent, QueuedOf, Live
<1> QED
  BY <1>1, OneOffsInvariant, PTL DEF OneOffInv

=============================================================================
