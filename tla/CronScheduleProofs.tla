------------------------- MODULE CronScheduleProofs -------------------------
(***************************************************************************)
(* Theorems about specs and schedules, for every number of processes, hub  *)
(* schedules, spec files, edits, polls and faults, and all cron patterns.  *)
(***************************************************************************)
EXTENDS CronSchedule, SequenceTheorems, TLAPS

(* getNextCronTime answers a slot after the time it is asked for.           *)
LEMMA NextSlotIsLater ==
  ASSUME NEW t \in 0 .. MaxTime
  PROVE  NextSlot(t) \in Slots /\ NextSlot(t) \in Nat \ {0} /\ t < NextSlot(t)
<1>1. PICK x \in Slots : t < x /\ \A y \in Slots : t < y => x <= y
  BY SlotAssumption
<1>2. NextSlot(t) \in Slots /\ t < NextSlot(t)
  BY <1>1 DEF NextSlot
<1> QED
  BY <1>2, SlotAssumption

LEMMA FunctionsAreSequences ==
  ASSUME NEW S, NEW n \in Nat, NEW f \in [1 .. n -> S]
  PROVE  f \in Seq(S) /\ Len(f) = n
OBVIOUS

(* A statement that sets the status of rows keeps everything else of them.  *)
LEMMA WithStatusRows ==
  ASSUME runs \in Seq(RunRow), NEW I, NEW s \in Status
  PROVE  /\ WithStatus(I, s) \in Seq(RunRow)
         /\ Len(WithStatus(I, s)) = Len(runs)
         /\ DOMAIN WithStatus(I, s) = DOMAIN runs
         /\ \A i \in DOMAIN runs :
              WithStatus(I, s)[i] =
                IF i \in I THEN [runs[i] EXCEPT !.status = s] ELSE runs[i]
<1> DEFINE W == WithStatus(I, s)
<1>1. Len(runs) \in Nat /\ DOMAIN runs = 1 .. Len(runs) /\ runs \in [1 .. Len(runs) -> RunRow]
  BY LenProperties
<1>2. W = [i \in 1 .. Len(runs) |->
             IF i \in I THEN [runs[i] EXCEPT !.status = s] ELSE runs[i]]
  BY <1>1 DEF WithStatus
<1>3. W \in [1 .. Len(runs) -> RunRow]
  BY <1>1, <1>2 DEF RunRow
<1>4. W \in Seq(RunRow) /\ Len(W) = Len(runs)
  BY <1>1, <1>3
<1> QED
  BY <1>1, <1>2, <1>4

(* An inserted row comes last.                                              *)
LEMMA AppendRows ==
  ASSUME NEW old \in Seq(RunRow), NEW row \in RunRow
  PROVE  /\ Append(old, row) \in Seq(RunRow)
         /\ DOMAIN old = 1 .. Len(old) /\ Len(old) \in Nat
         /\ DOMAIN Append(old, row) = 1 .. Len(old) + 1
         /\ \A i \in 1 .. Len(old) : Append(old, row)[i] = old[i]
         /\ Append(old, row)[Len(old) + 1] = row
<1>1. Append(old, row) \in Seq(RunRow) /\ Len(Append(old, row)) = Len(old) + 1
  BY AppendProperties
<1>2. DOMAIN Append(old, row) = 1 .. Len(old) + 1 /\ DOMAIN old = 1 .. Len(old) /\ Len(old) \in Nat
  BY <1>1, LenProperties
<1> QED
  BY <1>1, <1>2, AppendProperties

(* Runs of every trigger are rows of the table when they are queued.        *)
LEMMA QueuedRunRow ==
  ASSUME NEW s \in SpecId, NEW r \in Nat, NEW t \in Trigger, NEW at \in Nat \ {0}
  PROVE  QueuedRun(s, r, t, at) \in RunRow
BY DEF QueuedRun, RunRow, Status

(* What the statements set in a row of cron_specs.                          *)
LEMMA SpecRowSet ==
  ASSUME NEW x \in SpecRow, NEW n \in Nat
  PROVE  /\ [x EXCEPT !.next = n] \in SpecRow
         /\ [x EXCEPT !.removed = TRUE, !.enabled = FALSE] \in SpecRow
         /\ \A on \in BOOLEAN :
              /\ [x EXCEPT !.enabled = on, !.content = on] \in SpecRow
              /\ Upserted(x, on) \in SpecRow
<1>1. [x EXCEPT !.next = n] \in SpecRow
  BY DEF SpecRow
<1>2. [x EXCEPT !.removed = TRUE, !.enabled = FALSE] \in SpecRow
  BY DEF SpecRow
<1>3. ASSUME NEW on \in BOOLEAN PROVE [x EXCEPT !.enabled = on, !.content = on] \in SpecRow
  BY DEF SpecRow
<1>4. ASSUME NEW revised \in BOOLEAN PROVE Upserted(x, revised) \in SpecRow
  <2> DEFINE r == IF revised THEN x.revision + 1 ELSE x.revision
  <2>1. r \in Nat
    BY DEF SpecRow
  <2>2. Upserted(x, revised) = [x EXCEPT !.known = TRUE, !.removed = FALSE, !.revision = r]
    BY DEF SpecRow, Upserted
  <2> HIDE DEF r
  <2> QED
    BY <2>1, <2>2 DEF SpecRow
<1> QED
  BY <1>1, <1>2, <1>3, <1>4

LEMMA InsertedRow ==
  ASSUME NEW kind \in Kind, NEW enabled \in BOOLEAN, NEW runAt \in Nat
  PROVE  Inserted(kind, enabled, runAt) \in SpecRow
BY DEF SpecRow, Inserted, NoTime

LEMMA MergedRow ==
  ASSUME NEW x \in SpecRow, NEW switch \in {"unset", "on", "off"},
         NEW timing \in {"unset", "cron", "once"}, NEW at \in Nat
  PROVE  Merged(x, switch, timing, at) \in SpecRow
<1> DEFINE kind == CASE timing = "once" -> "one_off" [] timing = "cron" -> "schedule"
                     [] OTHER -> x.kind
<1>1. kind \in Kind
  BY DEF SpecRow, Kind
<1>2. (IF switch = "unset" THEN x.enabled ELSE switch = "on") \in BOOLEAN
  BY DEF SpecRow
<1>3. (IF kind = "schedule" THEN NoTime ELSE IF timing = "once" THEN at ELSE x.runAt) \in Nat
  BY DEF SpecRow, NoTime
<1> QED
  BY <1>1, <1>2, <1>3 DEF SpecRow, Merged

(* The next run of an enabled schedule is a slot, that of a one-off its time. *)
LEMMA InitialNextIsTime ==
  ASSUME NEW x \in SpecRow, NEW t \in 0 .. MaxTime
  PROVE  InitialNext(x, t) \in Nat
         /\ (x.kind # "schedule" \/ InitialNext(x, t) = NoTime \/ t < InitialNext(x, t))
BY NextSlotIsLater DEF InitialNext, SpecRow, NoTime

(* What a process reads of the clock is a time up to now.                   *)
LEMMA ReadingIsTime ==
  ASSUME TypeOK, NEW p \in Proc, NEW t \in Reading(p)
  PROVE  /\ t \in 0 .. MaxTime /\ t \in Nat \ {0} /\ t <= now
         /\ NextSlot(t) \in Nat \ {0} /\ t < NextSlot(t)
<1>1. t \in 0 .. MaxTime /\ t \in Nat \ {0} /\ t <= now
  BY ScheduleBoundAssumption DEF TypeOK, Reading
<1> QED
  BY <1>1, NextSlotIsLater

LEMMA RowTypes ==
  ASSUME TypeOK
  PROVE  /\ \A i \in DOMAIN runs : runs[i] \in RunRow /\ i \in Nat
         /\ \A s \in SpecId : specs[s] \in SpecRow
         /\ now \in Nat
BY LenProperties, ElementOfSeq, ScheduleBoundAssumption DEF TypeOK

(* The statements that set a next run.                                      *)
LEMMA SetNextTypes ==
  ASSUME TypeOK, NEW s, NEW t, NEW next, s \in SpecId => next \in Nat, SetNext(s, t, next)
  PROVE  specs' \in [SpecId -> SpecRow] /\ late' \subseteq SpecId
<1>1. specs' \in [SpecId -> SpecRow]
  <2>1. CASE s \in SpecId
    <3>1. [specs[s] EXCEPT !.next = next] \in SpecRow
      BY <2>1, SpecRowSet DEF TypeOK
    <3> QED
      BY <2>1, <3>1 DEF SetNext, TypeOK
  <2>2. CASE s \notin SpecId
    BY <2>2 DEF SetNext, TypeOK
  <2> QED
    BY <2>1, <2>2
<1>2. Overtaken(s, t) => s \in SpecId
  BY RowTypes DEF Overtaken, RunRow
<1> QED
  BY <1>1, <1>2 DEF SetNext, TypeOK

(* A process turns to its next statement.                                   *)
LEMMA ProcessGoesOn ==
  ASSUME TypeOK, NEW p \in Proc, NEW what \in Doing, NEW s \in SpecId \cup {NoSpec},
         Goes(p, what, s)
  PROVE  doing' \in [Proc -> Doing] /\ target' \in [Proc -> SpecId \cup {NoSpec}]
BY DEF TypeOK, Goes, Now

(* It notes the time, forgets it or keeps it.                               *)
LEMMA ProcessTimes ==
  ASSUME TypeOK, NEW p \in Proc, Ends(p) \/ Forgets(p) \/ UNCHANGED since
  PROVE  since' \in [Proc -> 0 .. MaxTime]
<1>1. {now, NoTime} \subseteq 0 .. MaxTime
  BY ScheduleBoundAssumption DEF TypeOK, NoTime
<1> QED
  BY <1>1 DEF TypeOK, Ends, Forgets

(* Type correctness.                                                        *)
THEOREM TypeCorrect == Spec => []TypeOK
<1> USE SpecAssumption, SlotAssumption, ScheduleBoundAssumption
<1> USE DEF TypeOK, Doing, procVars, NoTime
<1>1. Init => TypeOK
  <2> SUFFICES ASSUME Init PROVE TypeOK
    OBVIOUS
  <2>1. <<>> \in Seq(RunRow)
    BY EmptySeq
  <2>2. specs \in [SpecId -> SpecRow]
    BY DEF Init, SpecRow, SpecId, Kind
  <2> QED
    BY <2>1, <2>2 DEF Init
<1>2. TypeOK /\ [Next]_vars => TypeOK'
  <2> SUFFICES ASSUME TypeOK, [Next]_vars PROVE TypeOK'
    OBVIOUS
  <2>0. now \in 0 .. MaxTime /\ NextSlot(now) \in Nat
    BY NextSlotIsLater
  <2>1. CASE UNCHANGED vars
    BY <2>1 DEF vars
  <2>2. ASSUME NEW p \in Proc, NEW s \in SpecId, ClientStep(p, s) PROVE TypeOK'
    <3>1. ASSUME NEW kind \in Kind, NEW runAt \in 0 .. MaxTime, NEW enabled \in BOOLEAN,
                 Create(p, s, kind, runAt, enabled)
          PROVE  TypeOK'
      <4>1. specs' \in [SpecId -> SpecRow]
        <5>1. Inserted(kind, enabled, runAt) \in SpecRow
          BY InsertedRow
        <5> QED
          BY <3>1, <5>1 DEF Create
      <4> QED
        BY <3>1, <4>1 DEF Create, Goes, Now, Ends
    <3>2. ASSUME NEW edited \in BOOLEAN, NEW switch \in {"unset", "on", "off"},
                 NEW timing \in {"unset", "cron", "once"}, NEW at \in 0 .. MaxTime,
                 Update(p, s, edited, switch, timing, at)
          PROVE  TypeOK'
      <4> DEFINE y == Merged(specs[s], switch, timing, at)
      <4> DEFINE revised == MeaningfulChange(specs[s], y, edited)
      <4> DEFINE z == Upserted(y, revised)
      <4>1. specs[s] \in SpecRow
        OBVIOUS
      <4>2. y \in SpecRow
        <5>1. at \in Nat
          OBVIOUS
        <5> QED
          BY <4>1, <5>1, MergedRow
      <4>3. revised \in BOOLEAN
        BY DEF MeaningfulChange
      <4>4. specs' = [specs EXCEPT ![s] = z]
            \/ specs' = [specs EXCEPT ![s] = [z EXCEPT !.next = InitialNext(z, now)]]
        BY <3>2 DEF Update
      <4> HIDE DEF y, revised
      <4>5. specs' \in [SpecId -> SpecRow]
        <5>1. z \in SpecRow
          BY <4>2, <4>3, SpecRowSet
        <5> HIDE DEF z
        <5>2. [z EXCEPT !.next = InitialNext(z, now)] \in SpecRow
          BY <2>0, <5>1, InitialNextIsTime, SpecRowSet
        <5> QED
          BY <4>4, <5>1, <5>2
      <4>6. runs' \in Seq(RunRow)
        <5>1. PICK I : runs' = WithStatus(I, "cancelled")
          BY <3>2 DEF Update
        <5> QED
          BY <5>1, WithStatusRows DEF Status
      <4> QED
        BY <3>2, <4>5, <4>6 DEF Update
    <3>3. CASE TriggerNow(p, s)
      <4> DEFINE manual == QueuedRun(s, specs[s].revision, "manual", now)
      <4>1. manual \in RunRow
        BY QueuedRunRow DEF Trigger, SpecRow
      <4>2. specs' \in [SpecId -> SpecRow]
        <5>1. specs' = specs \/ specs' = [specs EXCEPT ![s] = [specs[s] EXCEPT !.next = NoTime]]
          BY <3>3 DEF TriggerNow
        <5>2. [specs[s] EXCEPT !.next = NoTime] \in SpecRow
          BY SpecRowSet
        <5> QED
          BY <5>1, <5>2
      <4>3. \/ runs' = runs \/ runs' = Append(runs, manual)
            \/ \E I : runs' = Append(WithStatus(I, "cancelled"), manual)
        BY <3>3 DEF TriggerNow
      <4>4. runs' \in Seq(RunRow)
        <5> HIDE DEF manual
        <5>1. ASSUME NEW I PROVE WithStatus(I, "cancelled") \in Seq(RunRow)
          BY WithStatusRows DEF Status
        <5>2. ASSUME NEW I PROVE Append(WithStatus(I, "cancelled"), manual) \in Seq(RunRow)
          BY <4>1, <5>1, AppendProperties
        <5>3. Append(runs, manual) \in Seq(RunRow)
          BY <4>1, AppendProperties
        <5> QED
          BY <4>3, <5>2, <5>3
      <4> QED
        BY <3>3, <4>2, <4>4 DEF TriggerNow, Now
    <3>4. CASE MarkRemoved(p, s)
      <4>1. specs' \in [SpecId -> SpecRow]
        <5>1. specs' = [specs EXCEPT ![s] =
                          [specs[s] EXCEPT !.removed = TRUE, !.enabled = FALSE]]
          BY <3>4 DEF MarkRemoved
        <5> QED
          BY <5>1, SpecRowSet
      <4> QED
        BY <3>4, <4>1 DEF MarkRemoved, Goes, Now
    <3>5. CASE Refresh(p, s)
      BY <3>5 DEF Refresh, Goes, Now, Ends
    <3>6. ASSUME NEW enabled \in BOOLEAN, NEW edited \in BOOLEAN, NEW retimed \in BOOLEAN,
                 FileUpserted(p, s, enabled, edited, retimed)
          PROVE  TypeOK'
      <4>1. PICK revised \in BOOLEAN : specs' = [specs EXCEPT ![s] =
              Upserted([specs[s] EXCEPT !.enabled = enabled, !.content = enabled], revised)]
        <5>1. \A x \in SpecRow : \A y, changed : Revised(x, y, changed, edited \/ retimed) \in BOOLEAN
          BY DEF Revised, SpecRow
        <5> QED
          BY <3>6, <5>1 DEF FileUpserted, SpecRow
      <4>2. specs' \in [SpecId -> SpecRow]
        <5>1. [specs[s] EXCEPT !.enabled = enabled, !.content = enabled] \in SpecRow
          BY SpecRowSet
        <5> QED
          BY <4>1, <5>1, SpecRowSet
      <4>3. \/ UNCHANGED <<doing, target>>
            \/ Goes(p, "applying", s)
        BY <3>6 DEF FileUpserted
      <4>4. UNCHANGED <<now, runs, listed, due, since, faults, late>>
        BY <3>6 DEF FileUpserted
      <4> QED
        BY <4>2, <4>3, <4>4 DEF Goes, Now
    <3>7. \A timing \in {"unset", "cron", "once"} :
            (IF timing = "once" THEN 1 .. MaxTime ELSE {NoTime}) \subseteq 0 .. MaxTime
      OBVIOUS
    <3> HIDE DEF TypeOK
    <3> QED
      BY <2>2, <3>1, <3>2, <3>3, <3>4, <3>5, <3>6, <3>7 DEF ClientStep
  <2>3. ASSUME NEW p \in Proc, ListOneOffs(p) PROVE TypeOK'
    <3>1. \A s \in SpecId : Listing(s) \in [spec : SpecId, revision : Nat, next : Nat]
      BY DEF Listing, SpecRow
    <3> QED
      BY <2>3, <3>1 DEF ListOneOffs, Now
  <2>4. ASSUME NEW p \in Proc, Proceed(p) PROVE TypeOK'
    <3>1. CASE Created(p)
      <4> DEFINE s == target[p]
      <4>1. PICK t \in Reading(p) : SetNext(s, t, InitialNext(specs[s], t))
        BY <3>1 DEF Created
      <4>2. s \in SpecId => InitialNext(specs[s], t) \in Nat
        BY ReadingIsTime, InitialNextIsTime
      <4> HIDE DEF s
      <4>3. specs' \in [SpecId -> SpecRow] /\ late' \subseteq SpecId
        BY <4>1, <4>2, SetNextTypes
      <4> QED
        BY <3>1, <4>3 DEF Created, Goes, Now, Forgets
    <3>2. CASE CancelQueued(p)
      <4>1. runs' \in Seq(RunRow)
        BY <3>2, WithStatusRows DEF CancelQueued, Status
      <4> QED
        BY <3>2, <4>1 DEF CancelQueued, Goes, Now
    <3>3. CASE NextRunApplied(p)
      <4>1. PICK t \in Reading(p) : SetNext(target[p], t, NextSlot(t))
        BY <3>3 DEF NextRunApplied
      <4>2. NextSlot(t) \in Nat
        BY ReadingIsTime
      <4>3. specs' \in [SpecId -> SpecRow] /\ late' \subseteq SpecId
        BY <4>1, <4>2, SetNextTypes
      <4> QED
        BY <3>3, <4>3 DEF NextRunApplied, Goes, Now, Forgets
    <3>4. ASSUME NEW o \in listed[p], CheckOneOff(p, o) PROVE TypeOK'
      <4>1. o.spec \in SpecId
        BY <3>4
      <4> QED
        <5>1. since' \in [Proc -> 0 .. MaxTime]
          <6>1. Ends(p) \/ UNCHANGED since
            BY <3>4 DEF CheckOneOff
          <6> QED
            BY <6>1, ProcessTimes
        <5>2. /\ \/ listed' = [listed EXCEPT ![p] = @ \ {o}] /\ UNCHANGED <<doing, target>>
                 \/ Goes(p, "inserting", o.spec) /\ UNCHANGED listed
              /\ UNCHANGED <<now, specs, runs, due, faults, late>>
          BY <3>4 DEF CheckOneOff
        <5>3. /\ doing' \in [Proc -> Doing] /\ target' \in [Proc -> SpecId \cup {NoSpec}]
              /\ listed' \in [Proc -> SUBSET [spec : SpecId, revision : Nat, next : Nat]]
          BY <4>1, <5>2 DEF Goes, Now
        <5> QED
          BY <5>1, <5>2, <5>3
    <3>5. ASSUME NEW o \in listed[p], InsertOneOff(p, o) PROVE TypeOK'
      <4> DEFINE run(t) == QueuedRun(o.spec, o.revision, "one_off",
                                     IF o.next = NoTime THEN t ELSE o.next)
      <4>1. o.spec \in SpecId /\ o.revision \in Nat /\ o.next \in Nat
        BY <3>5
      <4>2. \A t \in Reading(p) : run(t) \in RunRow
        BY <4>1, ReadingIsTime, QueuedRunRow DEF Trigger
      <4>3. runs' = runs \/ \E t \in Reading(p) : runs' = Append(runs, run(t))
        BY <3>5 DEF InsertOneOff
      <4>4. runs' \in Seq(RunRow)
        <5> HIDE DEF run
        <5>1. ASSUME NEW t \in Reading(p) PROVE Append(runs, run(t)) \in Seq(RunRow)
          <6>1. run(t) \in RunRow
            BY <4>2
          <6> QED
            BY <6>1, AppendProperties
        <5>2. CASE runs' = runs
          BY <5>2
        <5>3. CASE \E t \in Reading(p) : runs' = Append(runs, run(t))
          <6>1. PICK t \in Reading(p) : runs' = Append(runs, run(t))
            BY <5>3
          <6> QED
            BY <5>1, <6>1
        <5> QED
          BY <4>3, <5>2, <5>3
      <4>5. /\ \/ Goes(p, "idle", NoSpec) /\ listed' = [listed EXCEPT ![p] = {}]
               \/ Goes(p, "oneOffs", NoSpec) /\ listed' = [listed EXCEPT ![p] = @ \ {o}]
            /\ since' \in [Proc -> 0 .. MaxTime]
            /\ UNCHANGED <<now, specs, due, faults, late>>
        BY <3>5 DEF InsertOneOff, Forgets
      <4>6. doing' \in [Proc -> Doing] /\ target' \in [Proc -> SpecId \cup {NoSpec}]
        BY <4>5, ProcessGoesOn DEF Doing
      <4>7. listed' \in [Proc -> SUBSET [spec : SpecId, revision : Nat, next : Nat]]
        BY <4>5
      <4> QED
        BY <4>4, <4>5, <4>6, <4>7
    <3>6. CASE ListSchedules(p)
      BY <3>6 DEF ListSchedules, Now, Ends
    <3>7. ASSUME NEW s \in due[p], MaterializeDue(p, s) PROVE TypeOK'
      <4> DEFINE run == QueuedRun(s, specs[s].revision, "schedule", specs[s].next)
      <4>1. s \in SpecId
        BY <3>7
      <4>2. PICK t \in Reading(p) :
              \/ SetNext(s, t, NextSlot(t)) /\ UNCHANGED runs
              \/ /\ specs[s].next # NoTime /\ runs' = Append(runs, run)
                 /\ specs' = [specs EXCEPT ![s].next = NextSlot(t)] /\ UNCHANGED late
              \/ UNCHANGED <<specs, runs, late>>
        BY <3>7 DEF MaterializeDue
      <4>3. specs' \in [SpecId -> SpecRow] /\ late' \subseteq SpecId
        <5>1. NextSlot(t) \in Nat
          BY ReadingIsTime
        <5>2. [specs[s] EXCEPT !.next = NextSlot(t)] \in SpecRow
          BY <4>1, <5>1, SpecRowSet
        <5>3. SetNext(s, t, NextSlot(t)) => specs' \in [SpecId -> SpecRow] /\ late' \subseteq SpecId
          BY <5>1, SetNextTypes
        <5> QED
          BY <4>1, <4>2, <5>2, <5>3
      <4>4. runs' = runs \/ (runs' = Append(runs, run) /\ specs[s].next # NoTime)
        BY <4>2
      <4>5. specs[s].next # NoTime => run \in RunRow
        BY <4>1, QueuedRunRow DEF Trigger, SpecRow
      <4>6. runs' \in Seq(RunRow)
        <5> HIDE DEF run
        <5>1. specs[s].next # NoTime => Append(runs, run) \in Seq(RunRow)
          BY <4>5, AppendProperties
        <5> QED
          BY <4>4, <5>1
      <4>7. since' \in [Proc -> 0 .. MaxTime]
        BY <3>7 DEF MaterializeDue, Ends
      <4> QED
        BY <3>7, <4>3, <4>6, <4>7 DEF MaterializeDue
    <3>8. CASE ClaimDue(p)
      <4>1. PICK C : runs' = [i \in DOMAIN runs |->
              IF i \in C
                THEN [runs[i] EXCEPT !.claimed = TRUE,
                        !.status = IF Live(runs[i].spec) THEN "running" ELSE "cancelled"]
                ELSE runs[i]]
        BY <3>8 DEF ClaimDue
      <4>2. DOMAIN runs = 1 .. Len(runs) /\ Len(runs) \in Nat
            /\ \A i \in 1 .. Len(runs) : runs[i] \in RunRow
        BY LenProperties, ElementOfSeq
      <4>3. runs' \in [1 .. Len(runs) -> RunRow]
        BY <4>1, <4>2 DEF RunRow, Status
      <4>4. runs' \in Seq(RunRow)
        BY <4>2, <4>3, FunctionsAreSequences
      <4> QED
        <5>1. since' \in [Proc -> 0 .. MaxTime]
          BY <3>8, ProcessTimes DEF ClaimDue
        <5>2. doing' \in [Proc -> Doing]
          BY <3>8 DEF ClaimDue, Now
        <5> QED
          BY <3>8, <4>4, <5>1, <5>2 DEF ClaimDue
    <3>9. CASE Cleared(p)
      <4>1. specs' \in [SpecId -> SpecRow]
        <5>1. specs' = [specs EXCEPT ![target[p]].next = NoTime]
          BY <3>9 DEF Cleared
        <5>2. CASE target[p] \in SpecId
          BY <5>1, <5>2, SpecRowSet
        <5>3. CASE target[p] \notin SpecId
          BY <5>1, <5>3
        <5> QED
          BY <5>2, <5>3
      <4> QED
        BY <3>9, <4>1 DEF Cleared, Goes, Now
    <3>10. CASE NextComputed(p)
      <4>1. /\ \/ Goes(p, "idle", NoSpec) /\ UNCHANGED since
               \/ Now(p, "setting") /\ Ends(p) /\ UNCHANGED target
            /\ UNCHANGED <<now, specs, runs, listed, due, faults, late>>
        BY <3>10 DEF NextComputed
      <4>2. since' \in [Proc -> 0 .. MaxTime]
        BY <4>1, ProcessTimes
      <4>3. doing' \in [Proc -> Doing] /\ target' \in [Proc -> SpecId \cup {NoSpec}]
        BY <4>1 DEF Goes, Now
      <4> QED
        BY <4>1, <4>2, <4>3
    <3> QED
      BY <2>4, <3>1, <3>2, <3>3, <3>4, <3>5, <3>6, <3>7, <3>8, <3>9, <3>10 DEF Proceed
  <2>5. ASSUME NEW p \in Proc, Crash(p) PROVE TypeOK'
    BY <2>5 DEF Crash, Goes, Now, Forgets
  <2>6. ASSUME NEW p \in Proc, NEW i \in DOMAIN runs, Ended(p, i) PROVE TypeOK'
    <3>1. runs' \in Seq(RunRow)
      BY <2>6, WithStatusRows DEF Ended, Status
    <3>2. runs[i].spec \in SpecId
      <4>1. runs[i] \in RunRow
        BY LenProperties, ElementOfSeq
      <4> QED
        BY <4>1 DEF RunRow
    <3>3. \/ UNCHANGED <<doing, target>>
          \/ Goes(p, "clearing", runs[i].spec)
      BY <2>6 DEF Ended
    <3> QED
      BY <2>6, <3>1, <3>2, <3>3 DEF Ended, Goes, Now
  <2>7. CASE Tick
    BY <2>7 DEF Tick
  <2> QED
    BY <2>1, <2>2, <2>3, <2>4, <2>5, <2>6, <2>7 DEF Next
<1> QED
  BY <1>1, <1>2, PTL DEF Spec

-----------------------------------------------------------------------------
(* What one step does to rows and specs.                                    *)

\* A row on record keeps its identity, and its status moves on.
RowKept(i) ==
  /\ i \in DOMAIN runs'
  /\ runs'[i].spec = runs[i].spec /\ runs'[i].revision = runs[i].revision
  /\ runs'[i].trigger = runs[i].trigger /\ runs'[i].at = runs[i].at
  /\ \/ runs'[i].status = runs[i].status /\ runs'[i].claimed = runs[i].claimed
     \/ /\ runs[i].status = "queued" /\ runs'[i].status = "cancelled"
        /\ runs'[i].claimed = runs[i].claimed
     \/ /\ runs[i].status = "queued" /\ runs'[i].status \in {"running", "cancelled"}
        /\ runs'[i].claimed
     \/ /\ runs[i].status = "running" /\ runs'[i].status \in {"done", "cancelled"}
        /\ runs'[i].claimed = runs[i].claimed

RunsKept == DOMAIN runs' = DOMAIN runs /\ \A i \in DOMAIN runs : RowKept(i)

\* A row is queued behind the others.
RunAdded(row) ==
  LET n == Len(runs) + 1 IN
    /\ \A i \in DOMAIN runs : RowKept(i) /\ i < n
    /\ DOMAIN runs' = DOMAIN runs \cup {n} /\ n \in Nat \ DOMAIN runs
    /\ runs'[n] = row /\ row.status = "queued" /\ ~row.claimed

AddedByHand(row) == row.trigger = "manual"
AddedOneOff(row) == row.trigger = "one_off" /\ ~OnRecord(row.spec, row.revision)
AddedSlot(row) ==
  /\ row.trigger = "schedule" /\ row.spec \in SpecId
  /\ specs[row.spec].kind = "schedule" /\ specs[row.spec].next # NoTime
  /\ row.at = specs[row.spec].next /\ row.at <= now
  /\ row.at < specs'[row.spec].next

\* The next run of a schedule moves on, or is set to a time later than now or than
\* all its runs, unless it is set too late.
NextMoves(s) ==
  \/ specs'[s].kind = specs[s].kind /\ specs'[s].next = specs[s].next
  \/ specs'[s].kind # "schedule" \/ specs'[s].next = NoTime \/ now < specs'[s].next
  \/ /\ specs[s].kind = "schedule" /\ specs[s].next # NoTime
     /\ specs[s].next < specs'[s].next
  \/ \A i \in DOMAIN runs :
       runs[i].spec = s /\ runs[i].trigger = "schedule" => runs[i].at < specs'[s].next

NextLater ==
  /\ now <= now' /\ late \subseteq late'
  /\ \A s \in SpecId \ late' : NextMoves(s)

StepShape ==
  /\ NextLater
  /\ \/ RunsKept
     \/ \E row : RunAdded(row) /\ (AddedByHand(row) \/ AddedOneOff(row) \/ AddedSlot(row))

(* Nothing happens to the rows when nothing is written.                     *)
LEMMA UnchangedRuns ==
  ASSUME UNCHANGED runs
  PROVE  RunsKept
BY DEF RunsKept, RowKept

(* Queued rows may be cancelled, running rows come to an outcome.           *)
LEMMA StatusSet ==
  ASSUME TypeOK, NEW I, NEW st \in {"cancelled", "done"}, runs' = WithStatus(I, st),
         \A i \in I \cap DOMAIN runs :
           runs[i].status = "running" \/ (runs[i].status = "queued" /\ st = "cancelled")
  PROVE  RunsKept
<1>1. runs \in Seq(RunRow) /\ st \in Status
  BY DEF TypeOK, Status
<1>2. /\ DOMAIN runs' = DOMAIN runs
      /\ \A i \in DOMAIN runs :
           runs'[i] = IF i \in I THEN [runs[i] EXCEPT !.status = st] ELSE runs[i]
  BY <1>1, WithStatusRows
<1>3. \A i \in DOMAIN runs : runs[i] \in RunRow
  BY <1>1, LenProperties, ElementOfSeq
<1>4. ASSUME NEW i \in DOMAIN runs PROVE RowKept(i)
  <2>1. CASE i \in I
    <3>1. runs'[i] = [runs[i] EXCEPT !.status = st]
      BY <1>2, <2>1
    <3>2. /\ runs'[i].spec = runs[i].spec /\ runs'[i].revision = runs[i].revision
          /\ runs'[i].trigger = runs[i].trigger /\ runs'[i].at = runs[i].at
          /\ runs'[i].claimed = runs[i].claimed /\ runs'[i].status = st
      BY <1>3, <3>1 DEF RunRow
    <3> QED
      BY <1>2, <2>1, <3>2 DEF RowKept
  <2>2. CASE i \notin I
    BY <1>2, <2>2 DEF RowKept
  <2> QED
    BY <2>1, <2>2
<1> QED
  BY <1>2, <1>4 DEF RunsKept

(* An insert leaves the rows on record alone.                               *)
LEMMA RowInserted ==
  ASSUME TypeOK, NEW row \in RunRow, row.status = "queued", ~row.claimed,
         runs' = Append(runs, row)
  PROVE  RunAdded(row)
<1>1. runs \in Seq(RunRow)
  BY DEF TypeOK
<1>2. /\ DOMAIN runs = 1 .. Len(runs) /\ Len(runs) \in Nat
      /\ DOMAIN runs' = 1 .. Len(runs) + 1
      /\ \A i \in 1 .. Len(runs) : runs'[i] = runs[i]
      /\ runs'[Len(runs) + 1] = row
  BY <1>1, AppendRows
<1>3. \A i \in DOMAIN runs : RowKept(i) /\ i < Len(runs) + 1
  BY <1>2 DEF RowKept
<1>4. DOMAIN runs' = DOMAIN runs \cup {Len(runs) + 1}
      /\ Len(runs) + 1 \in Nat \ DOMAIN runs
  BY <1>2
<1> QED
  BY <1>2, <1>3, <1>4 DEF RunAdded

(* A manual run of a one-time schedule replaces its queued run.             *)
LEMMA RowReplaced ==
  ASSUME TypeOK, NEW row \in RunRow, row.status = "queued", ~row.claimed,
         NEW I, \A i \in I : runs[i].status = "queued",
         runs' = Append(WithStatus(I, "cancelled"), row)
  PROVE  RunAdded(row)
<1> DEFINE W == WithStatus(I, "cancelled")
<1>1. runs \in Seq(RunRow) /\ "cancelled" \in Status
  BY DEF TypeOK, Status
<1>2. /\ W \in Seq(RunRow) /\ Len(W) = Len(runs) /\ DOMAIN W = DOMAIN runs
      /\ \A i \in DOMAIN runs :
           W[i] = IF i \in I THEN [runs[i] EXCEPT !.status = "cancelled"] ELSE runs[i]
  BY <1>1, WithStatusRows
<1> HIDE DEF W
<1>3. /\ DOMAIN W = 1 .. Len(W) /\ Len(W) \in Nat
      /\ DOMAIN Append(W, row) = 1 .. Len(W) + 1
      /\ \A i \in 1 .. Len(W) : Append(W, row)[i] = W[i]
      /\ Append(W, row)[Len(W) + 1] = row
  BY <1>2, AppendRows
<1>4. runs' = Append(W, row)
  BY DEF W
<1>5. \A i \in DOMAIN runs : runs[i] \in RunRow
  BY <1>1, LenProperties, ElementOfSeq
<1>6. ASSUME NEW i \in DOMAIN runs PROVE RowKept(i) /\ i < Len(runs) + 1
  <2>1. i \in DOMAIN runs' /\ runs'[i] = W[i] /\ i < Len(runs) + 1
    BY <1>2, <1>3, <1>4
  <2>2. CASE i \in I
    <3>1. /\ W[i].spec = runs[i].spec /\ W[i].revision = runs[i].revision
          /\ W[i].trigger = runs[i].trigger /\ W[i].at = runs[i].at
          /\ W[i].claimed = runs[i].claimed /\ W[i].status = "cancelled"
      BY <1>2, <1>5, <2>2 DEF RunRow
    <3> QED
      BY <2>1, <2>2, <3>1 DEF RowKept
  <2>3. CASE i \notin I
    BY <1>2, <2>1, <2>3 DEF RowKept
  <2> QED
    BY <2>2, <2>3
<1>7. DOMAIN runs' = DOMAIN runs \cup {Len(runs) + 1}
      /\ Len(runs) + 1 \in Nat \ DOMAIN runs /\ runs'[Len(runs) + 1] = row
  BY <1>2, <1>3, <1>4
<1> QED
  BY <1>6, <1>7 DEF RunAdded

(* claimDueRuns moves queued rows on.                                       *)
LEMMA ClaimsKeepRuns ==
  ASSUME TypeOK, NEW p \in Proc, ClaimDue(p)
  PROVE  RunsKept
<1>1. PICK C \in SUBSET {i \in DOMAIN runs : runs[i].status = "queued" /\ runs[i].at <= now} :
        runs' = [i \in DOMAIN runs |->
          IF i \in C
            THEN [runs[i] EXCEPT !.claimed = TRUE,
                    !.status = IF Live(runs[i].spec) THEN "running" ELSE "cancelled"]
            ELSE runs[i]]
  BY DEF ClaimDue
<1>2. \A i \in DOMAIN runs : runs[i] \in RunRow
  BY LenProperties, ElementOfSeq DEF TypeOK
<1>3. ASSUME NEW i \in DOMAIN runs PROVE RowKept(i)
  <2>1. CASE i \in C
    <3>1. runs'[i] = [runs[i] EXCEPT !.claimed = TRUE,
             !.status = IF Live(runs[i].spec) THEN "running" ELSE "cancelled"]
      BY <1>1, <2>1
    <3>2. /\ runs'[i].spec = runs[i].spec /\ runs'[i].revision = runs[i].revision
          /\ runs'[i].trigger = runs[i].trigger /\ runs'[i].at = runs[i].at
          /\ runs'[i].claimed /\ runs'[i].status \in {"running", "cancelled"}
      BY <1>2, <3>1 DEF RunRow
    <3> QED
      BY <1>1, <2>1, <3>2 DEF RowKept
  <2>2. CASE i \notin C
    BY <1>1, <2>2 DEF RowKept
  <2> QED
    BY <2>1, <2>2
<1> QED
  BY <1>1, <1>3 DEF RunsKept

(* A statement that writes a row of cron_specs.                             *)
LEMMA NextSet ==
  ASSUME TypeOK, UNCHANGED <<now, late>>, NEW s, NEW row,
         specs' = [specs EXCEPT ![s] = row],
         s \in SpecId =>
           \/ row.kind = specs[s].kind /\ row.next = specs[s].next
           \/ row.kind # "schedule" \/ row.next = NoTime \/ now < row.next
           \/ /\ specs[s].kind = "schedule" /\ specs[s].next # NoTime
              /\ specs[s].next < row.next
  PROVE  NextLater
<1>1. now <= now'
  BY ScheduleBoundAssumption DEF TypeOK
<1> QED
  BY <1>1 DEF NextLater, NextMoves, TypeOK

(* A next run computed at time t is later than the runs queued, unless one  *)
(* of them has overtaken it.                                                *)
LEMMA NextSetInTime ==
  ASSUME TypeOK, UNCHANGED now, NEW s, NEW t \in 0 .. MaxTime, NEW next \in Nat,
         SetNext(s, t, next),
         s \in SpecId => specs[s].kind # "schedule" \/ next = NoTime \/ t < next
  PROVE  NextLater
<1>1. now <= now' /\ late \subseteq late'
  BY ScheduleBoundAssumption DEF TypeOK, SetNext
<1>2. ASSUME NEW x \in SpecId \ late', x # s PROVE NextMoves(x)
  BY <1>2 DEF SetNext, TypeOK, NextMoves
<1>3. ASSUME s \in SpecId \ late' PROVE NextMoves(s)
  <2>1. specs'[s].kind = specs[s].kind /\ specs'[s].next = next
    BY <1>3 DEF SetNext, TypeOK, SpecRow
  <2>2. ASSUME t < next, NEW i \in DOMAIN runs,
               runs[i].spec = s, runs[i].trigger = "schedule"
        PROVE  runs[i].at < next
    <3>1. ~(t < runs[i].at) /\ runs[i].at \in Nat
      BY <1>3, <2>2, RowTypes DEF SetNext, Overtaken, RunRow
    <3> QED
      BY <2>2, <3>1, ScheduleBoundAssumption
  <2> QED
    BY <1>3, <2>1, <2>2 DEF NextMoves
<1> QED
  BY <1>1, <1>2, <1>3 DEF NextLater

LEMMA SpecsUnchanged ==
  ASSUME TypeOK, UNCHANGED <<now, specs, late>>
  PROVE  NextLater
BY ScheduleBoundAssumption DEF NextLater, NextMoves, TypeOK

(* Every step of the model has that shape.                                  *)
LEMMA StepHasShape ==
  ASSUME TypeOK, [Next]_vars
  PROVE  StepShape
<1> USE DEF procVars
<1>0. now \in 0 .. MaxTime /\ now < NextSlot(now)
  BY NextSlotIsLater, ScheduleBoundAssumption DEF TypeOK
<1>1. CASE UNCHANGED vars
  BY <1>1, SpecsUnchanged, UnchangedRuns DEF vars, StepShape
<1>2. ASSUME NEW p \in Proc, NEW s \in SpecId, ClientStep(p, s) PROVE StepShape
  <2>1. ASSUME NEW kind \in Kind, NEW runAt \in 0 .. MaxTime, NEW enabled \in BOOLEAN,
               Create(p, s, kind, runAt, enabled)
        PROVE  StepShape
    <3>1. specs' = [specs EXCEPT ![s] = Inserted(kind, enabled, runAt)] /\ UNCHANGED <<now, runs, late>>
      BY <2>1 DEF Create
    <3>2. Inserted(kind, enabled, runAt).next = NoTime
      BY DEF Inserted
    <3> QED
      BY <3>1, <3>2, NextSet, UnchangedRuns DEF StepShape
  <2>2. ASSUME NEW edited \in BOOLEAN, NEW switch \in {"unset", "on", "off"},
               NEW timing \in {"unset", "cron", "once"}, NEW at \in Nat,
               Update(p, s, edited, switch, timing, at)
        PROVE  StepShape
    <3> DEFINE y == Merged(specs[s], switch, timing, at)
    <3> DEFINE revised == MeaningfulChange(specs[s], y, edited)
    <3> DEFINE z == Upserted(y, revised)
    <3>1. /\ runs' = WithStatus(Replaced(s, y, revised), "cancelled")
          /\ UNCHANGED <<now, late>>
          /\ \/ switch = "unset" /\ timing = "unset" /\ specs' = [specs EXCEPT ![s] = z]
             \/ specs' = [specs EXCEPT ![s] = [z EXCEPT !.next = InitialNext(z, now)]]
      BY <2>2 DEF Update
    <3>2. \A i \in Replaced(s, y, revised) : runs[i].status = "queued"
      BY DEF Replaced, QueuedRows
    <3>3. specs[s] \in SpecRow /\ y \in SpecRow /\ revised \in BOOLEAN
      BY MergedRow DEF TypeOK, MeaningfulChange
    <3>4. timing = "unset" => y.kind = specs[s].kind /\ y.next = specs[s].next
      BY <3>3 DEF Merged, SpecRow
    <3> HIDE DEF y, revised
    <3>5. z \in SpecRow /\ z.kind = y.kind /\ z.next = y.next
      <4>1. z \in SpecRow
        BY <3>3, SpecRowSet
      <4>2. z.kind = y.kind /\ z.next = y.next
        BY <3>3 DEF Upserted, SpecRow
      <4> QED
        BY <4>1, <4>2
    <3> HIDE DEF z
    <3>6. [z EXCEPT !.next = InitialNext(z, now)].kind = z.kind
          /\ [z EXCEPT !.next = InitialNext(z, now)].next = InitialNext(z, now)
      BY <3>5 DEF SpecRow
    <3>7. z.kind # "schedule" \/ InitialNext(z, now) = NoTime \/ now < InitialNext(z, now)
      BY <1>0, <3>5, InitialNextIsTime
    <3>8. RunsKept
      BY <3>1, <3>2, StatusSet
    <3>9. NextLater
      BY <3>1, <3>4, <3>5, <3>6, <3>7, NextSet
    <3> QED
      BY <3>8, <3>9 DEF StepShape
  <2>3. CASE TriggerNow(p, s)
    <3> DEFINE manual == QueuedRun(s, specs[s].revision, "manual", now)
    <3> DEFINE replaced == {i \in Rows(s, specs[s].revision) :
                              runs[i].trigger = "one_off" /\ runs[i].status = "queued"}
    <3>1. manual \in RunRow
      BY QueuedRunRow, ScheduleBoundAssumption DEF TypeOK, Trigger, SpecRow
    <3>2. manual.status = "queued" /\ ~manual.claimed /\ manual.trigger = "manual"
      BY DEF QueuedRun
    <3>3. UNCHANGED <<now, late>> /\ (UNCHANGED specs \/
            specs' = [specs EXCEPT ![s] = [specs[s] EXCEPT !.next = NoTime]])
      BY <2>3 DEF TriggerNow
    <3>4. [specs[s] EXCEPT !.next = NoTime].next = NoTime
      BY DEF TypeOK, SpecRow
    <3>5. NextLater
      BY <3>3, <3>4, NextSet, SpecsUnchanged
    <3>6. \/ UNCHANGED runs
          \/ runs' = Append(runs, manual)
          \/ runs' = Append(WithStatus(replaced, "cancelled"), manual)
      BY <2>3 DEF TriggerNow
    <3>7. \A i \in replaced : runs[i].status = "queued"
      OBVIOUS
    <3> HIDE DEF manual, replaced
    <3>8. UNCHANGED runs \/ RunAdded(manual)
      BY <3>1, <3>2, <3>6, <3>7, RowInserted, RowReplaced
    <3> QED
      BY <3>2, <3>5, <3>8, UnchangedRuns DEF StepShape, AddedByHand
  <2>4. CASE MarkRemoved(p, s)
    <3> DEFINE row == [specs[s] EXCEPT !.removed = TRUE, !.enabled = FALSE]
    <3>1. specs' = [specs EXCEPT ![s] = row] /\ UNCHANGED <<now, runs, late>>
      BY <2>4 DEF MarkRemoved
    <3>2. row.kind = specs[s].kind /\ row.next = specs[s].next
      BY DEF TypeOK, SpecRow
    <3> HIDE DEF row
    <3> QED
      BY <3>1, <3>2, NextSet, UnchangedRuns DEF StepShape
  <2>5. CASE Refresh(p, s)
    BY <2>5, SpecsUnchanged, UnchangedRuns DEF Refresh, StepShape
  <2>6. ASSUME NEW enabled \in BOOLEAN, NEW edited \in BOOLEAN, NEW retimed \in BOOLEAN,
               FileUpserted(p, s, enabled, edited, retimed)
        PROVE  StepShape
    <3> DEFINE y == [specs[s] EXCEPT !.enabled = enabled, !.content = enabled]
    <3>1. PICK revised : specs' = [specs EXCEPT ![s] = Upserted(y, revised)]
      BY <2>6 DEF FileUpserted
    <3>2. Upserted(y, revised).kind = specs[s].kind /\ Upserted(y, revised).next = specs[s].next
      BY DEF TypeOK, SpecRow, Upserted
    <3>3. UNCHANGED <<now, runs, late>>
      BY <2>6 DEF FileUpserted
    <3> HIDE DEF y
    <3> QED
      BY <3>1, <3>2, <3>3, NextSet, UnchangedRuns DEF StepShape
  <2>7. \A timing \in {"unset", "cron", "once"} :
          (IF timing = "once" THEN 1 .. MaxTime ELSE {NoTime}) \subseteq Nat
    BY DEF NoTime
  <2> QED
    BY <1>2, <2>1, <2>2, <2>3, <2>4, <2>5, <2>6, <2>7 DEF ClientStep
<1>3. ASSUME NEW p \in Proc, ListOneOffs(p) PROVE StepShape
  BY <1>3, SpecsUnchanged, UnchangedRuns DEF ListOneOffs, StepShape
<1>4. ASSUME NEW p \in Proc, Proceed(p) PROVE StepShape
  <2>1. CASE Created(p)
    <3> DEFINE s == target[p]
    <3>1. PICK t \in Reading(p) : SetNext(s, t, InitialNext(specs[s], t))
      BY <2>1 DEF Created
    <3>2. UNCHANGED <<now, runs>>
      BY <2>1 DEF Created
    <3>3. t \in 0 .. MaxTime /\ (s \in SpecId => specs[s] \in SpecRow)
      BY ReadingIsTime DEF TypeOK
    <3> DEFINE next == IF s \in SpecId THEN InitialNext(specs[s], t) ELSE NoTime
    <3>4. next \in Nat
          /\ (s \in SpecId => specs[s].kind # "schedule" \/ next = NoTime \/ t < next)
      BY <3>3, InitialNextIsTime DEF NoTime
    <3> HIDE DEF s
    <3>5. SetNext(s, t, next)
      BY <3>1 DEF SetNext, TypeOK
    <3> HIDE DEF next
    <3>6. NextLater
      BY <3>2, <3>3, <3>4, <3>5, NextSetInTime
    <3> QED
      BY <3>2, <3>6, UnchangedRuns DEF StepShape
  <2>2. CASE CancelQueued(p)
    <3>1. runs' = WithStatus(QueuedRows(target[p]), "cancelled") /\ UNCHANGED <<now, specs, late>>
      BY <2>2 DEF CancelQueued
    <3>2. \A i \in QueuedRows(target[p]) : runs[i].status = "queued"
      BY DEF QueuedRows
    <3>3. RunsKept
      BY <3>1, <3>2, StatusSet
    <3> QED
      BY <3>1, <3>3, SpecsUnchanged DEF StepShape
  <2>3. CASE NextRunApplied(p)
    <3>1. PICK t \in Reading(p) : SetNext(target[p], t, NextSlot(t))
      BY <2>3 DEF NextRunApplied
    <3>2. UNCHANGED <<now, runs>>
      BY <2>3 DEF NextRunApplied
    <3>3. t \in 0 .. MaxTime /\ NextSlot(t) \in Nat /\ t < NextSlot(t)
      BY ReadingIsTime
    <3>4. NextLater
      BY <3>1, <3>2, <3>3, NextSetInTime
    <3> QED
      BY <3>2, <3>4, UnchangedRuns DEF StepShape
  <2>4. ASSUME NEW o \in listed[p], CheckOneOff(p, o) PROVE StepShape
    BY <2>4, SpecsUnchanged, UnchangedRuns DEF CheckOneOff, StepShape
  <2>5. ASSUME NEW o \in listed[p], InsertOneOff(p, o) PROVE StepShape
    <3> DEFINE row(t) == QueuedRun(o.spec, o.revision, "one_off",
                                   IF o.next = NoTime THEN t ELSE o.next)
    <3>1. o.spec \in SpecId /\ o.revision \in Nat /\ o.next \in Nat
      BY <2>5 DEF TypeOK
    <3>2. \A t \in Reading(p) : row(t) \in RunRow
      BY <3>1, ReadingIsTime, QueuedRunRow DEF Trigger, NoTime
    <3>3. \A t : /\ row(t).status = "queued" /\ ~row(t).claimed /\ row(t).trigger = "one_off"
                /\ row(t).spec = o.spec /\ row(t).revision = o.revision
      BY DEF QueuedRun
    <3>4. /\ \/ UNCHANGED runs
             \/ /\ \E t \in Reading(p) : runs' = Append(runs, row(t))
                /\ ~OnRecord(o.spec, o.revision)
          /\ UNCHANGED <<now, specs, late>>
      BY <2>5 DEF InsertOneOff
    <3> HIDE DEF row
    <3>5. UNCHANGED runs \/ \E run : RunAdded(run) /\ AddedOneOff(run)
      BY <3>2, <3>3, <3>4, RowInserted DEF AddedOneOff
    <3>6. NextLater
      BY <3>4, SpecsUnchanged
    <3> QED
      BY <3>5, <3>6, UnchangedRuns DEF StepShape
  <2>6. CASE ListSchedules(p)
    BY <2>6, SpecsUnchanged, UnchangedRuns DEF ListSchedules, StepShape
  <2>7. ASSUME NEW s \in due[p], MaterializeDue(p, s) PROVE StepShape
    <3> DEFINE run == QueuedRun(s, specs[s].revision, "schedule", specs[s].next)
    <3>1. s \in SpecId /\ UNCHANGED now
      BY <2>7 DEF TypeOK, MaterializeDue
    <3>2. PICK t \in Reading(p) :
            \/ SetNext(s, t, NextSlot(t)) /\ UNCHANGED runs
            \/ /\ runs' = Append(runs, run) /\ specs[s].next <= t
               /\ specs' = [specs EXCEPT ![s].next = NextSlot(t)] /\ UNCHANGED late
               /\ specs[s].kind = "schedule" /\ specs[s].next # NoTime
            \/ UNCHANGED <<specs, runs, late>>
      BY <2>7 DEF MaterializeDue
    <3>3. t \in 0 .. MaxTime /\ t <= now /\ NextSlot(t) \in Nat /\ t < NextSlot(t)
      BY ReadingIsTime
    <3>4. CASE SetNext(s, t, NextSlot(t)) /\ UNCHANGED runs
      BY <3>1, <3>3, <3>4, NextSetInTime, UnchangedRuns DEF StepShape
    <3>5. CASE /\ runs' = Append(runs, run) /\ specs[s].next <= t
               /\ specs' = [specs EXCEPT ![s].next = NextSlot(t)] /\ UNCHANGED late
               /\ specs[s].kind = "schedule" /\ specs[s].next # NoTime
      <4> DEFINE row == [specs[s] EXCEPT !.next = NextSlot(t)]
      <4>1. run \in RunRow
        BY <3>1, <3>5, QueuedRunRow DEF TypeOK, Trigger, SpecRow, NoTime
      <4>2. /\ run.status = "queued" /\ ~run.claimed /\ run.trigger = "schedule"
            /\ run.spec = s /\ run.at = specs[s].next
        BY DEF QueuedRun
      <4>3. specs[s].next \in Nat /\ row.next = NextSlot(t) /\ now \in Nat
        BY <3>1, RowTypes DEF SpecRow
      <4>4. specs' = [specs EXCEPT ![s] = row] /\ specs'[s] = row
        BY <3>1, <3>5 DEF TypeOK
      <4>5. specs[s].next < row.next /\ specs[s].next <= now
        BY <3>3, <3>5, <4>3, ScheduleBoundAssumption
      <4> HIDE DEF row, run
      <4>6. RunAdded(run)
        BY <3>5, <4>1, <4>2, RowInserted
      <4>7. AddedSlot(run)
        BY <3>1, <3>5, <4>2, <4>4, <4>5 DEF AddedSlot
      <4>8. NextLater
        BY <3>1, <3>5, <4>4, <4>5, NextSet
      <4> QED
        BY <4>6, <4>7, <4>8 DEF StepShape
    <3>6. CASE UNCHANGED <<specs, runs, late>>
      BY <3>1, <3>6, SpecsUnchanged, UnchangedRuns DEF StepShape
    <3> QED
      BY <3>2, <3>4, <3>5, <3>6
  <2>8. CASE ClaimDue(p)
    <3>1. RunsKept
      BY <2>8, ClaimsKeepRuns
    <3> QED
      BY <2>8, <3>1, SpecsUnchanged DEF ClaimDue, StepShape
  <2>9. CASE Cleared(p)
    <3> DEFINE row == [specs[target[p]] EXCEPT !.next = NoTime]
    <3>1. specs' = [specs EXCEPT ![target[p]] = row] /\ UNCHANGED <<now, runs, late>>
      BY <2>9 DEF Cleared
    <3>2. target[p] \in SpecId => row.next = NoTime
      BY DEF TypeOK, SpecRow
    <3> HIDE DEF row
    <3> QED
      BY <3>1, <3>2, NextSet, UnchangedRuns DEF StepShape
  <2>10. CASE NextComputed(p)
    BY <2>10, SpecsUnchanged, UnchangedRuns DEF NextComputed, StepShape
  <2> QED
    BY <1>4, <2>1, <2>2, <2>3, <2>4, <2>5, <2>6, <2>7, <2>8, <2>9, <2>10 DEF Proceed
<1>5. ASSUME NEW p \in Proc, Crash(p) PROVE StepShape
  BY <1>5, SpecsUnchanged, UnchangedRuns DEF Crash, StepShape
<1>6. ASSUME NEW p \in Proc, NEW i \in DOMAIN runs, Ended(p, i) PROVE StepShape
  <2>1. RunsKept
    BY <1>6, StatusSet DEF Ended
  <2> QED
    BY <1>6, <2>1, SpecsUnchanged DEF Ended, StepShape
<1>7. CASE Tick
  <2>1. UNCHANGED <<specs, runs, late>> /\ now <= now'
    BY <1>7, <1>0 DEF Tick
  <2> QED
    BY <2>1, UnchangedRuns DEF NextLater, NextMoves, StepShape
<1> QED
  BY <1>1, <1>2, <1>3, <1>4, <1>5, <1>6, <1>7 DEF Next

-----------------------------------------------------------------------------
(* Invariants. *)

\* Runs of a recurring schedule lie before its next run, and not in the future.
NextIsAfter(i) ==
  LET x == specs[runs[i].spec] IN
    runs[i].spec \notin late /\ x.kind = "schedule" /\ x.next # NoTime
      => runs[i].at < x.next
SlotsArePast ==
  \A i \in DOMAIN runs : runs[i].trigger = "schedule" => runs[i].at <= now /\ NextIsAfter(i)

SlotInv == SlotsRunOnce /\ SlotsArePast

LEMMA NewRowTypes ==
  ASSUME TypeOK'
  PROVE  /\ \A i \in DOMAIN runs' : runs'[i] \in RunRow /\ i \in Nat
         /\ \A s \in SpecId : specs'[s] \in SpecRow
         /\ now' \in Nat
BY LenProperties, ElementOfSeq, ScheduleBoundAssumption DEF TypeOK

(* Later next runs keep the runs on record in the past.                     *)
LEMMA PastStaysPast ==
  ASSUME TypeOK, TypeOK', SlotsArePast, NextLater,
         NEW i \in DOMAIN runs, RowKept(i), runs[i].trigger = "schedule"
  PROVE  runs'[i].at <= now' /\ NextIsAfter(i)'
<1> DEFINE s == runs[i].spec
<1>1. /\ runs[i].at \in Nat /\ s \in SpecId /\ now \in Nat /\ now' \in Nat
      /\ runs'[i].at = runs[i].at /\ runs'[i].spec = s
  BY RowTypes, NewRowTypes DEF RowKept, RunRow
<1>2. runs[i].at <= now /\ NextIsAfter(i)
  BY DEF SlotsArePast
<1>3. runs'[i].at <= now'
  BY <1>1, <1>2 DEF NextLater
<1>4. NextIsAfter(i)'
  <2> SUFFICES ASSUME s \notin late', specs'[s].kind = "schedule", specs'[s].next # NoTime
               PROVE  runs[i].at < specs'[s].next
    BY <1>1 DEF NextIsAfter
  <2>1. NextMoves(s) /\ s \notin late
    BY <1>1 DEF NextLater
  <2>2. specs[s].kind = "schedule" /\ specs[s].next # NoTime => runs[i].at < specs[s].next
    BY <1>2, <2>1 DEF NextIsAfter
  <2>3. specs'[s].next \in Nat /\ specs[s].next \in Nat
    BY <1>1, RowTypes, NewRowTypes DEF SpecRow
  <2> QED
    BY <1>1, <1>2, <2>1, <2>2, <2>3 DEF NextMoves
<1> QED
  BY <1>3, <1>4

(* Next runs are later than the runs queued, unless one was set too late.   *)
LEMMA SlotsAreInOrder == Spec => []SlotInv
<1>1. Init => SlotInv
  BY DEF Init, SlotInv, SlotsRunOnce, SlotsArePast
<1>2. TypeOK /\ TypeOK' /\ SlotInv /\ [Next]_vars => SlotInv'
  <2> SUFFICES ASSUME TypeOK, TypeOK', SlotsRunOnce, SlotsArePast, StepShape PROVE SlotInv'
    BY StepHasShape DEF SlotInv
  <2>0. NextLater
    BY DEF StepShape
  <2>1. CASE RunsKept
    <3>1. SlotsArePast'
      <4>1. ASSUME NEW i \in DOMAIN runs', runs'[i].trigger = "schedule"
            PROVE  runs'[i].at <= now' /\ NextIsAfter(i)'
        <5>1. i \in DOMAIN runs /\ RowKept(i) /\ runs[i].trigger = "schedule"
          BY <2>1, <4>1 DEF RunsKept, RowKept
        <5> QED
          BY <2>0, <5>1, PastStaysPast
      <4> QED
        BY <4>1 DEF SlotsArePast
    <3>2. SlotsRunOnce'
      BY <2>0, <2>1 DEF SlotsRunOnce, RunsKept, RowKept, NextLater
    <3> QED
      BY <3>1, <3>2 DEF SlotInv
  <2>2. ASSUME NEW row, RunAdded(row), row.trigger # "schedule" PROVE SlotInv'
    <3> DEFINE n == Len(runs) + 1
    <3>1. /\ DOMAIN runs' = DOMAIN runs \cup {n} /\ runs'[n].trigger # "schedule"
          /\ \A i \in DOMAIN runs : RowKept(i)
      BY <2>2 DEF RunAdded
    <3> HIDE DEF n
    <3>2. SlotsArePast'
      <4>1. ASSUME NEW i \in DOMAIN runs', runs'[i].trigger = "schedule"
            PROVE  runs'[i].at <= now' /\ NextIsAfter(i)'
        <5>1. i \in DOMAIN runs /\ RowKept(i) /\ runs[i].trigger = "schedule"
          BY <3>1, <4>1 DEF RowKept
        <5> QED
          BY <2>0, <5>1, PastStaysPast
      <4> QED
        BY <4>1 DEF SlotsArePast
    <3>3. SlotsRunOnce'
      BY <2>0, <3>1 DEF SlotsRunOnce, RowKept, NextLater
    <3> QED
      BY <3>2, <3>3 DEF SlotInv
  <2>3. ASSUME NEW row, RunAdded(row), AddedSlot(row) PROVE SlotInv'
    <3> DEFINE n == Len(runs) + 1
    <3> DEFINE s == row.spec
    <3>1. /\ DOMAIN runs' = DOMAIN runs \cup {n} /\ runs'[n] = row /\ n \in Nat \ DOMAIN runs
          /\ \A i \in DOMAIN runs : RowKept(i) /\ i < n
      BY <2>3 DEF RunAdded
    <3>2. /\ s \in SpecId /\ specs[s].kind = "schedule" /\ specs[s].next # NoTime
          /\ row.trigger = "schedule" /\ row.at = specs[s].next
          /\ row.at <= now /\ row.at < specs'[s].next
      BY <2>3 DEF AddedSlot
    <3>3. row.at \in Nat /\ specs'[s].next \in Nat /\ now \in Nat /\ now' \in Nat /\ now <= now'
      BY <2>0, <3>2, RowTypes, NewRowTypes DEF SpecRow, NextLater
    <3> HIDE DEF n, s
    <3>4. SlotsArePast'
      <4>1. ASSUME NEW i \in DOMAIN runs', runs'[i].trigger = "schedule"
            PROVE  runs'[i].at <= now' /\ NextIsAfter(i)'
        <5>1. CASE i \in DOMAIN runs
          BY <2>0, <3>1, <4>1, <5>1, PastStaysPast DEF RowKept
        <5>2. CASE i = n
          BY <3>1, <3>2, <3>3, <5>2 DEF s, NextIsAfter
        <5> QED
          BY <3>1, <5>1, <5>2
      <4> QED
        BY <4>1 DEF SlotsArePast
    <3>5. SlotsRunOnce'
      <4>1. ASSUME NEW i \in DOMAIN runs', NEW j \in DOMAIN runs', i < j,
                   runs'[i].spec = runs'[j].spec, runs'[i].spec \notin late',
                   runs'[i].trigger = "schedule", runs'[j].trigger = "schedule"
            PROVE  runs'[i].at < runs'[j].at
        <5>1. CASE i \in DOMAIN runs /\ j \in DOMAIN runs
          BY <2>0, <3>1, <4>1, <5>1 DEF SlotsRunOnce, RowKept, NextLater
        <5>2. CASE i \in DOMAIN runs /\ j = n
          <6>1. runs[i].spec = s /\ runs[i].trigger = "schedule" /\ runs'[i].at = runs[i].at
            BY <3>1, <4>1, <5>2 DEF RowKept, s
          <6>2. s \notin late
            BY <2>0, <3>1, <4>1, <5>2, <6>1 DEF NextLater, RowKept
          <6> QED
            BY <3>1, <3>2, <5>2, <6>1, <6>2 DEF SlotsArePast, NextIsAfter
        <5>3. CASE i = n /\ j \in DOMAIN runs
          BY <3>1, <4>1, <5>3, RowTypes
        <5>4. CASE i = n /\ j = n
          BY <3>1, <4>1, <5>4
        <5> QED
          BY <3>1, <5>1, <5>2, <5>3, <5>4
      <4> QED
        BY <4>1 DEF SlotsRunOnce
    <3> QED
      BY <3>4, <3>5 DEF SlotInv
  <2> QED
    BY <2>1, <2>2, <2>3 DEF StepShape, AddedByHand, AddedOneOff
<1> QED
  BY <1>1, <1>2, TypeCorrect, PTL DEF Spec

(* No slot of a recurring schedule is run twice, however the statements of  *)
(* materializeDueScheduleRun, createHubSchedule, updateHubSchedule and the  *)
(* reconciler interleave and however long each waits for the write lock:    *)
(* they set the next run to a slot later than everything that was queued,   *)
(* but for the one write that SlotsRunOnce names, of a next run computed    *)
(* before another process queued that slot.                                 *)
THEOREM SlotsAreRunOnce == Spec => []SlotsRunOnce
BY SlotsAreInOrder, PTL DEF SlotInv

(* At most one record per revision of a one-off, whichever processes poll:  *)
(* the unique index decides.                                                *)
THEOREM OneRecordIsKept == Spec => []OneRecordPerRevision
<1>1. Init => OneRecordPerRevision
  BY DEF Init, OneRecordPerRevision
<1>2. TypeOK /\ OneRecordPerRevision /\ [Next]_vars => OneRecordPerRevision'
  <2> SUFFICES ASSUME TypeOK, OneRecordPerRevision, StepShape PROVE OneRecordPerRevision'
    BY StepHasShape
  <2>1. CASE RunsKept
    BY <2>1 DEF OneRecordPerRevision, RunsKept, RowKept
  <2>2. ASSUME NEW row, RunAdded(row), row.trigger # "one_off" PROVE OneRecordPerRevision'
    BY <2>2 DEF OneRecordPerRevision, RunAdded, RowKept
  <2>3. ASSUME NEW row, RunAdded(row), AddedOneOff(row) PROVE OneRecordPerRevision'
    <3>1. \A i \in DOMAIN runs : runs[i].trigger = "one_off" =>
             ~(runs[i].spec = row.spec /\ runs[i].revision = row.revision)
      BY <2>3 DEF AddedOneOff, OnRecord, Rows
    <3> QED
      BY <2>3, <3>1 DEF OneRecordPerRevision, RunAdded, RowKept
  <2> QED
    BY <2>1, <2>2, <2>3 DEF StepShape, AddedByHand, AddedSlot
<1> QED
  BY <1>1, <1>2, TypeCorrect, PTL DEF Spec

(* What every step keeps of the rows: their types, and one record of a one-off. *)
THEOREM RowsAreConsistent == Spec => []RowsInv
BY TypeCorrect, OneRecordIsKept, PTL DEF RowsInv

QueuedRowsAreUnclaimed == \A i \in DOMAIN runs : runs[i].status = "queued" => ~runs[i].claimed

(* The rows that schedules, spec files and clients give rise to behave as   *)
(* the ledger says: inserts, cancellations, claims and ends are its steps.  *)
THEOREM RowsRefineLedger == Spec => LedgerSpec
<1> DEFINE LedgerStep == \A r \in RowId : Ledger!RowStep(r)
<1>1. Init => Ledger!Init /\ QueuedRowsAreUnclaimed
  BY DEF Init, Ledger!Init, StatusOf, ClaimsOf, QueuedRowsAreUnclaimed
<1>2. TypeOK /\ QueuedRowsAreUnclaimed /\ [Next]_vars
        => LedgerStep /\ QueuedRowsAreUnclaimed'
  <2> SUFFICES ASSUME TypeOK, QueuedRowsAreUnclaimed, StepShape
               PROVE  LedgerStep /\ QueuedRowsAreUnclaimed'
    BY StepHasShape
  <2>1. ASSUME NEW r \in RowId, r \in DOMAIN runs, RowKept(r) PROVE Ledger!RowStep(r)
    <3>1. /\ StatusOf[r] = runs[r].status /\ ClaimsOf[r] = (IF runs[r].claimed THEN 1 ELSE 0)
          /\ StatusOf'[r] = runs'[r].status
          /\ ClaimsOf'[r] = (IF runs'[r].claimed THEN 1 ELSE 0)
      BY <2>1 DEF StatusOf, ClaimsOf, RowKept
    <3>2. runs[r].status = "queued" => ~runs[r].claimed
      BY <2>1 DEF QueuedRowsAreUnclaimed
    <3> QED
      BY <2>1, <3>1, <3>2 DEF RowKept, Ledger!RowStep, Ledger!Becomes, Ledger!ClaimedAs,
                              Ledger!Outcome
  <2>2. ASSUME NEW r \in RowId, r \notin DOMAIN runs, r \notin DOMAIN runs'
        PROVE  Ledger!RowStep(r)
    BY <2>2 DEF StatusOf, ClaimsOf, Ledger!RowStep, Ledger!Becomes
  <2>3. CASE RunsKept
    <3>1. LedgerStep
      BY <2>1, <2>2, <2>3 DEF RunsKept
    <3>2. QueuedRowsAreUnclaimed'
      BY <2>3 DEF QueuedRowsAreUnclaimed, RunsKept, RowKept
    <3> QED
      BY <3>1, <3>2
  <2>4. ASSUME NEW row, RunAdded(row) PROVE LedgerStep /\ QueuedRowsAreUnclaimed'
    <3> DEFINE n == Len(runs) + 1
    <3>1. /\ DOMAIN runs' = DOMAIN runs \cup {n} /\ n \notin DOMAIN runs
          /\ runs'[n].status = "queued" /\ ~runs'[n].claimed
          /\ \A i \in DOMAIN runs : RowKept(i)
      BY <2>4 DEF RunAdded
    <3> HIDE DEF n
    <3>2. n \in RowId => Ledger!RowStep(n)
      BY <3>1 DEF StatusOf, ClaimsOf, Ledger!RowStep, Ledger!Becomes
    <3>3. LedgerStep
      BY <2>1, <2>2, <3>1, <3>2
    <3>4. QueuedRowsAreUnclaimed'
      BY <3>1 DEF QueuedRowsAreUnclaimed, RowKept
    <3> QED
      BY <3>3, <3>4
  <2> QED
    BY <2>3, <2>4 DEF StepShape
<1>3. LedgerStep => [Ledger!Next]_<<StatusOf, ClaimsOf>>
  BY DEF Ledger!Next
<1> HIDE DEF LedgerStep
<1> QED
  BY <1>1, <1>2, <1>3, TypeCorrect, PTL DEF Spec, LedgerSpec, Ledger!Spec

=============================================================================
