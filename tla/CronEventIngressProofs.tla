----------------------- MODULE CronEventIngressProofs -----------------------
(***************************************************************************)
(* The invariants of CronEventIngress, for any processes, events, specs    *)
(* and settings.  The argument: only Accept writes the log and the runs'   *)
(* triggers; every other step is quiet, and moves runs away from queued.   *)
(* So a run that waits is the only one of its key, and once a later one    *)
(* has been created its trigger never changes again.                       *)
(***************************************************************************)
EXTENDS CronEventIngress, SequenceTheorems, TLAPS

\* A step that accepts nothing: runs are claimed, end or are cancelled.
Quiet ==
  /\ UNCHANGED <<log, received, outcome, trigger, due, covers>>
  /\ \A r \in Run : /\ status'[r] = "none" <=> status[r] = "none"
                    /\ status'[r] = "queued" => status[r] = "queued"

\* Type correctness, for every step.
LEMMA TypePreserved ==
  ASSUME TypeOK, [Next]_vars
  PROVE  TypeOK'
<1> USE SettingAssumption, TimeAssumption, EventAssumption
<1>1. ASSUME NEW p \in Process, NEW e \in Event, Deliver(p, e) PROVE TypeOK'
  BY <1>1 DEF TypeOK, Deliver, logVars, runVars, Time
<1>2. ASSUME NEW p \in Process, Duplicate(p) PROVE TypeOK'
  BY <1>2 DEF TypeOK, Duplicate, Handled, logVars, runVars, Time
<1>3. ASSUME NEW p \in Process, Accept(p) PROVE TypeOK'
  <2> DEFINE e == delivering[p]
             t == stamp[p]
  <2>0. e \in Event /\ t \in Time /\ t \in Nat
    BY <1>3 DEF TypeOK, Accept, IsNew, Time
  <2>1. log' \in Seq(Event)
    BY <1>3, <2>0 DEF TypeOK, Accept
  <2>2. outcome' \in [Event -> [SpecId -> {"none", "queued", "dedupe_window", "cooldown"}]]
    <3>1. \A s \in SpecId : (IF s \in Candidate(e) THEN Outcome(s, e, t) ELSE "none")
                              \in {"none", "queued", "dedupe_window", "cooldown"}
      BY DEF Outcome, Suppressed
    <3> HIDE DEF e, t
    <3>2. [s \in SpecId |-> IF s \in Candidate(e) THEN Outcome(s, e, t) ELSE "none"]
            \in [SpecId -> {"none", "queued", "dedupe_window", "cooldown"}]
      BY <3>1
    <3>3. outcome' = [outcome EXCEPT ![e] =
            [s \in SpecId |-> IF s \in Candidate(e) THEN Outcome(s, e, t) ELSE "none"]]
      BY <1>3 DEF Accept, e, t
    <3> QED BY <2>0, <3>2, <3>3 DEF TypeOK
  <2>3. due' \in [Run -> Nat]
    <3>1. \A r \in Run : PostponedUntil(r, t) \in Nat /\ t + Debounce[r[1]] \in Nat
      BY <2>0 DEF PostponedUntil, TypeOK, Run
    <3> QED BY <1>3, <2>0, <3>1 DEF TypeOK, Accept
  <2>4. status' \in [Run -> Status] /\ trigger' \in [Run -> Event]
        /\ covers' \in [Run -> SUBSET Event]
    BY <1>3, <2>0 DEF TypeOK, Accept, Status
  <2>5. /\ now' \in Time /\ spec' \in [SpecId -> {"on", "off", "removed"}]
        /\ delivering' \in [Process -> Event \cup {NoEvent}] /\ stamp' \in [Process -> Time]
        /\ received' \in [Event -> Time]
    BY <1>3, <2>0 DEF TypeOK, Accept, Handled, Time
  <2> QED BY <2>1, <2>2, <2>3, <2>4, <2>5 DEF TypeOK
<1>4. ASSUME NEW p \in Process, RolledBack(p) PROVE TypeOK'
  BY <1>4 DEF TypeOK, RolledBack, Handled, logVars, runVars, Time
<1>5. ASSUME NEW r \in Run, Claim(r) \/ Finish(r) PROVE TypeOK'
  BY <1>5 DEF TypeOK, Claim, Finish, processVars, logVars, Status
<1>6. ASSUME NEW s \in SpecId, Reconcile(s) PROVE TypeOK'
  BY <1>6 DEF TypeOK, Reconcile, processVars, logVars, runVars
<1>7. ASSUME NEW s \in SpecId, CancelQueued(s) PROVE TypeOK'
  BY <1>7 DEF TypeOK, CancelQueued, processVars, logVars, Status
<1>8. CASE Tick
  BY <1>8 DEF TypeOK, Tick, processVars, logVars, runVars, Time
<1>9. CASE UNCHANGED vars
  BY <1>9 DEF TypeOK, vars, processVars, logVars, runVars
<1> QED BY <1>1, <1>2, <1>3, <1>4, <1>5, <1>6, <1>7, <1>8, <1>9 DEF Next

\* Every step accepts an event or is quiet.
LEMMA QuietOrAccept ==
  ASSUME TypeOK, [Next]_vars
  PROVE  Quiet \/ \E p \in Process : Accept(p)
<1>1. ASSUME NEW p \in Process, NEW e \in Event, Deliver(p, e) PROVE Quiet
  BY <1>1 DEF Quiet, Deliver, logVars, runVars
<1>2. ASSUME NEW p \in Process, Duplicate(p) \/ RolledBack(p) PROVE Quiet
  BY <1>2 DEF Quiet, Duplicate, RolledBack, logVars, runVars
<1>3. ASSUME NEW r \in Run, Claim(r) \/ Finish(r) PROVE Quiet
  BY <1>3 DEF TypeOK, Quiet, Claim, Finish, logVars
<1>4. ASSUME NEW s \in SpecId, Reconcile(s) PROVE Quiet
  BY <1>4 DEF Quiet, Reconcile, logVars, runVars
<1>5. ASSUME NEW s \in SpecId, CancelQueued(s) PROVE Quiet
  BY <1>5 DEF TypeOK, Quiet, CancelQueued, logVars
<1>6. CASE Tick \/ UNCHANGED vars
  BY <1>6 DEF Quiet, Tick, vars, logVars, runVars
<1> QED BY <1>1, <1>2, <1>3, <1>4, <1>5, <1>6 DEF Next

-----------------------------------------------------------------------------
(* The invariant. *)

\* The key of a run: that of the event that created it, and of every event it covers.
RunKey(r) == KeyOf[r[2]]

\* A run waits only as long as no later run of its key has been created.
WaitingIsLast ==
  \A r, x \in Run :
    /\ r[1] = x[1] /\ Debounce[r[1]] > 0 /\ RunKey(r) = RunKey(x)
    /\ status[r] # "none" /\ status[x] # "none" /\ CreatedBefore(r, x)
    => status[r] # "queued"

\* A run is created by its trigger, which it keeps if there is no debounce.
OwnTrigger ==
  \A r \in Run : Debounce[r[1]] = 0 \/ status[r] = "none" => trigger[r] = r[2]

IInv == IngressInv /\ DebounceInv /\ WaitingIsLast /\ OwnTrigger /\ WindowInv

\* What is to be known of a run that exists.
LEMMA RunFacts ==
  ASSUME IInv, NEW r \in Run, status[r] # "none"
  PROVE  /\ r[1] \in SpecId /\ r[2] \in Event
         /\ trigger[r] \in Accepted /\ r[2] \in Accepted
         /\ KeyOf[trigger[r]] = RunKey(r)
         /\ covers[r] \subseteq Accepted
BY DEF IInv, IngressInv, OneRunCoversEach, RunKey, Run

\* A run of a spec that debounces is found by its key, if it waits.
LEMMA DebouncedIsQueued ==
  ASSUME IInv, NEW s \in SpecId, NEW e \in Event, Debounce[s] > 0
  PROVE  Debounced(s, e) = {r \in RunsOf(s) : status[r] = "queued" /\ RunKey(r) = KeyOf[e]}
<1> USE SettingAssumption
<1> DEFINE Q == {r \in RunsOf(s) : status[r] = "queued" /\ RunKey(r) = KeyOf[e]}
<1>1. QueuedFor(s, KeyOf[e]) = Q
  BY RunFacts DEF QueuedFor, RunsOf
<1>2. \A r, x \in Q : r = x
  BY DEF IInv, DebounceInv, OneQueuedPerKey, RunsOf, RunKey
<1>3. \A r \in Q : due[r] \in Nat
  BY DEF IInv, IngressInv, TypeOK, RunsOf
<1>4. LastDue(Q) = Q
  BY <1>2, <1>3 DEF LastDue
<1>5. Debounced(s, e) = LastDue(Q)
  BY <1>1 DEF Debounced
<1> QED BY <1>4, <1>5

-----------------------------------------------------------------------------
(* Steps. *)

LEMMA QuietPreserves ==
  ASSUME IInv, TypeOK', Quiet
  PROVE  IInv'
<1>1. /\ log' = log /\ received' = received /\ outcome' = outcome /\ trigger' = trigger
      /\ due' = due /\ covers' = covers
      /\ \A r \in Run : /\ status'[r] = "none" <=> status[r] = "none"
                        /\ status'[r] = "queued" => status[r] = "queued"
  BY DEF Quiet
<1>2. OneRunCoversEach'
  BY <1>1 DEF IInv, IngressInv, OneRunCoversEach, Accepted, RunsOf
<1>3. DebounceInv'
  BY <1>1 DEF IInv, DebounceInv, OneQueuedPerKey, DueAfterDebounce
<1>4. WaitingIsLast' /\ WindowInv'
  BY <1>1 DEF IInv, WaitingIsLast, WindowInv, CreatedBefore, RunKey
<1>5. OwnTrigger'
  BY <1>1 DEF IInv, OwnTrigger
<1> QED BY <1>2, <1>3, <1>4, <1>5 DEF IInv, IngressInv

\* What accepting event e with stamp t does.
LEMMA AcceptFacts ==
  ASSUME IInv, NEW p \in Process, Accept(p), NEW e, NEW t,
         e = delivering[p], t = stamp[p]
  PROVE  /\ e \in Event /\ e \notin Accepted /\ t \in Nat
         /\ log \in Seq(Event) /\ log' = Append(log, e)
         /\ Accepted' = Accepted \cup {e}
         /\ received'[e] = t
         /\ \A x \in Accepted : received'[x] = received[x]
         /\ \A s \in SpecId :
              outcome'[e][s] = IF s \in Candidate(e) THEN Outcome(s, e, t) ELSE "none"
         /\ \A x \in Event \ {e} : outcome'[x] = outcome[x]
         /\ \A r \in Created(e, t) :
              /\ r \in Run /\ r[2] = e /\ r[1] \in Candidate(e) /\ status[r] = "none"
              /\ status'[r] = "queued" /\ trigger'[r] = trigger[r]
              /\ due'[r] = t + Debounce[r[1]] /\ covers'[r] = {e}
         /\ \A r \in Postponed(e) :
              /\ r \in Run /\ status[r] = "queued" /\ r[2] # e /\ RunKey(r) = KeyOf[e]
              /\ r[1] \in Candidate(e) /\ Debounce[r[1]] > 0
              /\ status'[r] = "queued" /\ trigger'[r] = e
              /\ due'[r] = PostponedUntil(r, t) /\ covers'[r] = covers[r] \cup {e}
         /\ \A r \in Run \ (Created(e, t) \cup Postponed(e)) :
              /\ status'[r] = status[r] /\ trigger'[r] = trigger[r]
              /\ due'[r] = due[r] /\ covers'[r] = covers[r]
<1> USE SettingAssumption
<1>0. TypeOK
  BY DEF IInv, IngressInv
<1>1. e \in Event /\ e \notin Accepted /\ t \in Nat /\ log \in Seq(Event) /\ log' = Append(log, e)
  BY <1>0 DEF Accept, IsNew, TypeOK, Time
<1>2. Accepted' = Accepted \cup {e}
  <2>1. DOMAIN log' = DOMAIN log \cup {Len(log) + 1} /\ log'[Len(log) + 1] = e
        /\ \A i \in DOMAIN log : log'[i] = log[i]
    BY <1>1
  <2> QED BY <2>1 DEF Accepted
<1>3. received'[e] = t /\ \A x \in Accepted : received'[x] = received[x]
  BY <1>0, <1>1 DEF Accept, TypeOK, Accepted
<1>4. /\ \A s \in SpecId :
           outcome'[e][s] = IF s \in Candidate(e) THEN Outcome(s, e, t) ELSE "none"
      /\ \A x \in Event \ {e} : outcome'[x] = outcome[x]
  <2>1. outcome' = [outcome EXCEPT ![e] =
          [s \in SpecId |-> IF s \in Candidate(e) THEN Outcome(s, e, t) ELSE "none"]]
    BY DEF Accept
  <2> QED BY <1>0, <1>1, <2>1 DEF TypeOK
<1>5. /\ status' = [r \in Run |-> IF r \in Created(e, t) THEN "queued" ELSE status[r]]
      /\ trigger' = [r \in Run |-> IF r \in Postponed(e) THEN e ELSE trigger[r]]
      /\ due' = [r \in Run |->
           IF r \in Created(e, t) THEN t + Debounce[r[1]]
           ELSE IF r \in Postponed(e) THEN PostponedUntil(r, t) ELSE due[r]]
      /\ covers' = [r \in Run |-> IF r \in Created(e, t) \cup Postponed(e)
                                  THEN covers[r] \cup {e} ELSE covers[r]]
  BY DEF Accept
<1>6. \A r \in Created(e, t) : r \in Run /\ r[2] = e /\ r[1] \in Candidate(e)
                               /\ status[r] = "none" /\ covers[r] = {}
  BY <1>1, RunFacts DEF Created, IInv, IngressInv, OneRunCoversEach
<1>7. \A r \in Postponed(e) :
        /\ r \in Run /\ status[r] = "queued" /\ r[2] # e /\ RunKey(r) = KeyOf[e]
        /\ r[1] \in Candidate(e) /\ Debounce[r[1]] > 0
  <2> SUFFICES ASSUME NEW r \in Postponed(e)
               PROVE  /\ r \in Run /\ status[r] = "queued" /\ r[2] # e
                      /\ RunKey(r) = KeyOf[e]
                      /\ r[1] \in Candidate(e) /\ Debounce[r[1]] > 0
    OBVIOUS
  <2>1. r \in Run /\ r[1] \in Candidate(e) /\ r \in Debounced(r[1], e) /\ r[1] \in SpecId
    BY DEF Postponed, Run
  <2>2. Debounce[r[1]] > 0
    BY <2>1 DEF Debounced
  <2>3. status[r] = "queued" /\ RunKey(r) = KeyOf[e]
    BY <1>1, <2>1, <2>2, DebouncedIsQueued
  <2>4. r[2] # e
    BY <1>1, <2>1, <2>3, RunFacts
  <2> QED BY <2>1, <2>2, <2>3, <2>4
<1>8. Created(e, t) \cap Postponed(e) = {}
  BY <1>6, <1>7
<1> HIDE DEF Created, Postponed
<1>9. \A r \in Created(e, t) :
        /\ status'[r] = "queued" /\ trigger'[r] = trigger[r]
        /\ due'[r] = t + Debounce[r[1]] /\ covers'[r] = {e}
  BY <1>5, <1>6, <1>8
<1>10. \A r \in Postponed(e) :
         /\ status'[r] = "queued" /\ trigger'[r] = e
         /\ due'[r] = PostponedUntil(r, t) /\ covers'[r] = covers[r] \cup {e}
  BY <1>5, <1>7, <1>8
<1>11. \A r \in Run \ (Created(e, t) \cup Postponed(e)) :
         /\ status'[r] = status[r] /\ trigger'[r] = trigger[r]
         /\ due'[r] = due[r] /\ covers'[r] = covers[r]
  BY <1>5
<1> QED BY <1>1, <1>2, <1>3, <1>4, <1>6, <1>7, <1>9, <1>10, <1>11

\* The runs that come to cover e: one of each spec that answers queued.
LEMMA AcceptCovers ==
  ASSUME IInv, NEW p \in Process, Accept(p), NEW e, NEW t,
         e = delivering[p], t = stamp[p], NEW s \in SpecId
  PROVE  /\ outcome'[e][s] = "queued" <=> \E r \in RunsOf(s) : e \in covers'[r]
         /\ \A r, x \in RunsOf(s) : e \in covers'[r] /\ e \in covers'[x] => r = x
<1> DEFINE C == Created(e, t)
           P == Postponed(e)
<1>1. e \in Event /\ e \notin Accepted
  BY AcceptFacts
<1>2. \A r \in Run : e \in covers'[r] <=> r \in C \cup P
  <2>1. \A r \in Run : e \notin covers[r]
    BY <1>1, RunFacts DEF IInv, IngressInv, OneRunCoversEach
  <2> QED BY <2>1, AcceptFacts
<1>3. outcome'[e][s] = "queued" <=>
        s \in Candidate(e) /\ (Debounced(s, e) # {} \/ Suppressed(s, e, t) = "none")
  <2>1. outcome'[e][s] = IF s \in Candidate(e) THEN Outcome(s, e, t) ELSE "none"
    BY AcceptFacts
  <2> QED BY <2>1 DEF Outcome, Suppressed
<1>4. \A r \in RunsOf(s) :
        r \in C <=> r[2] = e /\ s \in Candidate(e) /\ Debounced(s, e) = {}
                    /\ Suppressed(s, e, t) = "none"
  BY DEF Created, RunsOf
<1>5. \A r \in RunsOf(s) : r \in P <=> s \in Candidate(e) /\ r \in Debounced(s, e)
  BY DEF Postponed, RunsOf
<1>6. Debounced(s, e) \subseteq RunsOf(s)
  BY DEF Debounced, LastDue, QueuedFor
<1>7. <<s, e>> \in RunsOf(s) /\ <<s, e>>[2] = e
  BY <1>1 DEF RunsOf, Run
<1>8. RunsOf(s) \subseteq Run
  BY DEF RunsOf
<1>9. ASSUME NEW r \in RunsOf(s), NEW x \in RunsOf(s), r \in C \cup P, x \in C \cup P
      PROVE  r = x
  <2>1. CASE r \in C
    BY <1>4, <1>5, <1>9, <2>1 DEF RunsOf, Run
  <2>2. CASE r \in P
    <3>1. x \in P
      BY <1>4, <1>5, <1>9, <2>2
    <3>2. \A y \in {r, x} : y \in Run /\ status[y] = "queued" /\ RunKey(y) = KeyOf[e]
                            /\ Debounce[y[1]] > 0
      BY <2>2, <3>1, AcceptFacts
    <3> QED BY <3>2 DEF IInv, DebounceInv, OneQueuedPerKey, RunsOf, RunKey
  <2> QED BY <1>9, <2>1, <2>2
<1> HIDE DEF C, P
<1>10. outcome'[e][s] = "queued" <=> \E r \in RunsOf(s) : r \in C \cup P
  BY <1>3, <1>4, <1>5, <1>6, <1>7
<1> QED BY <1>2, <1>8, <1>9, <1>10

LEMMA AcceptIngress ==
  ASSUME IInv, NEW p \in Process, Accept(p), NEW e, NEW t,
         e = delivering[p], t = stamp[p]
  PROVE  OneRunCoversEach' /\ OwnTrigger'
<1>0. OneRunCoversEach /\ TypeOK
  BY DEF IInv, IngressInv
<1>1. /\ e \in Event /\ e \notin Accepted /\ log \in Seq(Event) /\ log' = Append(log, e)
      /\ Accepted' = Accepted \cup {e}
  BY AcceptFacts
<1>2. \A i, j \in DOMAIN log' : log'[i] = log'[j] => i = j
  <2>1. DOMAIN log' = DOMAIN log \cup {Len(log) + 1} /\ log'[Len(log) + 1] = e
        /\ \A i \in DOMAIN log : log'[i] = log[i] /\ log[i] \in Accepted
    BY <1>1 DEF Accepted
  <2> QED BY <1>0, <1>1, <2>1 DEF OneRunCoversEach
<1>3. \A r \in Run : /\ covers[r] \subseteq covers'[r] /\ covers'[r] \subseteq covers[r] \cup {e}
                     /\ covers[r] \subseteq Accepted
  BY <1>0, AcceptFacts DEF OneRunCoversEach
<1>4. ASSUME NEW s \in SpecId, NEW x \in Event, x # e
      PROVE  /\ outcome'[x][s] = "queued" <=> \E r \in RunsOf(s) : x \in covers'[r]
             /\ \A r, y \in RunsOf(s) : x \in covers'[r] /\ x \in covers'[y] => r = y
  <2>1. outcome'[x][s] = outcome[x][s]
    BY <1>4, AcceptFacts
  <2>2. \A r \in RunsOf(s) : x \in covers'[r] <=> x \in covers[r]
    BY <1>3, <1>4 DEF RunsOf
  <2> QED BY <1>0, <2>1, <2>2 DEF OneRunCoversEach
<1>5. ASSUME NEW s \in SpecId, NEW x \in Event
      PROVE  /\ outcome'[x][s] = "queued" <=> \E r \in RunsOf(s) : x \in covers'[r]
             /\ \A r, y \in RunsOf(s) : x \in covers'[r] \cap covers'[y] => r = y
  BY <1>4, AcceptCovers
<1>6. ASSUME NEW r \in Run
      PROVE  /\ status'[r] = "none" <=> covers'[r] = {}
             /\ status'[r] # "none" => trigger'[r] \in covers'[r] /\ r[2] \in covers'[r]
             /\ \A x \in covers'[r] : /\ x \in Accepted' /\ x \in Matching[r[1]]
                                       /\ KeyOf[x] = KeyOf[r[2]]
  <2>1. CASE r \in Created(e, t)
    <3>1. r[2] = e /\ r[1] \in Candidate(e) /\ status'[r] = "queued" /\ covers'[r] = {e}
          /\ trigger'[r] = trigger[r]
      BY <2>1, AcceptFacts
    <3>2. trigger[r] = e
      BY <2>1, <3>1, AcceptFacts DEF IInv, OwnTrigger
    <3> QED BY <1>1, <3>1, <3>2 DEF Candidate
  <2>2. CASE r \in Postponed(e)
    <3>1. /\ status[r] = "queued" /\ RunKey(r) = KeyOf[e] /\ r[1] \in Candidate(e)
          /\ status'[r] = "queued" /\ trigger'[r] = e /\ covers'[r] = covers[r] \cup {e}
      BY <2>2, AcceptFacts
    <3> QED BY <1>0, <1>1, <3>1 DEF OneRunCoversEach, Candidate, RunKey
  <2>3. CASE r \notin Created(e, t) \cup Postponed(e)
    BY <1>0, <1>1, <2>3, AcceptFacts DEF OneRunCoversEach
  <2> QED BY <2>1, <2>2, <2>3
<1>7. OneRunCoversEach'
  BY <1>2, <1>5, <1>6 DEF OneRunCoversEach, RunsOf
<1>8. OwnTrigger'
  BY AcceptFacts DEF IInv, OwnTrigger
<1> QED BY <1>7, <1>8

LEMMA AcceptDebounce ==
  ASSUME IInv, NEW p \in Process, Accept(p), NEW e, NEW t,
         e = delivering[p], t = stamp[p]
  PROVE  DebounceInv'
<1> USE SettingAssumption
<1>0. TypeOK /\ DebounceInv /\ OneRunCoversEach
  BY DEF IInv, IngressInv
<1>1. e \in Event /\ e \notin Accepted /\ t \in Nat
  BY AcceptFacts
<1>2. ASSUME NEW r \in Run, NEW x \in Run, r[1] = x[1], Debounce[r[1]] > 0,
             RunKey(r) = RunKey(x), status'[r] = "queued", status'[x] = "queued"
      PROVE  r = x
  <2>1. \A y \in Run : \/ y \in Created(e, t) /\ y[2] = e
                       \/ y \notin Created(e, t) /\ status'[y] = status[y]
    BY AcceptFacts
  <2>2. ASSUME NEW y \in Run, NEW z \in Run, y[1] = z[1], Debounce[y[1]] > 0,
               RunKey(y) = RunKey(z), y \in Created(e, t), status[z] = "queued"
        PROVE  FALSE
    <3>1. y[1] \in SpecId /\ Debounced(y[1], e) = {} /\ RunKey(y) = KeyOf[e]
      BY <2>2 DEF Created, RunKey, Run
    <3>2. Debounced(y[1], e) =
            {q \in RunsOf(y[1]) : status[q] = "queued" /\ RunKey(q) = KeyOf[e]}
      BY <1>1, <2>2, <3>1, DebouncedIsQueued
    <3>3. z \in RunsOf(y[1]) /\ RunKey(z) = KeyOf[e]
      BY <2>2, <3>1 DEF RunsOf
    <3> QED BY <2>2, <3>1, <3>2, <3>3
  <2>3. CASE r \in Created(e, t) /\ x \in Created(e, t)
    BY <1>2, <2>1, <2>3 DEF Run
  <2>4. CASE r \notin Created(e, t) /\ x \notin Created(e, t)
    BY <1>0, <1>2, <2>1, <2>4 DEF DebounceInv, OneQueuedPerKey, RunKey
  <2> QED BY <1>2, <2>1, <2>2, <2>3, <2>4
<1>3. ASSUME NEW r \in Run, status'[r] # "none"
      PROVE  /\ \A x \in covers'[r] : due'[r] >= received'[x] + Debounce[r[1]]
             /\ \E x \in covers'[r] : due'[r] = received'[x] + Debounce[r[1]]
  <2>0. /\ received'[e] = t /\ \A x \in Accepted : received'[x] = received[x]
        /\ \A x \in Event : received[x] \in Nat
        /\ Debounce[r[1]] \in Nat /\ due[r] \in Nat
    BY <1>0, AcceptFacts DEF TypeOK, Time, Run
  <2>1. CASE r \in Created(e, t)
    <3>1. due'[r] = t + Debounce[r[1]] /\ covers'[r] = {e}
      BY <2>1, AcceptFacts
    <3> QED BY <2>0, <3>1, <1>1
  <2>2. CASE r \in Postponed(e)
    <3>1. /\ status[r] = "queued" /\ due'[r] = PostponedUntil(r, t)
          /\ covers'[r] = covers[r] \cup {e}
      BY <2>2, AcceptFacts
    <3>2. covers[r] \subseteq Accepted /\ covers[r] \subseteq Event
      BY <1>0, <3>1, RunFacts DEF TypeOK
    <3>3. /\ \A x \in covers[r] : due[r] >= received[x] + Debounce[r[1]]
          /\ \E x \in covers[r] : due[r] = received[x] + Debounce[r[1]]
      BY <1>0, <3>1 DEF DebounceInv, DueAfterDebounce
    <3>4. due'[r] = IF due[r] >= t + Debounce[r[1]] THEN due[r] ELSE t + Debounce[r[1]]
      BY <3>1 DEF PostponedUntil
    <3>5. \A x \in covers[r] : received'[x] = received[x] /\ received[x] \in Nat
      BY <2>0, <3>2
    <3> QED BY <1>1, <2>0, <3>1, <3>3, <3>4, <3>5
  <2>3. CASE r \notin Created(e, t) \cup Postponed(e)
    <3>1. status[r] # "none" /\ due'[r] = due[r] /\ covers'[r] = covers[r]
      BY <1>3, <2>3, AcceptFacts
    <3>2. covers[r] \subseteq Accepted
      BY <3>1, RunFacts
    <3> QED BY <1>0, <2>0, <3>1, <3>2 DEF DebounceInv, DueAfterDebounce
  <2> QED BY <2>1, <2>2, <2>3
<1>4. OneQueuedPerKey'
  BY <1>2 DEF OneQueuedPerKey, RunKey
<1>5. DueAfterDebounce'
  BY <1>3 DEF DueAfterDebounce
<1> QED BY <1>4, <1>5 DEF DebounceInv

\* Created before is read off the log, which only grows.
LEMMA AcceptOrder ==
  ASSUME IInv, NEW p \in Process, Accept(p), NEW e, NEW t,
         e = delivering[p], t = stamp[p],
         NEW r \in Run, NEW x \in Run, CreatedBefore(r, x)'
  PROVE  /\ r[2] # e
         /\ \/ x[2] = e
            \/ CreatedBefore(r, x)
<1>1. /\ e \notin Accepted /\ log \in Seq(Event) /\ log' = Append(log, e)
  BY AcceptFacts
<1>2. PICK i, j \in DOMAIN log' : i < j /\ log'[i] = r[2] /\ log'[j] = x[2]
  BY DEF CreatedBefore
<1>3. /\ DOMAIN log' = DOMAIN log \cup {Len(log) + 1} /\ log'[Len(log) + 1] = e
      /\ \A k \in DOMAIN log : log'[k] = log[k] /\ log[k] \in Accepted /\ k < Len(log) + 1
      /\ \A k \in DOMAIN log' : k \in Nat /\ k <= Len(log) + 1 /\ Len(log) \in Nat
  BY <1>1 DEF Accepted
<1>4. i \in DOMAIN log
  BY <1>2, <1>3
<1> QED BY <1>1, <1>2, <1>3, <1>4 DEF CreatedBefore

\* When x is created behind r, which debounces, r does not wait; and r is not postponed.
LEMMA AcceptBehind ==
  ASSUME IInv, NEW p \in Process, Accept(p), NEW e, NEW t,
         e = delivering[p], t = stamp[p],
         NEW r \in Run, NEW x \in Run, CreatedBefore(r, x)',
         r[1] = x[1], RunKey(r) = RunKey(x), status'[r] # "none", status'[x] # "none"
  PROVE  /\ status'[r] = status[r] /\ trigger'[r] = trigger[r] /\ status[r] # "none"
         /\ Debounce[r[1]] > 0 => status[r] # "queued"
         /\ \/ x \in Created(e, t) /\ x[2] = e
            \/ CreatedBefore(r, x) /\ x[2] \in Accepted /\ status[x] # "none"
<1>1. e \in Event /\ e \notin Accepted /\ r[1] \in SpecId /\ Debounce[r[1]] \in Nat
  <2>1. e \in Event /\ e \notin Accepted
    BY ONLY AcceptFacts, IInv, Accept(p), e = delivering[p], t = stamp[p]
  <2>2. r[1] \in SpecId
    BY ONLY r \in Run DEF Run
  <2>3. Debounce[r[1]] \in Nat
    BY ONLY <2>2, SettingAssumption
  <2> QED BY ONLY <2>1, <2>2, <2>3
<1>2. r[2] # e /\ (x[2] = e \/ CreatedBefore(r, x))
  BY AcceptOrder
<1>3. r \notin Created(e, t) /\ status'[r] = status[r] /\ status[r] # "none"
  BY <1>2, AcceptFacts
<1>4. Debounce[r[1]] > 0 => status[r] # "queued"
  <2> SUFFICES ASSUME Debounce[r[1]] > 0, status[r] = "queued" PROVE FALSE
    OBVIOUS
  <2>1. CASE x[2] = e
    <3>1. x \in Created(e, t)
      BY <1>1, <2>1, AcceptFacts, RunFacts
    <3>2. Debounced(r[1], e) = {} /\ RunKey(r) = KeyOf[e]
      BY <2>1, <3>1 DEF Created, RunKey
    <3>3. Debounced(r[1], e) =
            {q \in RunsOf(r[1]) : status[q] = "queued" /\ RunKey(q) = KeyOf[e]}
      BY <1>1, DebouncedIsQueued
    <3> QED BY <3>2, <3>3 DEF RunsOf
  <2>2. CASE x[2] # e
    <3>1. CreatedBefore(r, x) /\ status[x] # "none"
      BY <1>2, <2>2, AcceptFacts
    <3> QED BY <1>3, <3>1 DEF IInv, WaitingIsLast
  <2> QED BY <2>1, <2>2
<1>5. trigger'[r] = trigger[r]
  BY <1>3, <1>4, AcceptFacts
<1>6. CASE x[2] = e
  <2>1. x \in Created(e, t)
    BY <1>1, <1>6, AcceptFacts, RunFacts
  <2> QED BY <1>3, <1>4, <1>5, <1>6, <2>1
<1>7. CASE x[2] # e
  <2>1. CreatedBefore(r, x) /\ status[x] # "none"
    BY <1>2, <1>7, AcceptFacts
  <2>2. x[2] \in Accepted
    BY <2>1, RunFacts
  <2> QED BY <1>3, <1>4, <1>5, <2>1, <2>2
<1> QED BY <1>6, <1>7

LEMMA AcceptWindow ==
  ASSUME IInv, NEW p \in Process, Accept(p)
  PROVE  WaitingIsLast' /\ WindowInv'
<1> DEFINE e == delivering[p]
           t == stamp[p]
<1>1. WaitingIsLast'
  <2> SUFFICES ASSUME NEW r \in Run, NEW x \in Run, r[1] = x[1], Debounce[r[1]] > 0,
                      RunKey(r) = RunKey(x), status'[r] # "none", status'[x] # "none",
                      CreatedBefore(r, x)'
               PROVE  status'[r] # "queued"
    BY DEF WaitingIsLast, RunKey
  <2> QED BY AcceptBehind
<1>2. WindowInv'
  <2> SUFFICES ASSUME NEW r \in Run, NEW x \in Run, r[1] = x[1], Window[r[1]] > 0,
                      RunKey(r) = RunKey(x), status'[r] # "none", status'[x] # "none",
                      CreatedBefore(r, x)', Debounce[r[1]] > 0 \/ trigger'[r] = r[2]
               PROVE  received'[trigger'[r]] + Window[r[1]] < received'[x[2]]
    BY DEF WindowInv, RunKey
  <2> HIDE DEF e, t
  <2>0. e = delivering[p] /\ t = stamp[p]
    BY DEF e, t
  <2>1. /\ trigger'[r] = trigger[r] /\ status[r] # "none"
        /\ \/ x \in Created(e, t) /\ x[2] = e
           \/ CreatedBefore(r, x) /\ x[2] \in Accepted /\ status[x] # "none"
    BY <2>0, AcceptBehind
  <2>2. /\ trigger[r] \in Accepted /\ trigger[r] \in Event
        /\ KeyOf[trigger[r]] = RunKey(r) /\ r[1] \in SpecId
    BY <2>1, RunFacts DEF IInv, IngressInv, TypeOK, Run
  <2>3. /\ received'[e] = t /\ t \in Nat
        /\ \A y \in Accepted : received'[y] = received[y]
        /\ received[trigger[r]] \in Nat /\ Window[r[1]] \in Nat
    BY <2>0, <2>2, AcceptFacts, SettingAssumption DEF IInv, IngressInv, TypeOK, Time
  <2>4. CASE x \in Created(e, t) /\ x[2] = e
    <3>1. Suppressed(r[1], e, t) = "none" /\ RunKey(r) = KeyOf[e]
      BY <2>4 DEF Created, RunKey
    <3>2. ~RecentForDedupe(r[1], e, t)
      BY <3>1 DEF Suppressed
    <3>3. ~(received[trigger[r]] + Window[r[1]] >= t)
      BY <2>1, <2>2, <3>1, <3>2 DEF RecentForDedupe, RunsOf
    <3> QED BY <2>1, <2>2, <2>3, <2>4, <3>3
  <2>5. CASE CreatedBefore(r, x) /\ x[2] \in Accepted /\ status[x] # "none"
    <3>1. received[trigger[r]] + Window[r[1]] < received[x[2]]
      BY <2>1, <2>5 DEF IInv, WindowInv, RunKey
    <3> QED BY <2>1, <2>2, <2>3, <2>5, <3>1
  <2> QED BY <2>1, <2>4, <2>5
<1> QED BY <1>1, <1>2

-----------------------------------------------------------------------------
(* Suppression. *)

LEMMA AcceptSuppresses ==
  ASSUME IInv, SuppressedForCause, NEW p \in Process, Accept(p)
  PROVE  SuppressedForCause'
<1> DEFINE e == delivering[p]
           t == stamp[p]
<1>0. e = delivering[p] /\ t = stamp[p]
  OBVIOUS
<1> HIDE DEF e, t
<1>1. TypeOK /\ OneRunCoversEach
  BY DEF IInv, IngressInv
<1>2. /\ e \in Event /\ e \notin Accepted /\ received'[e] = t
      /\ \A x \in Accepted : received'[x] = received[x]
  BY <1>0, AcceptFacts
<1>3. \A x \in Event \ {e} : received'[x] = received[x]
  BY <1>0, <1>1, <1>2 DEF Accept, TypeOK
<1>4. \A r \in Run : covers[r] \subseteq covers'[r] /\ covers[r] \subseteq Accepted
  BY <1>0, <1>1, AcceptFacts DEF OneRunCoversEach
<1>5. ASSUME NEW s \in SpecId, NEW r \in RunsOf(s), status[r] # "none"
      PROVE  \E x \in covers'[r] :
               /\ x # e /\ KeyOf[x] = KeyOf[trigger[r]]
               /\ received'[x] = received[trigger[r]]
  <2>1. trigger[r] \in covers[r] /\ r \in Run
    BY <1>1, <1>5 DEF OneRunCoversEach, RunsOf
  <2> QED BY <1>2, <1>4, <2>1
<1>6. ASSUME NEW s \in SpecId
      PROVE  /\ outcome'[e][s] = "dedupe_window" => \E r \in RunsOf(s) : \E x \in covers'[r] :
                  x # e /\ KeyOf[x] = KeyOf[e] /\ received'[x] + Window[s] >= received'[e]
             /\ outcome'[e][s] = "cooldown" => \E r \in RunsOf(s) : \E x \in covers'[r] :
                  x # e /\ received'[x] + Cooldown[s] >= received'[e]
  <2>1. outcome'[e][s] = IF s \in Candidate(e) THEN Outcome(s, e, t) ELSE "none"
    BY <1>0, AcceptFacts
  <2>2. ASSUME outcome'[e][s] = "dedupe_window"
        PROVE  RecentForDedupe(s, e, t)
    BY <2>1, <2>2 DEF Outcome, Suppressed
  <2>3. ASSUME outcome'[e][s] = "cooldown"
        PROVE  RecentForSpec(s, t)
    BY <2>1, <2>3 DEF Outcome, Suppressed
  <2>4. ASSUME RecentForDedupe(s, e, t)
        PROVE  \E r \in RunsOf(s) : \E x \in covers'[r] :
                 x # e /\ KeyOf[x] = KeyOf[e] /\ received'[x] + Window[s] >= received'[e]
    <3>1. PICK r \in RunsOf(s) : status[r] # "none" /\ KeyOf[trigger[r]] = KeyOf[e]
                                 /\ received[trigger[r]] + Window[s] >= t
      BY <2>4 DEF RecentForDedupe
    <3> QED BY <1>2, <1>5, <3>1
  <2>5. ASSUME RecentForSpec(s, t)
        PROVE  \E r \in RunsOf(s) : \E x \in covers'[r] :
                 x # e /\ received'[x] + Cooldown[s] >= received'[e]
    <3>1. PICK r \in RunsOf(s) : status[r] # "none" /\ received[trigger[r]] + Cooldown[s] >= t
      BY <2>5 DEF RecentForSpec
    <3> QED BY <1>2, <1>5, <3>1
  <2> QED BY <2>2, <2>3, <2>4, <2>5
<1>7. ASSUME NEW y \in Event, y # e, NEW s \in SpecId
      PROVE  /\ outcome'[y][s] = "dedupe_window" => \E r \in RunsOf(s) : \E x \in covers'[r] :
                  x # y /\ KeyOf[x] = KeyOf[y] /\ received'[x] + Window[s] >= received'[y]
             /\ outcome'[y][s] = "cooldown" => \E r \in RunsOf(s) : \E x \in covers'[r] :
                  x # y /\ received'[x] + Cooldown[s] >= received'[y]
  <2>1. outcome'[y] = outcome[y] /\ received'[y] = received[y]
    BY <1>0, <1>3, <1>7, AcceptFacts
  <2>2. \A r \in RunsOf(s), x \in Event :
          x \in covers[r] => x \in covers'[r] /\ received'[x] = received[x]
    BY <1>2, <1>4 DEF RunsOf
  <2>3. \A r \in RunsOf(s) : covers[r] \subseteq Event
    BY <1>1 DEF TypeOK, RunsOf
  <2> QED BY <2>1, <2>2, <2>3 DEF SuppressedForCause
<1> QED BY <1>6, <1>7 DEF SuppressedForCause, RunsOf

LEMMA SuppressionKept ==
  ASSUME IInv, SuppressedForCause, [Next]_vars
  PROVE  SuppressedForCause'
<1>1. CASE Quiet
  BY <1>1 DEF Quiet, SuppressedForCause, RunsOf
<1> QED BY <1>1, QuietOrAccept, AcceptSuppresses DEF IInv, IngressInv

-----------------------------------------------------------------------------
(* The theorems. *)

LEMMA Initially == Init => IInv
<1> USE SettingAssumption, TimeAssumption
<1> SUFFICES ASSUME Init PROVE IInv
  OBVIOUS
<1>1. TypeOK
  BY DEF Init, TypeOK, Time, Status, Run
<1>2. OneRunCoversEach
  BY DEF Init, OneRunCoversEach, Run, RunsOf
<1>3. DebounceInv /\ WaitingIsLast /\ OwnTrigger /\ WindowInv
  BY DEF Init, DebounceInv, OneQueuedPerKey, DueAfterDebounce, WaitingIsLast, OwnTrigger,
         WindowInv
<1> QED BY <1>1, <1>2, <1>3 DEF IInv, IngressInv

LEMMA Inductive ==
  ASSUME IInv, [Next]_vars
  PROVE  IInv'
<1>1. TypeOK'
  BY TypePreserved DEF IInv, IngressInv
<1>2. CASE Quiet
  BY <1>1, <1>2, QuietPreserves
<1>3. ASSUME NEW p \in Process, Accept(p) PROVE IInv'
  BY <1>1, <1>3, AcceptIngress, AcceptDebounce, AcceptWindow DEF IInv, IngressInv
<1> QED BY <1>2, <1>3, QuietOrAccept DEF IInv, IngressInv

\* Whatever processes deliver, again and in whatever order, an event that is reported
\* as queued for a spec is covered by exactly one run of it, and by none otherwise.
THEOREM EventsAreCoveredOnce == Spec => []IngressInv
<1>1. IInv => IngressInv
  BY DEF IInv
<1> QED BY <1>1, Initially, Inductive, PTL DEF Spec

\* At most one run of a key waits, until the debounce of all it covers is over.
THEOREM DebouncePostpones == Spec => []DebounceInv
<1>1. IInv => DebounceInv
  BY DEF IInv
<1> QED BY <1>1, Initially, Inductive, PTL DEF Spec

\* No run is created within the window of an earlier one of its key.
THEOREM WindowIsKept == Spec => []WindowInv
<1>1. IInv => WindowInv
  BY DEF IInv
<1> QED BY <1>1, Initially, Inductive, PTL DEF Spec

\* No event is dropped for the window or the cooldown but for a run that covers one
\* of the time before it.
THEOREM DropsHaveCause == Spec => []SuppressedForCause
<1>1. Init => SuppressedForCause
  BY DEF Init, SuppressedForCause
<1>2. IInv /\ SuppressedForCause /\ [Next]_vars => SuppressedForCause'
  BY SuppressionKept
<1> QED BY <1>1, <1>2, Initially, Inductive, PTL DEF Spec

\* Every accepted event that matches a spec is covered by one run, or was dropped for
\* cause (ingestEvent), for any number of events, specs and processes.
THEOREM EventsAreAccountedFor == Spec => []CoverageInv
<1>1. IngressInv /\ SuppressedForCause => CoverageInv
  BY DEF CoverageInv
<1> QED BY <1>1, EventsAreCoveredOnce, DropsHaveCause, PTL

\* What becomes of a run in a step is a step of its row in the ledger.
LEMMA RunSteps ==
  ASSUME IInv, [Next]_vars, NEW r \in Run
  PROVE  \/ status'[r] = status[r]
         \/ status[r] = "none" /\ status'[r] = "queued"
         \/ status[r] = "queued" /\ status'[r] \in {"running", "cancelled"}
         \/ status[r] = "running" /\ status'[r] = "ended"
<1> USE DEF IInv, IngressInv, TypeOK
<1>1. ASSUME NEW p \in Process, NEW e \in Event, Deliver(p, e) PROVE UNCHANGED status
  BY <1>1 DEF Deliver, runVars
<1>2. ASSUME NEW p \in Process, Duplicate(p) \/ RolledBack(p) PROVE UNCHANGED status
  BY <1>2 DEF Duplicate, RolledBack, runVars
<1>3. ASSUME NEW p \in Process, Accept(p)
      PROVE  status'[r] = status[r] \/ (status[r] = "none" /\ status'[r] = "queued")
  <2>1. PICK e, t : e = delivering[p] /\ t = stamp[p]
    OBVIOUS
  <2>2. /\ r \in Created(e, t) => status[r] = "none" /\ status'[r] = "queued"
        /\ r \in Postponed(e) => status[r] = "queued" /\ status'[r] = "queued"
        /\ r \notin Created(e, t) \cup Postponed(e) => status'[r] = status[r]
    BY <1>3, <2>1, AcceptFacts
  <2> QED
    BY <2>2
<1>4. ASSUME NEW x \in Run, Claim(x)
      PROVE  status'[r] = status[r]
             \/ (status[r] = "queued" /\ status'[r] \in {"running", "cancelled"})
  <2>1. x \in Run /\ status \in [Run -> Status] /\ status[x] = "queued"
    BY <1>4 DEF Claim
  <2>2. PICK s \in {"running", "cancelled"} : status' = [status EXCEPT ![x] = s]
    BY <1>4 DEF Claim
  <2> QED
    BY <2>1, <2>2
<1>5. ASSUME NEW x \in Run, Finish(x)
      PROVE  status'[r] = status[r] \/ (status[r] = "running" /\ status'[r] = "ended")
  BY <1>5 DEF Finish
<1>6. ASSUME NEW s \in SpecId, Reconcile(s) PROVE UNCHANGED status
  BY <1>6 DEF Reconcile, runVars
<1>7. ASSUME NEW s \in SpecId, CancelQueued(s)
      PROVE  status'[r] = status[r] \/ (status[r] = "queued" /\ status'[r] = "cancelled")
  BY <1>7 DEF CancelQueued
<1>8. CASE Tick \/ UNCHANGED vars
  BY <1>8 DEF Tick, vars, runVars
<1> QED
  BY <1>1, <1>2, <1>3, <1>4, <1>5, <1>6, <1>7, <1>8 DEF Next

\* The rows of event runs behave as those of every other run do: queued once, claimed
\* after that, and with one outcome.
THEOREM EventRowsRefineLedger == Spec => LedgerSpec
<1> DEFINE LedgerStep == \A r \in Run : Ledger!RowStep(r)
<1>1. Init => Ledger!Init
  BY DEF Init, Ledger!Init, LedgerStatus, LedgerClaims
<1>2. IInv /\ [Next]_vars => LedgerStep
  <2> SUFFICES ASSUME IInv, [Next]_vars, NEW r \in Run PROVE Ledger!RowStep(r)
    OBVIOUS
  <2>1. CASE status'[r] = status[r]
    BY <2>1 DEF LedgerStatus, LedgerClaims, Ledger!RowStep, Ledger!Becomes
  <2>2. CASE status[r] = "none" /\ status'[r] = "queued"
    BY <2>2 DEF LedgerStatus, LedgerClaims, Ledger!RowStep, Ledger!Becomes
  <2>3. CASE status[r] = "queued" /\ status'[r] = "cancelled"
    BY <2>3 DEF LedgerStatus, LedgerClaims, Ledger!RowStep, Ledger!Becomes
  <2>4. CASE status[r] = "queued" /\ status'[r] = "running"
    BY <2>4 DEF LedgerStatus, LedgerClaims, Ledger!RowStep, Ledger!ClaimedAs
  <2>5. CASE status[r] = "running" /\ status'[r] = "ended"
    BY <2>5 DEF LedgerStatus, LedgerClaims, Ledger!RowStep, Ledger!Becomes, Ledger!Outcome
  <2> QED
    BY <2>1, <2>2, <2>3, <2>4, <2>5, RunSteps
<1>3. LedgerStep => [Ledger!Next]_<<LedgerStatus, LedgerClaims>>
  BY DEF Ledger!Next
<1> HIDE DEF LedgerStep
<1> QED
  BY <1>1, <1>2, <1>3, Initially, Inductive, PTL DEF Spec, LedgerSpec, Ledger!Spec

=============================================================================
