------------------------- MODULE SessionTurnsProofs -------------------------
(***************************************************************************)
(* Theorems about the turns of a session, for any number of clients and    *)
(* prompts, any failures and any number of gestures.                       *)
(***************************************************************************)
EXTENDS SessionTurns, SequenceTheorems, WellFoundedInduction, TLAPS

-----------------------------------------------------------------------------
(* The queue operations keep the queue a sequence of entries. *)

LEMMA RemoveAtType ==
  ASSUME NEW S, NEW q \in Seq(S), NEW i \in DOMAIN q
  PROVE  /\ RemoveAt(q, i) \in Seq(S)
         /\ Len(RemoveAt(q, i)) = Len(q) - 1
<1> DEFINE before == SubSeq(q, 1, i - 1)
           after == SubSeq(q, i + 1, Len(q))
<1>1. i \in 1 .. Len(q) /\ Len(q) \in Nat
  OBVIOUS
<1>2. before \in Seq(S) /\ Len(before) = i - 1
  BY <1>1, SubSeqProperties
<1>3. after \in Seq(S) /\ Len(after) = Len(q) - i
  BY <1>1, SubSeqProperties
<1>4. RemoveAt(q, i) = before \o after
  BY DEF RemoveAt
<1> HIDE DEF before, after
<1>5. before \o after \in Seq(S) /\ Len(before \o after) = Len(before) + Len(after)
  BY <1>2, <1>3, ConcatProperties
<1> QED
  BY <1>1, <1>2, <1>3, <1>4, <1>5

LEMMA InsertAtType ==
  ASSUME NEW S, NEW q \in Seq(S), NEW i \in 1 .. Len(q) + 1, NEW x \in S
  PROVE  InsertAt(q, i, x) \in Seq(S)
<1>1. Len(q) \in Nat
  OBVIOUS
<1>2. SubSeq(q, 1, i - 1) \in Seq(S)
  BY <1>1, SubSeqProperties
<1>3. SubSeq(q, i, Len(q)) \in Seq(S)
  BY <1>1, SubSeqProperties
<1>4. <<x>> \in Seq(S)
  OBVIOUS
<1>5. SubSeq(q, 1, i - 1) \o <<x>> \in Seq(S)
  BY <1>2, <1>4, ConcatProperties
<1> QED
  BY <1>3, <1>5, ConcatProperties DEF InsertAt

(* The less-than relation of the natural numbers, as a set of pairs. *)
LEMMA LessIsWellFounded ==
  \E R : IsWellFoundedOn(R, Nat) /\ \A i, j \in Nat : i < j => <<i, j>> \in R
<1> DEFINE Less == OpToRel(<, Nat)
<1>1. IsWellFoundedOn(Less, Nat)
  BY NatLessThanWellFounded
<1>2. \A i, j \in Nat : i < j => <<i, j>> \in Less
  BY DEF OpToRel
<1> QED
  BY <1>1, <1>2, Zenon

(* Of several entries with one text there is a first. *)
LEMMA LeastOf ==
  ASSUME NEW S, S \subseteq Nat, S # {}
  PROVE  \E i \in S : \A j \in S : i <= j
<1>1. PICK R : IsWellFoundedOn(R, Nat) /\ \A i, j \in Nat : i < j => <<i, j>> \in R
  BY LessIsWellFounded
<1>2. IsWellFoundedOn(R, Nat)
  BY <1>1
<1>3. \E i \in S : \A j \in S : ~(<<j, i>> \in R)
  BY <1>2, WFMin, Zenon
<1>4. PICK i \in S : \A j \in S : <<j, i>> \notin R
  BY <1>3
<1>5. \A j \in S : i \in Nat /\ j \in Nat /\ ~(j < i)
  BY <1>1, <1>4
<1>6. \A j \in S : i <= j
  BY <1>5
<1> QED
  BY <1>6

LEMMA PlacedType ==
  ASSUME NEW x \in Entry, NEW q \in Seq(Entry)
  PROVE  Placed(x, q) \in Seq(Entry)
<1>1. <<x>> \in Seq(Entry)
  OBVIOUS
<1>2. <<x>> \o q \in Seq(Entry) /\ Append(q, x) \in Seq(Entry)
  BY <1>1, ConcatProperties, AppendProperties
<1> QED
  BY <1>2 DEF Placed

(* What enqueue does: the call gets an entry of its own, or joins the entry that
   has its text, which moves and keeps its other calls. *)
Joined(q, c, i, x) ==
  /\ q[i].text = TextOf[c]
  /\ x = [q[i] EXCEPT !.calls = q[i].calls \cup {c}, !.delivery = x.delivery]
  /\ x.delivery \in {"queue", "steer"}

LEMMA EnqueuedCases ==
  ASSUME NEW q \in Seq(Entry), NEW c \in Client, NEW delivery \in {"auto", "queue", "steer"}
  PROVE  \/ /\ \A i \in DOMAIN q : q[i].text # TextOf[c]
            /\ Enqueued(q, c, delivery) = Placed(NewEntry(c, delivery), q)
         \/ \E i \in DOMAIN q, x \in Entry :
              Joined(q, c, i, x) /\ Enqueued(q, c, delivery) = Placed(x, RemoveAt(q, i))
<1> DEFINE same == {i \in DOMAIN q : q[i].text = TextOf[c]}
           first == CHOOSE i \in same : \A j \in same : i <= j
           next == [q[first] EXCEPT !.calls = q[first].calls \cup {c},
                                    !.delivery = IF delivery = "steer" THEN "steer"
                                                 ELSE q[first].delivery]
<1>1. CASE same = {}
  BY <1>1 DEF Enqueued
<1>2. CASE same # {}
  <2>1. same \subseteq Nat
    OBVIOUS
  <2> HIDE DEF same
  <2>2. first \in same
    BY <1>2, <2>1, LeastOf
  <2>3. first \in DOMAIN q /\ q[first].text = TextOf[c]
    BY <2>2 DEF same
  <2>4. Enqueued(q, c, delivery) = Placed(next, RemoveAt(q, first))
    BY <1>2 DEF Enqueued, same
  <2> HIDE DEF first
  <2>5. q[first] \in Entry
    BY <2>3
  <2>6. next \in Entry
    BY <2>5 DEF Entry
  <2>7. Joined(q, c, first, next)
    BY <2>3, <2>5 DEF Joined, Entry
  <2> QED
    BY <2>3, <2>4, <2>6, <2>7
<1> QED
  BY <1>1, <1>2

LEMMA EnqueuedType ==
  ASSUME NEW q \in Seq(Entry), NEW c \in Client, NEW delivery \in {"auto", "queue", "steer"}
  PROVE  Enqueued(q, c, delivery) \in Seq(Entry)
<1>1. NewEntry(c, delivery) \in Entry
  BY TextAssumption DEF NewEntry, Entry
<1>2. CASE Enqueued(q, c, delivery) = Placed(NewEntry(c, delivery), q)
  BY <1>1, <1>2, PlacedType
<1>3. ASSUME NEW i \in DOMAIN q, NEW x \in Entry,
             Enqueued(q, c, delivery) = Placed(x, RemoveAt(q, i))
      PROVE  Enqueued(q, c, delivery) \in Seq(Entry)
  BY <1>3, RemoveAtType, PlacedType
<1> QED
  BY <1>2, <1>3, EnqueuedCases

(* What update does: the entry moves to the front or the back, or is replaced
   where it stands. *)
Edited(x, text, delivery) ==
  [x EXCEPT !.text = text, !.delivery = delivery,
            !.reworded = x.reworded \/ text # x.text]

LEMMA UpdatedType ==
  ASSUME NEW q \in Seq(Entry), NEW i \in DOMAIN q, NEW text \in Text,
         NEW delivery \in {"queue", "steer"}
  PROVE  Updated(q, i, text, delivery) \in Seq(Entry)
<1> DEFINE next == Edited(q[i], text, delivery)
           rest == RemoveAt(q, i)
<1>1. next \in Entry
  <2>1. q[i] \in Entry
    OBVIOUS
  <2> QED
    BY <2>1 DEF Entry, Edited
<1>2. rest \in Seq(Entry)
  BY RemoveAtType
<1>3. Len(rest) = Len(q) - 1
  BY RemoveAtType
<1>4. i \in 1 .. Len(rest) + 1
  BY <1>3
<1> HIDE DEF next, rest
<1>5. Placed(next, rest) \in Seq(Entry)
  BY <1>1, <1>2, PlacedType
<1>6. InsertAt(rest, i, next) \in Seq(Entry)
  BY <1>1, <1>2, <1>4, InsertAtType
<1>7. Updated(q, i, text, delivery) \in {Placed(next, rest), InsertAt(rest, i, next)}
  BY DEF Updated, Edited, next, rest
<1> QED
  BY <1>5, <1>6, <1>7

-----------------------------------------------------------------------------
(* Type correctness. *)

(* The end of a run releases a shutdown that waits for it and nothing else.  *)
LEMMA RunSettlesType ==
  ASSUME TypeOK, NEW c \in Call, NEW b \in BOOLEAN, RunSettles(c, b)
  PROVE  /\ activeRun' \in Call \cup {NoCall}
         /\ teardown' \in [Closer -> {"none", "flushing", "awaiting", "releasing", "done"}]
         /\ shutdownCalled' \in BOOLEAN
BY DEF TypeOK, RunSettles

(* Every step of clients, turns and shutdowns keeps the session, its queue and
   its agent in their domains. *)
THEOREM TurnsTypeCorrect == Spec => []TypeOK
<1> USE CallAssumption, TextAssumption, FaultAssumption, GestureAssumption
<1> USE DEF TypeOK, sessionVars, agentVars, callVars, logVars, Call, Closer,
            Finish, Phase, InFlight, InRun, Holding
<1>1. Init => TypeOK
  <2>1. <<>> \in Seq(Entry) /\ Len(<<>>) = 0
    BY EmptySeq
  <2> SUFFICES ASSUME Init PROVE TypeOK
    OBVIOUS
  <2>2. /\ pending \in Seq(Entry)
        /\ drained \in Seq(Entry) /\ Len(drained) <= 1
    BY <2>1 DEF Init
  <2>3. gestures \in 0 .. MaxGestures
    BY DEF Init
  <2>4. /\ phase \in [Call -> Phase]
        /\ result \in [Call -> Finish \cup {"none", "refused", "thrown"}]
        /\ teardown \in [Closer -> {"none", "flushing", "awaiting", "releasing", "done"}]
        /\ awaited \in [Closer -> Call \cup {NoCall}]
    BY DEF Init
  <2> HIDE DEF Entry
  <2> QED
    BY <2>2, <2>3, <2>4 DEF Init
<1>2. TypeOK /\ [Next]_vars => TypeOK'
  <2> SUFFICES ASSUME TypeOK, [Next]_vars PROVE TypeOK'
    OBVIOUS
  <2>1. CASE UNCHANGED vars
    BY <2>1 DEF vars
  <2>2. CASE DrainStep
    <3>1. CASE pending # <<>>
      <4>1. Tail(pending) \in Seq(Entry) /\ Head(pending) \in Entry
        BY <3>1, HeadTailProperties
      <4>2. <<Head(pending)>> \in Seq(Entry) /\ Len(<<Head(pending)>>) <= 1
        BY <4>1
      <4>3. Head(pending).calls \subseteq Client
        BY <4>1 DEF Entry
      <4> HIDE DEF Entry
      <4>4. pending' \in Seq(Entry) /\ submitted' \subseteq Client
        BY <2>2, <4>1, <4>3 DEF DrainStep
      <4>5. drained' \in Seq(Entry) /\ Len(drained') <= 1
        BY <2>2, <4>2 DEF DrainStep
      <4> QED
        BY <2>2, <4>4, <4>5 DEF DrainStep
    <3>2. CASE pending = <<>>
      BY <2>2, <3>2 DEF DrainStep
    <3> QED
      BY <3>1, <3>2
  <2>3. ASSUME NEW c \in Client, Send(c) PROVE TypeOK'
    <3>1. CASE RunTurnGone(c)
      BY <3>1 DEF RunTurnGone
    <3>2. CASE RunTurnNow(c)
      BY <3>2 DEF RunTurnNow
    <3>3. ASSUME NEW d \in {"auto", "queue", "steer"}, RunTurnQueued(c, d) PROVE TypeOK'
      <4>1. pending' \in Seq(Entry)
        BY <3>3, EnqueuedType DEF RunTurnQueued
      <4> QED
        BY <3>3, <4>1 DEF RunTurnQueued, ScheduleDrain
    <3> QED
      BY <2>3, <3>1, <3>2, <3>3 DEF Send
  <2>4. ASSUME NEW c \in Call, TurnStep(c) PROVE TypeOK'
    <3>1. CASE PrepareFailed(c)
      BY <3>1 DEF PrepareFailed, Fault
    <3>2. CASE Begin(c)
      BY <3>2 DEF Begin
    <3>3. CASE SetupDone(c)
      BY <3>3 DEF SetupDone
    <3>4. CASE SetupFailed(c)
      BY <3>4, RunSettlesType DEF SetupFailed, Fault
    <3>5. ASSUME NEW f \in Finish, TurnEnds(c, f) PROVE TypeOK'
      BY <3>5, RunSettlesType DEF TurnEnds, Free
    <3>6. CASE TurnThrows(c)
      BY <3>6, RunSettlesType DEF TurnThrows, Fault, Free
    <3>7. CASE AuthFailed(c)
      BY <3>7 DEF AuthFailed, Fault, Free
    <3>8. CASE RetryRun(c)
      BY <3>8, RunSettlesType DEF RetryRun
    <3>9. CASE RefreshFailed(c)
      BY <3>9, RunSettlesType DEF RefreshFailed
    <3>10. CASE Settle(c)
      <4>1. drained' \in Seq(Entry) /\ Len(drained') <= 1
        BY <3>10 DEF Settle, Leave
      <4> QED
        BY <3>10, <4>1 DEF Settle, Leave
    <3>11. CASE Raise(c)
      BY <3>11 DEF Raise, ShutdownBegins, AgentAbort
    <3> QED
      BY <2>4, <3>1, <3>2, <3>3, <3>4, <3>5, <3>6, <3>7, <3>8, <3>9, <3>10, <3>11
      DEF TurnStep
  <2>5. ASSUME NEW c \in Call, ConsumeSteer(c) PROVE TypeOK'
    <3>1. PICK i \in DOMAIN pending :
            /\ pending' = RemoveAt(pending, i)
            /\ submitted' = submitted \cup pending[i].calls
      BY <2>5 DEF ConsumeSteer
    <3>2. pending' \in Seq(Entry)
      BY <3>1, RemoveAtType
    <3>3. pending[i].calls \subseteq Client
      <4>1. pending[i] \in Entry
        BY <3>1
      <4> QED
        BY <4>1 DEF Entry
    <3> QED
      BY <2>5, <3>1, <3>2, <3>3 DEF ConsumeSteer
  <2>6. ASSUME NEW k \in Closer, CloseStep(k) PROVE TypeOK'
    <3>1. CASE AgentShutdown(k)
      <4>1. teardown' \in [Closer -> {"none", "flushing", "awaiting", "releasing", "done"}]
        BY <3>1 DEF AgentShutdown
      <4>2. awaited' \in [Closer -> Call \cup {NoCall}]
        BY <3>1 DEF AgentShutdown
      <4>3. shutdownCalled' \in BOOLEAN
        BY <3>1 DEF AgentShutdown
      <4> QED
        BY <3>1, <4>1, <4>2, <4>3 DEF AgentShutdown
    <3>2. CASE Forget(k)
      <4>1. drained \o pending \in Seq(Entry)
        BY ConcatProperties
      <4>2. pending' \in Seq(Entry) /\ drained' \in Seq(Entry) /\ Len(drained') <= 1
        <5>1. <<>> \in Seq(Entry) /\ Len(<<>>) = 0
          BY EmptySeq
        <5>2. CASE k = Drain
          <6>1. pending' = drained \o pending /\ drained' = <<>>
            BY <3>2, <5>2 DEF Forget
          <6> QED
            BY <4>1, <5>1, <6>1
        <5>3. CASE k # Drain
          BY <3>2, <5>3 DEF Forget
        <5> QED
          BY <5>2, <5>3
      <4>3. phase' \in [Call -> Phase]
        BY <3>2 DEF Forget
      <4> QED
        BY <3>2, <4>2, <4>3 DEF Forget
    <3> QED
      BY <2>6, <3>1, <3>2 DEF CloseStep
  <2>7. CASE Edit
    <3>1. PICK i \in DOMAIN pending :
            \/ DeletePrompt(i)
            \/ \E t \in Text, d \in {"queue", "steer"} : UpdatePrompt(i, t, d)
      BY <2>7 DEF Edit
    <3>2. CASE DeletePrompt(i)
      <4>1. pending' \in Seq(Entry)
        BY <3>2, RemoveAtType DEF DeletePrompt
      <4>2. pending[i].calls \subseteq Client
        <5>1. pending[i] \in Entry
          BY <3>1
        <5> QED
          BY <5>1 DEF Entry
      <4> QED
        BY <3>2, <4>1, <4>2 DEF DeletePrompt, Gesture, ScheduleDrain
    <3>3. ASSUME NEW t \in Text, NEW d \in {"queue", "steer"}, UpdatePrompt(i, t, d)
          PROVE  TypeOK'
      <4>1. pending' \in Seq(Entry)
        BY <3>3, UpdatedType DEF UpdatePrompt
      <4> QED
        BY <3>3, <4>1 DEF UpdatePrompt, Gesture, ScheduleDrain
    <3> QED
      BY <3>1, <3>2, <3>3
  <2>8. CASE Abort
    <3>1. Calls(pending) \subseteq Client
      <4>1. \A i \in DOMAIN pending : pending[i] \in Entry
        OBVIOUS
      <4> QED
        BY <4>1 DEF Calls, Entry
    <3>2. /\ pending' = pending \/ pending' = <<>>
          /\ dropped' = dropped \/ dropped' = dropped \cup Calls(pending)
      BY <2>8 DEF Abort, discardQueue
    <3>3. pending' \in Seq(Entry)
      <4>1. <<>> \in Seq(Entry)
        OBVIOUS
      <4>2. pending \in Seq(Entry)
        OBVIOUS
      <4> QED
        BY <3>2, <4>1, <4>2, Zenon
    <3>4. dropped' \subseteq Client
      BY <3>1, <3>2
    <3> QED
      BY <2>8, <3>3, <3>4 DEF Abort, Gesture, AgentAbort
  <2>9. CASE StopSession
    BY <2>9 DEF StopSession, AgentAbort
  <2> QED
    BY <2>1, <2>2, <2>3, <2>4, <2>5, <2>6, <2>7, <2>8, <2>9 DEF Next
<1> QED
  BY <1>1, <1>2, PTL DEF Spec

-----------------------------------------------------------------------------
(* The agent runs one turn at a time, and no shutdown waits for a run that
   is not going to end: AgentInv, which is inductive given the types. *)

(* A call leaves its run and its promise settles: nobody waits for it any
   longer, and its promise is no longer the active one. *)
LEMMA RunLeft ==
  ASSUME TypeOK, AgentInv, NEW c \in Call, NEW b \in BOOLEAN, NEW ph,
         phase[c] \in InRun, ph \notin InRun, ph # "idle", RunSettles(c, b),
         phase' = [phase EXCEPT ![c] = ph], UNCHANGED <<awaited, drained>>,
         running' = FALSE => phase[c] \in Holding \/ ~running,
         running' \in {running, FALSE}
  PROVE  AgentInv'
<1> USE DEF AgentInv, TypeOK, RunSettles, InRun, Holding, Closer, draining
<1>1. \A d, e \in Call : phase'[d] \in Holding /\ phase'[e] \in Holding => d = e
  OBVIOUS
<1>2. \A d \in Call : phase'[d] \in Holding => running'
  OBVIOUS
<1>3. activeRun' # NoCall => phase'[activeRun'] \in InRun
  BY CallAssumption DEF Call
<1>4. \A k \in Closer : teardown'[k] = "awaiting" =>
        awaited'[k] \in Call /\ phase'[awaited'[k]] \in InRun
  OBVIOUS
<1>5. \A d \in Call :
        teardown'[d] \in {"flushing", "awaiting", "releasing"} => phase'[d] = "failing"
  OBVIOUS
<1>6. draining' <=> phase'[Drain] # "idle"
  BY DEF Call
<1> QED
  BY <1>1, <1>2, <1>3, <1>4, <1>5, <1>6

(* One turn at a time through collisions, retries, failures and aborts. *)
THEOREM TurnsOneAtATime == Spec => []AgentInv
<1> USE CallAssumption
<1> USE DEF sessionVars, agentVars, callVars, logVars, Call, Closer, InRun, Holding
<1>1. Init => AgentInv
  BY DEF Init, AgentInv, draining
<1>2. TypeOK /\ AgentInv /\ [Next]_vars => AgentInv'
  <2> SUFFICES ASSUME TypeOK, AgentInv, [Next]_vars PROVE AgentInv'
    OBVIOUS
  <2> USE DEF TypeOK, AgentInv, draining
  <2>1. CASE UNCHANGED vars
    BY <2>1 DEF vars
  <2>2. CASE DrainStep
    <3>1. CASE phase' = phase /\ drained' = drained
      BY <2>2, <3>1 DEF DrainStep
    <3>2. CASE /\ drained = <<>> /\ drained' = <<Head(pending)>>
               /\ phase' = [phase EXCEPT ![Drain] = "preparing"]
      BY <2>2, <3>2 DEF DrainStep
    <3> QED
      BY <2>2, <3>1, <3>2 DEF DrainStep
  <2>3. ASSUME NEW c \in Client, Send(c) PROVE AgentInv'
    <3>1. CASE RunTurnGone(c)
      BY <3>1 DEF RunTurnGone
    <3>2. CASE RunTurnNow(c)
      BY <3>2 DEF RunTurnNow
    <3>3. ASSUME NEW d \in {"auto", "queue", "steer"}, RunTurnQueued(c, d) PROVE AgentInv'
      BY <3>3 DEF RunTurnQueued
    <3> QED
      BY <2>3, <3>1, <3>2, <3>3 DEF Send
  <2>4. ASSUME NEW c \in Call, TurnStep(c) PROVE AgentInv'
    <3>1. CASE PrepareFailed(c)
      BY <3>1 DEF PrepareFailed
    <3>2. CASE Begin(c)
      BY <3>2 DEF Begin, canStartRun
    <3>3. CASE SetupDone(c)
      BY <3>3 DEF SetupDone
    <3>4. CASE SetupFailed(c)
      BY <3>4, RunLeft DEF SetupFailed
    <3>5. ASSUME NEW f \in Finish, TurnEnds(c, f) PROVE AgentInv'
      BY <3>5, RunLeft DEF TurnEnds, Free
    <3>6. CASE TurnThrows(c)
      BY <3>6, RunLeft DEF TurnThrows, Free
    <3>7. CASE AuthFailed(c)
      BY <3>7 DEF AuthFailed, Free
    <3>8. CASE RetryRun(c)
      <4>1. CASE canStartRun
        BY <3>8, <4>1 DEF RetryRun, canStartRun
      <4>2. CASE ~canStartRun
        BY <3>8, <4>2, RunLeft DEF RetryRun
      <4> QED
        BY <4>1, <4>2
    <3>9. CASE RefreshFailed(c)
      BY <3>9, RunLeft DEF RefreshFailed
    <3>10. CASE Settle(c)
      BY <3>10 DEF Settle, Leave
    <3>11. CASE Raise(c)
      BY <3>11 DEF Raise, ShutdownBegins
    <3> QED
      BY <2>4, <3>1, <3>2, <3>3, <3>4, <3>5, <3>6, <3>7, <3>8, <3>9, <3>10, <3>11
      DEF TurnStep
  <2>5. ASSUME NEW c \in Call, ConsumeSteer(c) PROVE AgentInv'
    BY <2>5 DEF ConsumeSteer
  <2>6. ASSUME NEW k \in Closer, CloseStep(k) PROVE AgentInv'
    <3>1. CASE AgentShutdown(k)
      BY <3>1 DEF AgentShutdown
    <3>2. CASE Forget(k)
      BY <3>2 DEF Forget
    <3> QED
      BY <2>6, <3>1, <3>2 DEF CloseStep
  <2>7. CASE Edit
    BY <2>7 DEF Edit, DeletePrompt, UpdatePrompt
  <2>8. CASE Abort
    BY <2>8 DEF Abort, discardQueue
  <2>9. CASE StopSession
    BY <2>9 DEF StopSession
  <2> QED
    BY <2>1, <2>2, <2>3, <2>4, <2>5, <2>6, <2>7, <2>8, <2>9 DEF Next
<1> QED
  BY <1>1, <1>2, TurnsTypeCorrect, PTL DEF Spec

-----------------------------------------------------------------------------
(* What the queue operations do to each entry. *)

LEMMA RemoveAtElements ==
  ASSUME NEW S, NEW q \in Seq(S), NEW i \in DOMAIN q
  PROVE  /\ DOMAIN RemoveAt(q, i) = 1 .. Len(q) - 1
         /\ \A j \in 1 .. Len(q) - 1 : RemoveAt(q, i)[j] = IF j < i THEN q[j] ELSE q[j + 1]
<1> DEFINE before == SubSeq(q, 1, i - 1)
           after == SubSeq(q, i + 1, Len(q))
<1>1. i \in 1 .. Len(q) /\ Len(q) \in Nat
  OBVIOUS
<1>2. /\ before \in Seq(S) /\ Len(before) = i - 1
      /\ \A j \in 1 .. i - 1 : before[j] = q[j]
  BY <1>1, SubSeqProperties
<1>3. /\ after \in Seq(S) /\ Len(after) = Len(q) - i
      /\ \A j \in 1 .. Len(q) - i : after[j] = q[j + i]
  BY <1>1, SubSeqProperties
<1>4. RemoveAt(q, i) = before \o after
  BY DEF RemoveAt
<1> HIDE DEF before, after
<1>5. /\ before \o after \in Seq(S) /\ Len(before \o after) = Len(q) - 1
      /\ \A j \in 1 .. Len(q) - 1 :
           (before \o after)[j] = IF j <= i - 1 THEN before[j] ELSE after[j - (i - 1)]
  BY <1>1, <1>2, <1>3, ConcatProperties
<1>6. ASSUME NEW j \in 1 .. Len(q) - 1
      PROVE  RemoveAt(q, i)[j] = IF j < i THEN q[j] ELSE q[j + 1]
  <2>1. CASE j < i
    BY <1>1, <1>2, <1>4, <1>5, <2>1
  <2>2. CASE j >= i
    <3>1. j - (i - 1) \in 1 .. Len(q) - i /\ (j - (i - 1)) + i = j + 1
      BY <1>1, <2>2
    <3>2. after[j - (i - 1)] = q[j + 1]
      BY <1>3, <3>1
    <3>3. ~(j <= i - 1) /\ ~(j < i)
      BY <1>1, <2>2
    <3>4. (before \o after)[j] = after[j - (i - 1)]
      BY <1>5, <3>3
    <3> QED
      BY <1>4, <3>2, <3>3, <3>4
  <2> QED
    BY <1>1, <2>1, <2>2
<1> QED
  BY <1>4, <1>5, <1>6

LEMMA FrontElements ==
  ASSUME NEW S, NEW q \in Seq(S), NEW x \in S
  PROVE  /\ DOMAIN (<<x>> \o q) = 1 .. Len(q) + 1
         /\ (<<x>> \o q)[1] = x
         /\ \A j \in 1 .. Len(q) : (<<x>> \o q)[j + 1] = q[j]
<1>1. <<x>> \in Seq(S) /\ Len(<<x>>) = 1 /\ <<x>>[1] = x /\ Len(q) \in Nat
  OBVIOUS
<1>2. /\ Len(<<x>> \o q) = Len(q) + 1 /\ <<x>> \o q \in Seq(S)
      /\ \A j \in 1 .. Len(q) + 1 :
           (<<x>> \o q)[j] = IF j <= 1 THEN <<x>>[j] ELSE q[j - 1]
  BY <1>1, ConcatProperties
<1> QED
  BY <1>1, <1>2

(* Nothing twice, and steers before the rest. *)
Ordered(q) ==
  \A i, j \in DOMAIN q : i < j =>
    /\ Apart(q[i], q[j])
    /\ q[j].delivery = "steer" => q[i].delivery = "steer"

\* x stands apart from every entry of q.
ApartFrom(x, q) == \A k \in DOMAIN q : Apart(x, q[k])

LEMMA ApartIsSymmetric == ASSUME NEW x, NEW y, Apart(x, y) PROVE Apart(y, x)
BY DEF Apart

LEMMA RemoveAtKeeps ==
  ASSUME NEW q \in Seq(Entry), NEW i \in DOMAIN q, Ordered(q)
  PROVE  /\ Ordered(RemoveAt(q, i))
         /\ ApartFrom(q[i], RemoveAt(q, i))
         /\ Calls(q) = Calls(RemoveAt(q, i)) \cup q[i].calls
         /\ Calls(RemoveAt(q, i)) \cap q[i].calls = {}
<1> DEFINE r == RemoveAt(q, i)
           At(j) == IF j < i THEN j ELSE j + 1
<1>1. Len(q) \in Nat /\ i \in 1 .. Len(q) /\ DOMAIN q = 1 .. Len(q)
  OBVIOUS
<1>2. DOMAIN r = 1 .. Len(q) - 1 /\ \A j \in DOMAIN r : At(j) \in DOMAIN q \ {i} /\ r[j] = q[At(j)]
  BY <1>1, RemoveAtElements
<1>3. \A j, k \in DOMAIN r : j < k => At(j) < At(k)
  BY <1>1, <1>2
<1>4. \A k \in DOMAIN q \ {i} : \E j \in DOMAIN r : k = At(j)
  <2> SUFFICES ASSUME NEW k \in DOMAIN q \ {i}
               PROVE  \E j \in DOMAIN r : k = At(j)
    OBVIOUS
  <2>1. CASE k < i
    BY <1>1, <1>2, <2>1
  <2>2. CASE k > i
    <3>1. k - 1 \in DOMAIN r /\ At(k - 1) = k
      BY <1>1, <1>2, <2>2
    <3> QED
      BY <3>1
  <2> QED
    BY <1>1, <2>1, <2>2
<1>5. ASSUME NEW k \in DOMAIN q \ {i} PROVE Apart(q[i], q[k])
  <2>1. CASE i < k
    BY <2>1 DEF Ordered
  <2>2. CASE k < i
    BY <2>2, ApartIsSymmetric DEF Ordered
  <2> QED
    BY <1>1, <2>1, <2>2
<1> HIDE DEF At, r
<1>6. Ordered(r)
  BY <1>2, <1>3 DEF Ordered
<1>7. ApartFrom(q[i], r)
  BY <1>2, <1>5 DEF ApartFrom
<1>8. Calls(q) = Calls(r) \cup q[i].calls
  <2>1. ASSUME NEW c \in Calls(q) PROVE c \in Calls(r) \cup q[i].calls
    <3>1. PICK k \in DOMAIN q : c \in q[k].calls
      BY <2>1 DEF Calls
    <3>2. CASE k # i
      <4>1. PICK j \in DOMAIN r : k = At(j)
        BY <1>4, <3>2
      <4> QED
        BY <1>2, <3>1, <4>1 DEF Calls
    <3> QED
      BY <3>1, <3>2
  <2>2. ASSUME NEW c \in Calls(r) PROVE c \in Calls(q)
    <3>1. PICK j \in DOMAIN r : c \in r[j].calls
      BY <2>2 DEF Calls
    <3> QED
      BY <1>2, <3>1 DEF Calls
  <2>3. q[i].calls \subseteq Calls(q)
    BY DEF Calls
  <2> QED
    BY <2>1, <2>2, <2>3
<1>9. Calls(r) \cap q[i].calls = {}
  BY <1>7 DEF Calls, ApartFrom, Apart
<1> QED
  BY <1>6, <1>7, <1>8, <1>9 DEF r

LEMMA FrontKeeps ==
  ASSUME NEW q \in Seq(Entry), NEW x \in Entry, Ordered(q), x.delivery = "steer",
         ApartFrom(x, q)
  PROVE  Ordered(<<x>> \o q) /\ Calls(<<x>> \o q) = Calls(q) \cup x.calls
<1> DEFINE r == <<x>> \o q
<1>1. Len(q) \in Nat /\ DOMAIN q = 1 .. Len(q)
  OBVIOUS
<1>2. /\ DOMAIN r = 1 .. Len(q) + 1 /\ r[1] = x
      /\ \A j \in DOMAIN q : j + 1 \in DOMAIN r /\ r[j + 1] = q[j]
  BY <1>1, FrontElements
<1>3. \A k \in DOMAIN r : k = 1 \/ (k - 1 \in DOMAIN q /\ r[k] = q[k - 1])
  BY <1>1, <1>2
<1> HIDE DEF r
<1>4. ASSUME NEW i \in DOMAIN r, NEW j \in DOMAIN r, i < j
      PROVE  Apart(r[i], r[j]) /\ (r[j].delivery = "steer" => r[i].delivery = "steer")
  <2>1. j - 1 \in DOMAIN q /\ r[j] = q[j - 1]
    BY <1>2, <1>3, <1>4
  <2>2. CASE i = 1
    BY <1>2, <2>1, <2>2 DEF ApartFrom
  <2>3. CASE i # 1
    <3>1. i - 1 \in DOMAIN q /\ r[i] = q[i - 1] /\ i - 1 < j - 1
      BY <1>1, <1>2, <1>3, <1>4, <2>3
    <3>2. /\ Apart(q[i - 1], q[j - 1])
          /\ q[j - 1].delivery = "steer" => q[i - 1].delivery = "steer"
      BY <2>1, <3>1 DEF Ordered
    <3> QED
      BY <2>1, <3>1, <3>2
  <2> QED
    BY <2>2, <2>3
<1>5. Calls(r) = Calls(q) \cup x.calls
  <2>1. 1 \in DOMAIN r
    BY <1>1, <1>2
  <2>2. ASSUME NEW v \in Calls(r) PROVE v \in Calls(q) \cup x.calls
    <3>1. PICK k \in DOMAIN r : v \in r[k].calls
      BY <2>2 DEF Calls
    <3> QED
      BY <1>2, <1>3, <3>1 DEF Calls
  <2>3. x.calls \subseteq Calls(r)
    BY <1>2, <2>1 DEF Calls
  <2>4. ASSUME NEW v \in Calls(q) PROVE v \in Calls(r)
    <3>1. PICK k \in DOMAIN q : v \in q[k].calls
      BY <2>4 DEF Calls
    <3> QED
      BY <1>2, <3>1 DEF Calls
  <2> QED
    BY <2>2, <2>3, <2>4
<1> QED
  BY <1>4, <1>5 DEF Ordered, r

LEMMA BackKeeps ==
  ASSUME NEW q \in Seq(Entry), NEW x \in Entry, Ordered(q), x.delivery = "queue",
         ApartFrom(x, q)
  PROVE  Ordered(Append(q, x)) /\ Calls(Append(q, x)) = Calls(q) \cup x.calls
<1> DEFINE r == Append(q, x)
<1>1. Len(q) \in Nat /\ DOMAIN q = 1 .. Len(q)
  OBVIOUS
<1>2. /\ DOMAIN r = 1 .. Len(q) + 1 /\ r[Len(q) + 1] = x
      /\ \A j \in DOMAIN q : j \in DOMAIN r /\ r[j] = q[j]
  BY <1>1, AppendProperties
<1>3. \A k \in DOMAIN r : k = Len(q) + 1 \/ k \in DOMAIN q
  BY <1>1, <1>2
<1> HIDE DEF r
<1>4. ASSUME NEW i \in DOMAIN r, NEW j \in DOMAIN r, i < j
      PROVE  Apart(r[i], r[j]) /\ (r[j].delivery = "steer" => r[i].delivery = "steer")
  <2>1. i \in DOMAIN q /\ r[i] = q[i]
    BY <1>1, <1>2, <1>3, <1>4
  <2>2. CASE j = Len(q) + 1
    <3>1. Apart(x, q[i]) /\ r[j] = x
      BY <1>2, <2>1, <2>2 DEF ApartFrom
    <3> QED
      BY <2>1, <3>1, ApartIsSymmetric
  <2>3. CASE j # Len(q) + 1
    BY <1>2, <1>3, <1>4, <2>1, <2>3 DEF Ordered
  <2> QED
    BY <2>2, <2>3
<1>5. Calls(r) = Calls(q) \cup x.calls
  <2>1. Len(q) + 1 \in DOMAIN r
    BY <1>1, <1>2
  <2>2. ASSUME NEW v \in Calls(r) PROVE v \in Calls(q) \cup x.calls
    <3>1. PICK k \in DOMAIN r : v \in r[k].calls
      BY <2>2 DEF Calls
    <3> QED
      BY <1>2, <1>3, <3>1 DEF Calls
  <2>3. x.calls \subseteq Calls(r)
    BY <1>2, <2>1 DEF Calls
  <2>4. Calls(q) \subseteq Calls(r)
    BY <1>2 DEF Calls
  <2> QED
    BY <2>2, <2>3, <2>4
<1> QED
  BY <1>4, <1>5 DEF Ordered, r

LEMMA PlacedKeeps ==
  ASSUME NEW q \in Seq(Entry), NEW x \in Entry, Ordered(q), ApartFrom(x, q)
  PROVE  Ordered(Placed(x, q)) /\ Calls(Placed(x, q)) = Calls(q) \cup x.calls
<1>1. CASE x.delivery = "steer"
  BY <1>1, FrontKeeps DEF Placed
<1>2. CASE x.delivery = "queue"
  BY <1>2, BackKeeps DEF Placed
<1> QED
  BY <1>1, <1>2 DEF Entry

(* enqueue: the prompt of a call that is not queued yet gets into the queue once. *)
LEMMA EnqueuedKeeps ==
  ASSUME NEW q \in Seq(Entry), NEW c \in Client, NEW delivery \in {"auto", "queue", "steer"},
         Ordered(q), c \notin Calls(q)
  PROVE  /\ Ordered(Enqueued(q, c, delivery))
         /\ Calls(Enqueued(q, c, delivery)) = Calls(q) \cup {c}
<1>1. CASE /\ \A i \in DOMAIN q : q[i].text # TextOf[c]
           /\ Enqueued(q, c, delivery) = Placed(NewEntry(c, delivery), q)
  <2> DEFINE x == NewEntry(c, delivery)
  <2>1. x \in Entry /\ x.calls = {c} /\ x.text = TextOf[c]
    BY TextAssumption DEF NewEntry, Entry
  <2> HIDE DEF x
  <2>2. ApartFrom(x, q)
    BY <1>1, <2>1 DEF ApartFrom, Apart, Calls
  <2>3. Enqueued(q, c, delivery) = Placed(x, q)
    BY <1>1 DEF x
  <2> QED
    BY <2>1, <2>2, <2>3, PlacedKeeps
<1>2. ASSUME NEW i \in DOMAIN q, NEW x \in Entry, Joined(q, c, i, x),
             Enqueued(q, c, delivery) = Placed(x, RemoveAt(q, i))
      PROVE  /\ Ordered(Enqueued(q, c, delivery))
             /\ Calls(Enqueued(q, c, delivery)) = Calls(q) \cup {c}
  <2> DEFINE rest == RemoveAt(q, i)
  <2>1. /\ rest \in Seq(Entry) /\ Ordered(rest) /\ ApartFrom(q[i], rest)
        /\ Calls(q) = Calls(rest) \cup q[i].calls
    BY RemoveAtType, RemoveAtKeeps
  <2>2. q[i] \in Entry
    OBVIOUS
  <2>3. /\ x.calls = q[i].calls \cup {c} /\ x.text = q[i].text
        /\ x.reworded = q[i].reworded
    BY <1>2, <2>2 DEF Joined, Entry
  <2> HIDE DEF rest
  <2>4. ApartFrom(x, rest)
    <3> SUFFICES ASSUME NEW k \in DOMAIN rest PROVE Apart(x, rest[k])
      BY DEF ApartFrom
    <3>1. Apart(q[i], rest[k]) /\ rest[k].calls \subseteq Calls(q)
      BY <2>1 DEF ApartFrom, Calls
    <3> QED
      BY <2>3, <3>1 DEF Apart
  <2>5. Ordered(Placed(x, rest)) /\ Calls(Placed(x, rest)) = Calls(rest) \cup x.calls
    BY <2>1, <2>4, PlacedKeeps
  <2> QED
    BY <1>2, <2>1, <2>3, <2>5 DEF rest
<1> QED
  BY <1>1, <1>2, EnqueuedCases

(* An entry that is put back where it was taken away, changed or not, replaces
   what stood there. *)
LEMMA InsertedAtIsReplaced ==
  ASSUME NEW q \in Seq(Entry), NEW i \in DOMAIN q, NEW next \in Entry
  PROVE  InsertAt(RemoveAt(q, i), i, next) = [q EXCEPT ![i] = next]
<1> DEFINE rest == RemoveAt(q, i)
           new == [q EXCEPT ![i] = next]
<1>0. Len(q) \in Nat /\ DOMAIN q = 1 .. Len(q) /\ q[i] \in Entry
  OBVIOUS
<1>r. rest \in Seq(Entry) /\ Len(rest) = Len(q) - 1
  BY RemoveAtType
<1>1. /\ \A j \in 1 .. Len(q) - 1 : rest[j] = IF j < i THEN q[j] ELSE q[j + 1]
  BY RemoveAtElements
<1> HIDE DEF rest
<1> DEFINE before == SubSeq(rest, 1, i - 1)
           after == SubSeq(rest, i, Len(rest))
<1>2. /\ before \in Seq(Entry) /\ Len(before) = i - 1
      /\ \A j \in 1 .. i - 1 : before[j] = rest[j]
  BY <1>0, <1>r, SubSeqProperties
<1>3. /\ after \in Seq(Entry) /\ Len(after) = Len(q) - i
      /\ \A j \in 1 .. Len(q) - i : after[j] = rest[j + i - 1]
  BY <1>0, <1>r, SubSeqProperties
<1>4. InsertAt(rest, i, next) = (before \o <<next>>) \o after
  BY DEF InsertAt
<1> HIDE DEF before, after
<1>5. <<next>> \in Seq(Entry) /\ Len(<<next>>) = 1 /\ <<next>>[1] = next
  OBVIOUS
<1>6. /\ before \o <<next>> \in Seq(Entry) /\ Len(before \o <<next>>) = i
      /\ \A j \in 1 .. i : (before \o <<next>>)[j] = IF j <= i - 1 THEN before[j] ELSE next
  <2>1. /\ before \o <<next>> \in Seq(Entry)
        /\ Len(before \o <<next>>) = i
        /\ \A j \in 1 .. i : (before \o <<next>>)[j] =
             IF j <= Len(before) THEN before[j] ELSE <<next>>[j - Len(before)]
    BY <1>0, <1>2, <1>5, ConcatProperties
  <2>2. \A j \in 1 .. i : ~(j <= i - 1) => j - (i - 1) = 1
    BY <1>0
  <2> QED
    BY <1>2, <1>5, <2>1, <2>2
<1> DEFINE first == before \o <<next>>
           all == first \o after
<1>6a. /\ first \in Seq(Entry) /\ Len(first) = i
       /\ \A j \in 1 .. i - 1 : first[j] = before[j]
       /\ first[i] = next
  BY <1>0, <1>6
<1> HIDE DEF first
<1>7. /\ all \in Seq(Entry) /\ Len(all) = Len(q)
      /\ \A j \in 1 .. Len(q) : all[j] = IF j <= i THEN first[j] ELSE after[j - i]
  <2>1. /\ all \in Seq(Entry) /\ Len(all) = Len(first) + Len(after)
        /\ \A j \in 1 .. Len(first) + Len(after) :
             all[j] = IF j <= Len(first) THEN first[j] ELSE after[j - Len(first)]
    BY <1>3, <1>6a, ConcatProperties
  <2>2. Len(first) + Len(after) = Len(q)
    BY <1>0, <1>3, <1>6a
  <2> HIDE DEF all
  <2> QED
    BY <1>6a, <2>1, <2>2
<1> HIDE DEF all
<1>8. ASSUME NEW j \in 1 .. Len(q) PROVE all[j] = new[j]
  <2>1. CASE j < i
    <3>1. j \in 1 .. i - 1 /\ j <= i /\ j \in 1 .. Len(q) - 1
      BY <1>0, <2>1
    <3>2. all[j] = first[j] /\ first[j] = before[j] /\ before[j] = rest[j]
      BY <1>2, <1>6a, <1>7, <3>1
    <3>3. rest[j] = q[j] /\ new[j] = q[j]
      BY <1>0, <1>1, <2>1, <3>1
    <3> QED
      BY <3>2, <3>3
  <2>2. CASE j = i
    <3>1. all[j] = first[i]
      BY <1>0, <1>7, <2>2
    <3> QED
      BY <1>0, <1>6a, <2>2, <3>1
  <2>3. CASE j > i
    <3>1. j - i \in 1 .. Len(q) - i /\ (j - i) + i - 1 = j - 1 /\ j - 1 \in 1 .. Len(q) - 1
      BY <1>0, <2>3
    <3>2. after[j - i] = rest[j - 1]
      BY <1>3, <3>1
    <3>3. rest[j - 1] = q[j]
      BY <1>0, <1>1, <2>3, <3>1
    <3>4. new[j] = q[j]
      BY <1>0, <2>3
    <3> QED
      BY <1>0, <1>7, <2>3, <3>2, <3>3, <3>4
  <2> QED
    BY <1>0, <2>1, <2>2, <2>3
<1>9. new \in Seq(Entry) /\ Len(new) = Len(q)
  BY <1>0
<1> HIDE DEF new
<1>10. all = new
  BY <1>0, <1>7, <1>8, <1>9, SeqEqual
<1> QED
  BY <1>4, <1>10 DEF all, first, new, rest

LEMMA ReplacedKeeps ==
  ASSUME NEW q \in Seq(Entry), NEW i \in DOMAIN q, NEW next \in Entry, Ordered(q),
         next.calls = q[i].calls, next.delivery = q[i].delivery,
         ApartFrom(next, RemoveAt(q, i))
  PROVE  /\ Ordered([q EXCEPT ![i] = next])
         /\ Calls([q EXCEPT ![i] = next]) = Calls(q)
<1> DEFINE new == [q EXCEPT ![i] = next]
<1>1. /\ DOMAIN new = DOMAIN q /\ Len(q) \in Nat /\ DOMAIN q = 1 .. Len(q)
      /\ \A j \in DOMAIN q : new[j] = IF j = i THEN next ELSE q[j]
  OBVIOUS
<1>2. ASSUME NEW j \in DOMAIN q \ {i} PROVE Apart(next, q[j])
  <2> DEFINE rest == RemoveAt(q, i)
  <2>1. /\ DOMAIN rest = 1 .. Len(q) - 1
        /\ \A k \in 1 .. Len(q) - 1 : rest[k] = IF k < i THEN q[k] ELSE q[k + 1]
    BY RemoveAtElements
  <2> HIDE DEF rest
  <2>2. CASE j < i
    <3>1. j \in DOMAIN rest /\ rest[j] = q[j]
      BY <1>1, <2>1, <2>2
    <3> QED
      BY <3>1 DEF ApartFrom, rest
  <2>3. CASE j > i
    <3>1. j - 1 \in DOMAIN rest /\ rest[j - 1] = q[j]
      BY <1>1, <2>1, <2>3
    <3> QED
      BY <3>1 DEF ApartFrom, rest
  <2> QED
    BY <1>1, <2>2, <2>3
<1> HIDE DEF new
<1>3. ASSUME NEW j \in DOMAIN new, NEW k \in DOMAIN new, j < k
      PROVE  Apart(new[j], new[k]) /\ (new[k].delivery = "steer" => new[j].delivery = "steer")
  <2>0. /\ Apart(q[j], q[k])
        /\ q[k].delivery = "steer" => q[j].delivery = "steer"
    BY <1>1, <1>3 DEF Ordered
  <2>1. CASE j = i
    <3>1. new[j] = next /\ new[k] = q[k] /\ Apart(next, q[k])
      BY <1>1, <1>2, <1>3, <2>1
    <3> QED
      BY <2>0, <2>1, <3>1
  <2>2. CASE k = i
    <3>1. new[k] = next /\ new[j] = q[j] /\ Apart(next, q[j])
      BY <1>1, <1>2, <1>3, <2>2
    <3> QED
      BY <2>0, <2>2, <3>1, ApartIsSymmetric
  <2>3. CASE j # i /\ k # i
    BY <1>1, <2>0, <2>3
  <2> QED
    BY <2>1, <2>2, <2>3
<1>4. \A j \in DOMAIN q : new[j].calls = q[j].calls
  BY <1>1
<1>5. Calls(new) = Calls(q)
  BY <1>1, <1>4 DEF Calls
<1> QED
  BY <1>3, <1>5 DEF Ordered, new

(* update: the entry moves, or stays where it is; whatever text it is given, it
   still holds the prompts of the same calls. *)
LEMMA UpdatedKeeps ==
  ASSUME NEW q \in Seq(Entry), NEW i \in DOMAIN q, NEW text \in Text,
         NEW delivery \in {"queue", "steer"}, Ordered(q)
  PROVE  /\ Ordered(Updated(q, i, text, delivery))
         /\ Calls(Updated(q, i, text, delivery)) = Calls(q)
<1> DEFINE next == Edited(q[i], text, delivery)
           rest == RemoveAt(q, i)
<1>0. q[i] \in Entry
  OBVIOUS
<1>1. /\ next \in Entry /\ next.calls = q[i].calls /\ next.delivery = delivery
      /\ next.text = text /\ next.reworded = (q[i].reworded \/ text # q[i].text)
  BY <1>0 DEF Entry, Edited
<1>2. /\ rest \in Seq(Entry) /\ Ordered(rest) /\ ApartFrom(q[i], rest)
      /\ Calls(q) = Calls(rest) \cup q[i].calls
  BY RemoveAtType, RemoveAtKeeps
<1> HIDE DEF next, rest
<1>3. ApartFrom(next, rest)
  BY <1>1, <1>2 DEF ApartFrom, Apart
<1>4. CASE Updated(q, i, text, delivery) = Placed(next, rest)
  <2>1. /\ Ordered(Placed(next, rest))
        /\ Calls(Placed(next, rest)) = Calls(rest) \cup next.calls
    BY <1>1, <1>2, <1>3, PlacedKeeps
  <2> QED
    BY <1>1, <1>2, <1>4, <2>1
<1>5. CASE /\ delivery # "steer" /\ q[i].delivery # "steer"
           /\ Updated(q, i, text, delivery) = InsertAt(rest, i, next)
  <2>1. next.delivery = q[i].delivery
    BY <1>0, <1>1, <1>5 DEF Entry
  <2>2. Updated(q, i, text, delivery) = [q EXCEPT ![i] = next]
    BY <1>1, <1>5, InsertedAtIsReplaced DEF rest
  <2>3. ApartFrom(next, RemoveAt(q, i))
    BY <1>3 DEF rest
  <2> QED
    BY <1>1, <2>1, <2>2, <2>3, ReplacedKeeps
<1>6. \/ Updated(q, i, text, delivery) = Placed(next, rest)
      \/ /\ delivery # "steer" /\ q[i].delivery # "steer"
         /\ Updated(q, i, text, delivery) = InsertAt(rest, i, next)
  BY DEF Updated, Edited, next, rest
<1> QED
  BY <1>4, <1>5, <1>6

(* drain takes the first entry: every other one stays in its order. *)
LEMMA TailKeeps ==
  ASSUME NEW q \in Seq(Entry), q # <<>>, Ordered(q)
  PROVE  /\ Ordered(Tail(q))
         /\ Calls(q) = Calls(Tail(q)) \cup Head(q).calls
         /\ Calls(Tail(q)) \cap Head(q).calls = {}
<1> DEFINE r == Tail(q)
<1>1. Len(q) \in Nat \ {0} /\ DOMAIN q = 1 .. Len(q) /\ Head(q) = q[1]
  OBVIOUS
<1>2. DOMAIN r = 1 .. Len(q) - 1 /\ \A j \in DOMAIN r : r[j] = q[j + 1]
  BY <1>1, HeadTailProperties
<1> HIDE DEF r
<1>3. \A j \in DOMAIN r : j \in Int /\ j + 1 \in DOMAIN q
  BY <1>1, <1>2
<1>4. Ordered(r)
  <2> SUFFICES ASSUME NEW i \in DOMAIN r, NEW j \in DOMAIN r, i < j
               PROVE  /\ Apart(r[i], r[j])
                      /\ r[j].delivery = "steer" => r[i].delivery = "steer"
    BY DEF Ordered
  <2>1. i + 1 \in DOMAIN q /\ j + 1 \in DOMAIN q /\ i + 1 < j + 1
    BY <1>3
  <2> QED
    BY <1>2, <2>1 DEF Ordered
<1>5. ASSUME NEW v \in Calls(q) PROVE v \in Calls(r) \cup Head(q).calls
  <2>1. PICK k \in DOMAIN q : v \in q[k].calls
    BY <1>5 DEF Calls
  <2>2. CASE k = 1
    BY <1>1, <2>1, <2>2
  <2>3. CASE k # 1
    <3>1. k - 1 \in DOMAIN r /\ r[k - 1] = q[k]
      BY <1>1, <1>2, <2>1, <2>3
    <3> QED
      BY <2>1, <3>1 DEF Calls
  <2> QED
    BY <2>2, <2>3
<1>6. ASSUME NEW v \in Calls(r) PROVE v \in Calls(q) \ Head(q).calls
  <2>1. PICK k \in DOMAIN r : v \in r[k].calls
    BY <1>6 DEF Calls
  <2>2. 1 \in DOMAIN q /\ k + 1 \in DOMAIN q /\ 1 < k + 1 /\ r[k] = q[k + 1]
    BY <1>1, <1>2, <1>3, <2>1
  <2>3. Apart(q[1], q[k + 1])
    BY <2>2 DEF Ordered
  <2> QED
    BY <1>1, <2>1, <2>2, <2>3 DEF Apart, Calls
<1>7. Head(q).calls \subseteq Calls(q)
  BY <1>1 DEF Calls
<1> QED
  BY <1>4, <1>5, <1>6, <1>7 DEF r

(* Where the prompts of queued calls are, while the session lives. *)
Accepted ==
  /\ \A c \in Client : phase[c] = "queued" <=>
       c \in Calls(pending) \cup submitted \cup dropped
  /\ Calls(pending) \cap (submitted \cup dropped) = {}
  /\ submitted \cap dropped = {}

(* A step that queues no call, and only moves prompts out of the queue to those
   submitted or to those discarded, keeps every prompt once. *)
LEMMA NothingForgotten ==
  ASSUME Accepted, Ordered(pending)', NEW moved,
         \A c \in Client : phase'[c] = "queued" <=> phase[c] = "queued",
         Calls(pending) = Calls(pending') \cup moved, Calls(pending') \cap moved = {},
         \/ submitted' = submitted \cup moved /\ dropped' = dropped
         \/ submitted' = submitted /\ dropped' = dropped \cup moved
  PROVE  Accepted' /\ Ordered(pending)'
<1>1. Calls(pending)' = Calls(pending')
  BY DEF Calls
<1>2. /\ Calls(pending') \cup submitted' \cup dropped' = Calls(pending) \cup submitted \cup dropped
      /\ Calls(pending') \cap (submitted' \cup dropped') = {}
      /\ submitted' \cap dropped' = {}
  BY DEF Accepted
<1>3. \A c \in Client : phase'[c] = "queued" <=>
        c \in Calls(pending') \cup submitted' \cup dropped'
  BY <1>2 DEF Accepted
<1> QED
  BY <1>1, <1>2, <1>3 DEF Accepted

LEMMA PromptsStep == TypeOK /\ EachPromptOnce /\ [Next]_vars => EachPromptOnce'
<1> USE CallAssumption
<1> USE DEF Call, Closer
<1> SUFFICES ASSUME TypeOK, EachPromptOnce, [Next]_vars, alive'
             PROVE  Accepted' /\ Ordered(pending)'
  BY DEF EachPromptOnce, Accepted, Ordered
<1>0. /\ pending \in Seq(Entry) /\ phase \in [Client \cup {Drain} -> Phase]
      /\ teardown \in [Client \cup {Drain, Stopper} ->
                         {"none", "flushing", "awaiting", "releasing", "done"}]
  BY DEF TypeOK
<1>alive. alive /\ Accepted /\ Ordered(pending)
  <2>1. ASSUME alive PROVE Accepted /\ Ordered(pending)
    BY <2>1 DEF EachPromptOnce, Accepted, Ordered
  <2>2. alive
    BY DEF Next, vars, sessionVars, agentVars, callVars, logVars, DrainStep, Send,
           RunTurnGone, RunTurnNow, RunTurnQueued, TurnStep, PrepareFailed, Begin,
           SetupDone, SetupFailed, TurnEnds, TurnThrows, AuthFailed, RetryRun,
           RefreshFailed, Settle, Raise, ConsumeSteer, CloseStep, AgentShutdown,
           Forget, Edit, DeletePrompt, UpdatePrompt, Gesture, Abort, StopSession
  <2> QED
    BY <2>1, <2>2
<1>same. ASSUME UNCHANGED <<pending, logVars>>,
                \A c \in Client : phase'[c] = "queued" <=> phase[c] = "queued"
         PROVE  Accepted' /\ Ordered(pending)'
  BY <1>alive, <1>same DEF Accepted, Ordered, Calls, logVars
<1>1. CASE UNCHANGED vars
  BY <1>1, <1>same DEF vars, sessionVars, callVars, logVars
<1>2. CASE DrainStep
  <2>0. \A c \in Client : phase'[c] = "queued" <=> phase[c] = "queued"
    BY <1>0, <1>2 DEF DrainStep
  <2>1. CASE UNCHANGED <<pending, submitted>>
    BY <1>2, <1>same, <2>0, <2>1 DEF DrainStep, logVars
  <2>2. CASE ~UNCHANGED <<pending, submitted>>
    <3>1. /\ pending # <<>> /\ pending' = Tail(pending) /\ dropped' = dropped
          /\ submitted' = submitted \cup Head(pending).calls
      BY <1>2, <2>2 DEF DrainStep
    <3>2. /\ Ordered(Tail(pending))
          /\ Calls(pending) = Calls(Tail(pending)) \cup Head(pending).calls
          /\ Calls(Tail(pending)) \cap Head(pending).calls = {}
      BY <1>0, <1>alive, <3>1, TailKeeps
    <3>3. Ordered(pending)'
      BY <3>1, <3>2 DEF Ordered
    <3> QED
      BY <1>alive, <2>0, <3>1, <3>2, <3>3, NothingForgotten
  <2> QED
    BY <2>1, <2>2
<1>3. ASSUME NEW c \in Client, Send(c) PROVE Accepted' /\ Ordered(pending)'
  <2>1. CASE RunTurnGone(c) \/ RunTurnNow(c)
    BY <1>0, <1>same, <2>1 DEF RunTurnGone, RunTurnNow, sessionVars
  <2>2. ASSUME NEW d \in {"auto", "queue", "steer"}, RunTurnQueued(c, d)
        PROVE  Accepted' /\ Ordered(pending)'
    <3>1. /\ pending' = Enqueued(pending, c, d)
          /\ phase' = [phase EXCEPT ![c] = "queued"] /\ phase[c] = "idle"
          /\ submitted' = submitted /\ dropped' = dropped
      BY <2>2 DEF RunTurnQueued, logVars
    <3>2. c \notin Calls(pending) \cup submitted \cup dropped
      BY <1>alive, <3>1 DEF Accepted
    <3>3. /\ Ordered(Enqueued(pending, c, d))
          /\ Calls(Enqueued(pending, c, d)) = Calls(pending) \cup {c}
      BY <1>0, <1>alive, <3>2, EnqueuedKeeps
    <3>4. Calls(pending') = Calls(pending) \cup {c} /\ Calls(pending)' = Calls(pending')
      BY <3>1, <3>3 DEF Calls
    <3>5. Ordered(pending)'
      BY <3>1, <3>3 DEF Ordered
    <3>6. ASSUME NEW b \in Client
          PROVE  phase'[b] = "queued" <=>
                   b \in Calls(pending') \cup submitted' \cup dropped'
      BY <1>0, <1>alive, <3>1, <3>4 DEF Accepted
    <3>7. /\ Calls(pending') \cap (submitted' \cup dropped') = {}
          /\ submitted' \cap dropped' = {}
      BY <1>alive, <3>1, <3>2, <3>4 DEF Accepted
    <3>8. Accepted'
      BY <3>4, <3>6, <3>7 DEF Accepted
    <3> QED
      BY <3>5, <3>8
  <2> QED
    BY <1>3, <2>1, <2>2 DEF Send
<1>4. ASSUME NEW c \in Client \cup {Drain}, TurnStep(c)
      PROVE  Accepted' /\ Ordered(pending)'
  <2>1. UNCHANGED <<pending, logVars>>
    BY <1>4 DEF TurnStep, PrepareFailed, Begin, SetupDone, SetupFailed, TurnEnds,
                TurnThrows, AuthFailed, RetryRun, RefreshFailed, Settle, Raise, sessionVars
  <2>2. /\ phase[c] # "queued"
        /\ \E s \in Phase \ {"queued"} : phase' = [phase EXCEPT ![c] = s]
    BY <1>4 DEF TurnStep, PrepareFailed, Begin, SetupDone, SetupFailed, TurnEnds,
                TurnThrows, AuthFailed, RetryRun, RefreshFailed, Settle, Leave, Raise,
                Phase, InFlight, InRun, Holding
  <2> QED
    BY <1>0, <1>same, <2>1, <2>2
<1>5. ASSUME NEW c \in Client \cup {Drain}, ConsumeSteer(c)
      PROVE  Accepted' /\ Ordered(pending)'
  <2>1. PICK i \in DOMAIN pending :
          /\ pending' = RemoveAt(pending, i)
          /\ submitted' = submitted \cup pending[i].calls
    BY <1>5 DEF ConsumeSteer
  <2>2. /\ Ordered(RemoveAt(pending, i))
        /\ Calls(pending) = Calls(RemoveAt(pending, i)) \cup pending[i].calls
        /\ Calls(RemoveAt(pending, i)) \cap pending[i].calls = {}
    BY <1>0, <1>alive, RemoveAtKeeps
  <2>3. Ordered(pending)'
    BY <2>1, <2>2 DEF Ordered
  <2>4. phase' = phase /\ dropped' = dropped
    BY <1>5 DEF ConsumeSteer, callVars
  <2> QED
    BY <1>alive, <2>1, <2>2, <2>3, <2>4, NothingForgotten
<1>6. ASSUME NEW k \in Client \cup {Drain, Stopper}, CloseStep(k)
      PROVE  Accepted' /\ Ordered(pending)'
  BY <1>6, <1>same DEF CloseStep, AgentShutdown, Forget, sessionVars
<1>7. CASE Edit
  <2>1. ASSUME NEW i \in DOMAIN pending, DeletePrompt(i) PROVE Accepted' /\ Ordered(pending)'
    <3>1. /\ pending' = RemoveAt(pending, i) /\ dropped' = dropped \cup pending[i].calls
          /\ submitted' = submitted /\ phase' = phase
      BY <2>1 DEF DeletePrompt, callVars
    <3>2. /\ Ordered(RemoveAt(pending, i))
          /\ Calls(pending) = Calls(RemoveAt(pending, i)) \cup pending[i].calls
          /\ Calls(RemoveAt(pending, i)) \cap pending[i].calls = {}
      BY <1>0, <1>alive, RemoveAtKeeps
    <3>3. Ordered(pending)'
      BY <3>1, <3>2 DEF Ordered
    <3> QED
      BY <1>alive, <3>1, <3>2, <3>3, NothingForgotten
  <2>2. ASSUME NEW i \in DOMAIN pending, NEW s \in Text, NEW d \in {"queue", "steer"},
               UpdatePrompt(i, s, d)
        PROVE  Accepted' /\ Ordered(pending)'
    <3>1. /\ pending' = Updated(pending, i, s, d) /\ phase' = phase
          /\ submitted' = submitted /\ dropped' = dropped
      BY <2>2 DEF UpdatePrompt, callVars, logVars
    <3>2. /\ Ordered(Updated(pending, i, s, d))
          /\ Calls(Updated(pending, i, s, d)) = Calls(pending)
      BY <1>0, <1>alive, UpdatedKeeps
    <3>3. Ordered(pending)' /\ Calls(pending)' = Calls(pending)
      BY <3>1, <3>2 DEF Ordered, Calls
    <3> QED
      BY <1>alive, <3>1, <3>3 DEF Accepted
  <2> QED
    BY <1>7, <2>1, <2>2 DEF Edit
<1>8. CASE Abort
  <2>1. phase' = phase /\ submitted' = submitted
    BY <1>8 DEF Abort, callVars
  <2>2. CASE draining
    <3>1. pending' = <<>> /\ dropped' = dropped \cup Calls(pending)
      BY <1>8, <2>2 DEF Abort, discardQueue
    <3>2. DOMAIN pending' = {}
      BY <3>1
    <3>3. Ordered(pending)' /\ Calls(pending') = {}
      BY <3>2 DEF Ordered, Calls
    <3> QED
      BY <1>alive, <2>1, <3>1, <3>3, NothingForgotten
  <2>3. CASE ~draining
    BY <1>8, <1>same, <2>1, <2>3 DEF Abort, logVars
  <2> QED
    BY <2>2, <2>3
<1>9. CASE StopSession
  BY <1>9, <1>same DEF StopSession
<1> QED
  BY <1>1, <1>2, <1>3, <1>4, <1>5, <1>6, <1>7, <1>8, <1>9 DEF Next

(* While the session lives, the prompt of a queued call is in one entry of the queue,
   or submitted, or discarded, and only in one of them; a text is queued twice only
   by rewording, and steers come first: whatever clients send, edit, delete or abort
   while turns begin, fail and are drained. *)
THEOREM PromptsAreQueuedOnce == Spec => []EachPromptOnce
<1>1. Init => EachPromptOnce
  <2> SUFFICES ASSUME Init PROVE EachPromptOnce
    OBVIOUS
  <2>1. /\ DOMAIN pending = {} /\ \A c \in Client : phase[c] = "idle"
        /\ submitted = {} /\ dropped = {}
    BY DEF Init, Call
  <2>2. Calls(pending) = {}
    BY <2>1 DEF Calls
  <2> QED
    BY <2>1, <2>2 DEF EachPromptOnce
<1> QED
  BY <1>1, PromptsStep, TurnsTypeCorrect, PTL DEF Spec

-----------------------------------------------------------------------------
(* No wake-up is lost. *)

Busy == \E c \in Call : phase[c] \in InFlight
Erred == \E c \in Call : result[c] = "error"

\* Why a drain that would be refused, or that nobody has scheduled, is not needed: what
\* shuts the agent down ends the session, and an abort ends with the turn it cuts short.
WakeInv ==
  alive =>
    /\ shutdownCalled => Closing
    /\ aborting => IdleAborts \/ Busy \/ Closing \/ running
    /\ pending # <<>> => drainDue \/ Busy \/ Closing \/ running \/ aborting \/ Erred

\* The drain's own call is under way or it is not there.
DrainInv == phase[Drain] \in {"idle"} \cup InFlight

LEMMA DrainInvStep ==
  ASSUME TypeOK, DrainInv, [Next]_vars
  PROVE  DrainInv'
<1> USE CallAssumption
<1> USE DEF DrainInv, TypeOK, sessionVars, agentVars, callVars, logVars, Call, Closer,
            InFlight, InRun, Holding
<1>1. CASE UNCHANGED vars
  BY <1>1 DEF vars
<1>2. CASE DrainStep
  BY <1>2 DEF DrainStep
<1>3. ASSUME NEW c \in Client, Send(c) PROVE DrainInv'
  BY <1>3 DEF Send, RunTurnGone, RunTurnNow, RunTurnQueued
<1>4. ASSUME NEW c \in Call, TurnStep(c) PROVE DrainInv'
  <2>1. ASSUME NEW ph \in InFlight, phase' = [phase EXCEPT ![c] = ph] PROVE DrainInv'
    BY <2>1
  <2>2. CASE PrepareFailed(c) \/ Begin(c) \/ SetupDone(c) \/ SetupFailed(c)
    BY <2>1, <2>2 DEF PrepareFailed, Begin, SetupDone, SetupFailed
  <2>3. CASE (\E f \in Finish : TurnEnds(c, f)) \/ TurnThrows(c) \/ AuthFailed(c)
    BY <2>1, <2>3 DEF TurnEnds, TurnThrows, AuthFailed
  <2>4. CASE RetryRun(c) \/ RefreshFailed(c) \/ Raise(c)
    BY <2>1, <2>4 DEF RetryRun, RefreshFailed, Raise
  <2>5. CASE Settle(c)
    BY <2>5 DEF Settle, Leave
  <2> QED
    BY <1>4, <2>2, <2>3, <2>4, <2>5 DEF TurnStep
<1>5. ASSUME NEW c \in Call, ConsumeSteer(c) PROVE DrainInv'
  BY <1>5 DEF ConsumeSteer
<1>6. ASSUME NEW k \in Closer, CloseStep(k) PROVE DrainInv'
  <2>1. CASE AgentShutdown(k)
    BY <2>1 DEF AgentShutdown
  <2>2. CASE Forget(k)
    BY <2>2 DEF Forget
  <2> QED
    BY <1>6, <2>1, <2>2 DEF CloseStep
<1>7. CASE Edit \/ Abort \/ StopSession
  BY <1>7 DEF Edit, DeletePrompt, UpdatePrompt, Abort, StopSession
<1> QED
  BY <1>1, <1>2, <1>3, <1>4, <1>5, <1>6, <1>7 DEF Next

\* The end of a run shuts the agent down for nobody but a shutdown under way.
LEMMA SettledIsClosing ==
  ASSUME TypeOK, shutdownCalled => Closing, NEW c \in Call, NEW b \in BOOLEAN, RunSettles(c, b)
  PROVE  shutdownCalled' => Closing'
<1>1. CASE \E k \in Closer : teardown[k] = "awaiting" /\ awaited[k] = c
  <2>1. PICK k \in Closer : teardown[k] = "awaiting" /\ awaited[k] = c
    BY <1>1
  <2>2. teardown'[k] = "releasing"
    BY <2>1 DEF RunSettles
  <2> QED
    BY <2>2 DEF Closing
<1>2. CASE ~\E k \in Closer : teardown[k] = "awaiting" /\ awaited[k] = c
  <2>1. teardown' = teardown
    BY <1>2 DEF RunSettles, TypeOK
  <2>2. shutdownCalled' = shutdownCalled
    BY <1>2 DEF RunSettles, TypeOK
  <2> QED
    BY <2>1, <2>2 DEF Closing
<1> QED
  BY <1>1, <1>2

\* A step of a turn leaves the turn under way, unless the call returns.
LEMMA TurnKeepsWake ==
  ASSUME TypeOK, AgentInv, WakeInv, NEW c \in Call, TurnStep(c)
  PROVE  WakeInv'
<1> USE DEF sessionVars, agentVars, callVars, logVars, InFlight, InRun, Holding, TypeOK
<1>0. alive' = alive
  BY DEF TurnStep, PrepareFailed, Begin, SetupDone, SetupFailed, TurnEnds, TurnThrows,
         AuthFailed, RetryRun, RefreshFailed, Settle, Raise
<1>1. CASE ~alive
  BY <1>0, <1>1 DEF WakeInv
<1>2. ASSUME alive, UNCHANGED <<shutdownCalled, teardown>>, phase'[c] \in InFlight
      PROVE  WakeInv'
  BY <1>0, <1>2 DEF WakeInv, Busy, Closing
<1>3. ASSUME alive, NEW b \in BOOLEAN, RunSettles(c, b), phase'[c] \in InFlight
      PROVE  WakeInv'
  <2>1. shutdownCalled' => Closing'
    BY <1>3, SettledIsClosing DEF WakeInv
  <2>2. Busy'
    BY <1>3 DEF Busy
  <2> QED
    BY <2>1, <2>2 DEF WakeInv
<1>4. CASE alive
  <2>1. CASE PrepareFailed(c)
    BY <1>2, <1>4, <2>1 DEF PrepareFailed
  <2>2. CASE Begin(c)
    BY <1>2, <1>4, <2>2 DEF Begin
  <2>3. CASE SetupDone(c)
    BY <1>2, <1>4, <2>3 DEF SetupDone
  <2>4. CASE SetupFailed(c)
    BY <1>3, <1>4, <2>4 DEF SetupFailed
  <2>5. ASSUME NEW f \in Finish, TurnEnds(c, f) PROVE WakeInv'
    BY <1>3, <1>4, <2>5 DEF TurnEnds
  <2>6. CASE TurnThrows(c)
    BY <1>3, <1>4, <2>6 DEF TurnThrows
  <2>7. CASE AuthFailed(c)
    BY <1>2, <1>4, <2>7 DEF AuthFailed
  <2>8. CASE RetryRun(c)
    BY <1>2, <1>3, <1>4, <2>8 DEF RetryRun
  <2>9. CASE RefreshFailed(c)
    BY <1>3, <1>4, <2>9 DEF RefreshFailed
  <2>10. CASE Settle(c)
    <3>1. /\ aborting' = FALSE /\ drainDue' = (result[c] # "error")
          /\ UNCHANGED <<alive, shutdownCalled, teardown, result>>
      BY <2>10 DEF Settle
    <3> QED
      BY <3>1 DEF WakeInv, Closing, Erred
  <2>11. CASE Raise(c)
    <3>1. phase'[c] \in {"settling", "failing"} /\ UNCHANGED shutdownCalled
      BY <2>11 DEF Raise
    <3>2. CASE UNCHANGED teardown
      BY <1>2, <1>4, <3>1, <3>2
    <3>3. CASE teardown' = [teardown EXCEPT ![c] = "flushing"]
      <4>1. Closing' /\ Busy'
        BY <3>1, <3>3 DEF Closing, Busy, Closer
      <4> QED
        BY <4>1 DEF WakeInv
    <3> QED
      BY <2>11, <3>2, <3>3 DEF Raise, ShutdownBegins
  <2> QED
    BY <2>1, <2>2, <2>3, <2>4, <2>5, <2>6, <2>7, <2>8, <2>9, <2>10, <2>11 DEF TurnStep
<1> QED
  BY <1>1, <1>4

\* A change of the queue schedules a drain, unless there is no use in one.
LEMMA ScheduleKeepsWake ==
  ASSUME TypeOK, AgentInv, DrainInv, WakeInv, ScheduleDrain,
         UNCHANGED <<alive, aborting, drained, agentVars, teardown, result>>,
         \A c \in Call : phase[c] \in InFlight => phase'[c] = phase[c]
  PROVE  WakeInv'
<1>1. draining => Busy
  BY DEF AgentInv, DrainInv, Busy, Call
<1>2. (Busy => Busy') /\ Closing' = Closing /\ Erred' = Erred
  BY DEF Busy, Closing, Erred
<1>3. UNCHANGED <<alive, aborting, running, shutdownCalled>>
  BY DEF agentVars
<1>4. CASE ~alive
  BY <1>3, <1>4 DEF WakeInv
<1>5. CASE alive
  <2>1. pending' # <<>> => drainDue' \/ aborting \/ draining \/ running \/ shutdownCalled
    BY DEF ScheduleDrain, canStartRun
  <2>2. /\ shutdownCalled => Closing
        /\ aborting => IdleAborts \/ Busy \/ Closing \/ running
    BY <1>5 DEF WakeInv
  <2> QED
    BY <1>1, <1>2, <1>3, <2>1, <2>2 DEF WakeInv
<1> QED
  BY <1>4, <1>5

LEMMA WakeInvStep ==
  ASSUME TypeOK, AgentInv, DrainInv, WakeInv, [Next]_vars
  PROVE  WakeInv'
<1> USE CallAssumption
<1> USE DEF sessionVars, agentVars, callVars, logVars
<1>1. CASE UNCHANGED vars
  BY <1>1 DEF vars, WakeInv, Busy, Closing, Erred
<1>2. CASE DrainStep
  <2>1. UNCHANGED <<alive, aborting, agentVars, teardown, result>> /\ drainDue' = FALSE
    BY <1>2 DEF DrainStep
  <2>2. CASE phase' = [phase EXCEPT ![Drain] = "preparing"]
    <3>1. Busy' /\ Closing' = Closing
      BY <2>1, <2>2 DEF Busy, Closing, TypeOK, Call, InFlight
    <3> QED
      BY <2>1, <3>1 DEF WakeInv
  <2>3. CASE /\ UNCHANGED <<phase, pending>>
             /\ ~(alive /\ ~aborting /\ ~draining /\ canStartRun /\ pending # <<>>)
    <3>1. Busy' = Busy /\ Closing' = Closing /\ Erred' = Erred
      BY <2>1, <2>3 DEF Busy, Closing, Erred
    <3>2. draining => Busy
      BY DEF AgentInv, DrainInv, Busy, Call
    <3>3. alive /\ pending # <<>> => aborting \/ Busy \/ running \/ shutdownCalled
      BY <2>3, <3>2 DEF canStartRun
    <3> QED
      BY <2>1, <2>3, <3>1, <3>3 DEF WakeInv
  <2> QED
    BY <1>2, <2>2, <2>3 DEF DrainStep
<1>3. ASSUME NEW c \in Client, Send(c) PROVE WakeInv'
  <2>1. CASE RunTurnGone(c)
    BY <2>1 DEF RunTurnGone, WakeInv
  <2>2. CASE RunTurnNow(c)
    <3>1. Busy' /\ Closing' = Closing
      BY <2>2 DEF RunTurnNow, Busy, Closing, TypeOK, Call, InFlight
    <3> QED
      BY <2>2, <3>1 DEF RunTurnNow, WakeInv
  <2>3. ASSUME NEW d \in {"auto", "queue", "steer"}, RunTurnQueued(c, d) PROVE WakeInv'
    <3>1. \A x \in Call : phase[x] \in InFlight => phase'[x] = phase[x]
      BY <2>3 DEF RunTurnQueued, TypeOK, InFlight, InRun, Holding
    <3> QED
      BY <2>3, <3>1, ScheduleKeepsWake DEF RunTurnQueued
  <2> QED
    BY <1>3, <2>1, <2>2, <2>3 DEF Send
<1>4. ASSUME NEW c \in Call, TurnStep(c) PROVE WakeInv'
  BY <1>4, TurnKeepsWake
<1>5. ASSUME NEW c \in Call, ConsumeSteer(c) PROVE WakeInv'
  <2>1. Busy'
    BY <1>5 DEF ConsumeSteer, Busy, InFlight, InRun, Holding
  <2>2. Closing' = Closing /\ UNCHANGED <<alive, shutdownCalled>>
    BY <1>5 DEF ConsumeSteer, Closing
  <2> QED
    BY <2>1, <2>2 DEF WakeInv
<1>6. ASSUME NEW k \in Closer, CloseStep(k) PROVE WakeInv'
  <2>1. CASE AgentShutdown(k)
    <3>1. teardown'[k] \in {"awaiting", "releasing"}
      BY <2>1 DEF AgentShutdown, TypeOK
    <3>2. Closing' /\ Busy' = Busy /\ Erred' = Erred
      BY <2>1, <3>1 DEF AgentShutdown, Closing, Busy, Erred
    <3> QED
      BY <2>1, <3>2 DEF AgentShutdown, WakeInv
  <2>2. CASE Forget(k)
    BY <2>2 DEF Forget, WakeInv
  <2> QED
    BY <1>6, <2>1, <2>2 DEF CloseStep
<1>7. CASE Edit
  BY <1>7, ScheduleKeepsWake DEF Edit, DeletePrompt, UpdatePrompt
<1>8. CASE Abort
  <2>1. Busy' = Busy /\ Closing' = Closing /\ Erred' = Erred
    BY <1>8 DEF Abort, Busy, Closing, Erred
  <2>2. IdleAborts \/ Busy
    BY <1>8 DEF Abort, Busy
  <2>3. aborting' /\ UNCHANGED <<alive, shutdownCalled, running>>
    BY <1>8 DEF Abort
  <2> QED
    BY <2>1, <2>2, <2>3 DEF WakeInv
<1>9. CASE StopSession
  <2>1. Closing'
    BY <1>9 DEF StopSession, Closing, Closer, TypeOK
  <2> QED
    BY <2>1 DEF WakeInv
<1> QED
  BY <1>1, <1>2, <1>3, <1>4, <1>5, <1>6, <1>7, <1>8, <1>9 DEF Next

LEMMA WakeInvariant == Spec => [](DrainInv /\ WakeInv)
<1>1. Init => DrainInv /\ WakeInv
  BY DEF Init, DrainInv, WakeInv, Call
<1>2. TypeOK /\ AgentInv /\ DrainInv /\ WakeInv /\ [Next]_vars => DrainInv' /\ WakeInv'
  BY DrainInvStep, WakeInvStep
<1> QED
  BY <1>1, <1>2, TurnsTypeCorrect, TurnsOneAtATime, PTL DEF Spec

(* While prompts are queued a drain is due, or something is under way whose end
   drains the queue or ends the session; what else keeps them is named.          *)
THEOREM NoWakeUpIsLost == Spec => []NoPromptIsForgotten
<1>1. WakeInv => NoPromptIsForgotten
  <2> SUFFICES ASSUME WakeInv, alive, pending # <<>>, ~drainDue, ~Busy, ~Closing, ~Erred,
                      ~(IdleAborts /\ aborting)
               PROVE  AgentStuck
    BY DEF NoPromptIsForgotten, Busy, Erred
  <2>1. running
    BY DEF WakeInv
  <2> QED
    BY <2>1 DEF AgentStuck, Busy, InFlight, InRun
<1> QED
  BY <1>1, WakeInvariant, PTL

\* A call that fails shuts its session down, and has when it throws.
FailInv ==
  \A c \in Call :
    /\ phase[c] = "failing" => teardown[c] \in {"flushing", "awaiting", "releasing"}
    /\ phase[c] = "failed" => ~alive

LEMMA FailInvStep ==
  ASSUME TypeOK, AgentInv, FailInv, [Next]_vars
  PROVE  FailInv'
<1> USE CallAssumption
<1> USE DEF TypeOK, sessionVars, agentVars, callVars, logVars, Call, Closer
<1>1. CASE UNCHANGED vars
  BY <1>1 DEF vars, FailInv
<1>2. CASE DrainStep
  BY <1>2 DEF DrainStep, FailInv
<1>3. ASSUME NEW c \in Client, Send(c) PROVE FailInv'
  BY <1>3 DEF Send, RunTurnGone, RunTurnNow, RunTurnQueued, FailInv
<1>4. ASSUME NEW c \in Call, TurnStep(c) PROVE FailInv'
  <2>0. alive' = alive
    BY <1>4 DEF TurnStep, PrepareFailed, Begin, SetupDone, SetupFailed, TurnEnds, TurnThrows,
                AuthFailed, RetryRun, RefreshFailed, Settle, Raise
  <2>1. ASSUME NEW ph \in Phase \ {"failing", "failed"}, phase' = [phase EXCEPT ![c] = ph],
               \A x \in Call : teardown[x] \in {"flushing", "awaiting", "releasing"}
                                => teardown'[x] \in {"flushing", "awaiting", "releasing"}
        PROVE  FailInv'
    BY <2>0, <2>1 DEF FailInv
  <2>2. ASSUME NEW b \in BOOLEAN, RunSettles(c, b), NEW x \in Call,
               teardown[x] \in {"flushing", "awaiting", "releasing"}
        PROVE  teardown'[x] \in {"flushing", "awaiting", "releasing"}
    BY <2>2 DEF RunSettles
  <2> USE DEF Phase, InFlight, InRun, Holding
  <2>3. CASE PrepareFailed(c) \/ Begin(c) \/ SetupDone(c)
    BY <2>1, <2>3 DEF PrepareFailed, Begin, SetupDone
  <2>4. CASE SetupFailed(c) \/ (\E f \in Finish : TurnEnds(c, f)) \/ TurnThrows(c)
    BY <2>1, <2>2, <2>4 DEF SetupFailed, TurnEnds, TurnThrows
  <2>5. CASE AuthFailed(c) \/ RetryRun(c) \/ RefreshFailed(c)
    BY <2>1, <2>2, <2>5 DEF AuthFailed, RetryRun, RefreshFailed
  <2>6. CASE Settle(c)
    BY <2>1, <2>6 DEF Settle, Leave
  <2>7. CASE Raise(c)
    <3>1. CASE aborting
      BY <2>1, <2>7, <3>1 DEF Raise
    <3>2. CASE ~aborting
      BY <2>0, <2>7, <3>2 DEF Raise, ShutdownBegins, FailInv
    <3> QED
      BY <3>1, <3>2
  <2> QED
    BY <1>4, <2>3, <2>4, <2>5, <2>6, <2>7 DEF TurnStep
<1>5. ASSUME NEW c \in Call, ConsumeSteer(c) PROVE FailInv'
  BY <1>5 DEF ConsumeSteer, FailInv
<1>6. ASSUME NEW k \in Closer, CloseStep(k) PROVE FailInv'
  <2>1. CASE AgentShutdown(k)
    BY <2>1 DEF AgentShutdown, FailInv
  <2>2. CASE Forget(k)
    <3>1. alive' = FALSE
      BY <2>2 DEF Forget
    <3>2. \A c \in Call : phase'[c] = "failing" => phase[c] = "failing" /\ c # k
      BY <2>2 DEF Forget
    <3>3. \A c \in Call : c # k => teardown'[c] = teardown[c]
      BY <2>2 DEF Forget
    <3> QED
      BY <3>1, <3>2, <3>3 DEF FailInv
  <2> QED
    BY <1>6, <2>1, <2>2 DEF CloseStep
<1>7. CASE Edit \/ Abort \/ StopSession
  BY <1>7 DEF Edit, DeletePrompt, UpdatePrompt, Abort, StopSession, FailInv
<1> QED
  BY <1>1, <1>2, <1>3, <1>4, <1>5, <1>6, <1>7 DEF Next

(* runTurn queues a prompt behind another turn, or because the session is ending or its
   agent stuck, and throws only with the end of its session.                            *)
THEOREM AnswersHaveCauses == Spec => []AnswersAreForCause
<1>1. Init => FailInv
  BY DEF Init, FailInv
<1>2. TypeOK /\ AgentInv /\ FailInv /\ [Next]_vars => FailInv'
  BY FailInvStep
<1>3. WakeInv /\ FailInv => AnswersAreForCause
  <2> SUFFICES ASSUME WakeInv, alive, ~canStartRun, ~Busy, ~Closing PROVE AgentStuck
    BY DEF AnswersAreForCause, FailInv, Busy
  <2>1. running
    BY DEF WakeInv, canStartRun
  <2> QED
    BY <2>1 DEF AgentStuck, Busy, InFlight, InRun
<1> QED
  BY <1>1, <1>2, <1>3, WakeInvariant, TurnsTypeCorrect, TurnsOneAtATime, PTL DEF Spec

(* All of it, for any number of clients, prompts, failures and gestures. *)
THEOREM TurnsAreConsistent == Spec => []TurnsInv
  BY TurnsTypeCorrect, TurnsOneAtATime, NoWakeUpIsLost, AnswersHaveCauses, PTL DEF TurnsInv

=============================================================================
