------------------------------ MODULE HubEvents ------------------------------
(***************************************************************************)
(* The events of the hub on their way to a client, and the tool approvals  *)
(* that are asked for with them: HubEventLogStore, publish and subscribe   *)
(* of the hub's transport, the replay of BrowserWebSocketHubAdapter, and   *)
(* the cursors of NodeHubClient, which reconnects under the same id.  The  *)
(* hub runs on one event loop; what stands between two awaits is one step. *)
(***************************************************************************)
EXTENDS Integers, Sequences, FiniteSets

CONSTANTS
  Session, Approval,
  SessionOf,     \* of an approval
  None,
  All,           \* the key of the subscription to every session
  PageSize,
  KeySets,       \* bound: the subscriptions of the client, one of these sets
  MaxEmitted,    \* bound: events before a session emits no more
  MaxFaults      \* bound, for each: prunings, connections that drop, hubs that end

ASSUME ApprovalAssumption == SessionOf \in [Approval -> Session]
ASSUME NameAssumption ==
  /\ None \notin Approval /\ All \notin Session
  /\ Approval \cap Nat = {} /\ IsFiniteSet(Approval)
ASSUME BoundAssumption ==
  /\ PageSize \in Nat \ {0} /\ MaxEmitted \in Nat /\ MaxFaults \in [KeySets -> Nat]
  /\ KeySets \subseteq SUBSET (Session \cup {All})

Key == Session \cup {All}

VARIABLES
  \* the hub
  hubUp,
  events,       \* published, with the sequence numbers they were logged under
  oldest,       \* the first of events that is still logged
  approval,
  subs,         \* of the client's present connection: a subscription for each key
  stale,        \* connections of the client that have gone, which the hub has yet to notice
  \* on the wire
  down,         \* frames to the client: events, or approvals issued again
  subscribing,  \* keys whose subscription is on its way, and the cursors they carry
  answers,      \* approvals whose answer is, or waits for the connection
  \* the client
  on,
  keys,
  cursor,       \* lastEventSequenceByKey, 0 if there is none
  seen,         \* events its listeners have got
  shown,        \* approvals its user has yet to answer
  faults

hub == <<hubUp, events, oldest, approval, subs, stale>>
wire == <<down, subscribing, answers>>
client == <<on, keys, cursor, seen, shown>>
vars == <<hub, wire, client, faults>>

Logged == {i \in DOMAIN events : i >= oldest}
Matches(k, s) == k = All \/ k = s

Event == [sequence : Nat, session : Session, asks : Approval \cup {None}]

\* A frame is an event's index or, as it has no sequence number, an approval.
Frame == Nat \cup Approval
NoSub == [mode |-> "none", hears |-> FALSE, last |-> 0, buffer |-> <<>>, ids |-> {}]

TypeOK ==
  /\ hubUp \in BOOLEAN /\ oldest \in Nat \ {0}
  /\ events \in Seq(Event)
  /\ approval \in [Approval -> {"none", "asking", "pending", "answered", "cancelled", "gone"}]
  /\ subs \in [Key -> [mode : {"none", "replaying", "live"}, hears : BOOLEAN, last : Nat,
                       buffer : Seq(Frame), ids : SUBSET Approval]]
  /\ stale \in Nat
  /\ down \in Seq(Frame)
  /\ subscribing \subseteq Key \X Nat /\ answers \subseteq Approval
  /\ on \in BOOLEAN /\ keys \in KeySets /\ cursor \in [Key -> Nat]
  /\ seen \subseteq DOMAIN events /\ shown \subseteq Approval
  /\ faults \in 0 .. MaxFaults[keys]

Init ==
  /\ hubUp = TRUE /\ events = <<>> /\ oldest = 1
  /\ approval = [a \in Approval |-> "none"]
  /\ subs = [k \in Key |-> NoSub] /\ stale = 0
  /\ down = <<>> /\ subscribing = {} /\ answers = {}
  /\ on = FALSE /\ keys \in KeySets /\ cursor = [k \in Key |-> 0]
  /\ seen = {} /\ shown = {} /\ faults = 0

-----------------------------------------------------------------------------
(* Publishing. *)

\* Mutant of NewSequence: the number after the newest event that is still logged.
NewSequenceOfLog == IF Logged = {} THEN 1 ELSE events[Len(events)].sequence + 1

\* AUTOINCREMENT: numbers are not used again, whatever has been pruned.
NewSequence == IF events = <<>> THEN 1 ELSE events[Len(events)].sequence + 1

Hearing(s) == {k \in Key : subs[k].hears /\ Matches(k, s)}

\* Mutant of Gate: what is published during a replay is sent at once.
GateOpen(sub, i) == [sub EXCEPT !.last = events'[i].sequence]

\* The gate of a subscription holds back what is published during its replay.
Gate(sub, i) ==
  IF sub.mode = "live" THEN sub ELSE [sub EXCEPT !.buffer = Append(@, i)]

Sends(sub, i) == Gate(sub, i).buffer = sub.buffer

\* publish: one event of session s, which may ask for an approval, to the log and
\* to every listener of the client.
Publish(s, a) ==
  LET i == Len(events) + 1
      sent == {k \in Hearing(s) : Sends(subs[k], i)}
  IN /\ events' = Append(events, [sequence |-> NewSequence, session |-> s, asks |-> a])
     /\ subs' = [k \in Key |-> IF k \in Hearing(s) THEN Gate(subs[k], i) ELSE subs[k]]
     /\ down' = IF sent = {} THEN down
                ELSE down \o [j \in 1 .. Cardinality(sent) |-> i]

\* An event of a session; sessions emit them while they are not enough.
Emit(s) ==
  /\ hubUp /\ Len(events) < MaxEmitted
  /\ Publish(s, None)
  /\ UNCHANGED <<hubUp, oldest, approval, stale, subscribing, answers, client, faults>>

\* Retention, row cap and size: the oldest go, by age perhaps all.
Prune ==
  /\ hubUp /\ oldest <= Len(events) /\ faults < MaxFaults[keys] /\ faults' = faults + 1
  /\ oldest' \in (oldest + 1) .. (Len(events) + 1)
  /\ UNCHANGED <<hubUp, events, approval, subs, stale, wire, client>>

-----------------------------------------------------------------------------
(* Approvals. *)

\* requestToolApproval, up to the session it looks up.
Ask(a) ==
  /\ hubUp /\ approval[a] = "none"
  /\ approval' = [approval EXCEPT ![a] = "asking"]
  /\ UNCHANGED <<hubUp, events, oldest, subs, stale, wire, client, faults>>

Register(a) ==
  /\ hubUp /\ approval[a] = "asking"
  /\ approval' = [approval EXCEPT ![a] = "pending"]
  /\ Publish(SessionOf[a], a)
  /\ UNCHANGED <<hubUp, oldest, stale, subscribing, answers, client, faults>>

\* approval.respond: the first answer is taken.
Respond(a) ==
  /\ on /\ a \in answers
  /\ answers' = answers \ {a}
  /\ IF approval[a] = "pending"
       THEN /\ approval' = [approval EXCEPT ![a] = "answered"]
            /\ Publish(SessionOf[a], None)
       ELSE UNCHANGED <<approval, events, subs, down>>
  /\ UNCHANGED <<hubUp, oldest, stale, subscribing, client, faults>>

\* cancelPendingApprovals, for a run that is aborted or times out.  What is still
\* being asked for is not found.
Cancel(a) ==
  /\ hubUp /\ approval[a] = "pending"
  /\ approval' = [approval EXCEPT ![a] = "cancelled"]
  /\ Publish(SessionOf[a], None)
  /\ UNCHANGED <<hubUp, oldest, stale, subscribing, answers, client, faults>>

-----------------------------------------------------------------------------
(* Subscriptions. *)

\* The members of S in ascending order.
Ascending(S) ==
  [j \in 1 .. Cardinality(S) |->
     CHOOSE i \in S : Cardinality({x \in S : x <= i}) = j]

\* listAfter: the first events logged after the cursor.
Missed(k, last) ==
  Ascending({i \in Logged : /\ events[i].sequence > last
                            /\ Matches(k, events[i].session)})
Page(k, last) == SubSeq(Missed(k, last), 1, IF Len(Missed(k, last)) < PageSize
                                            THEN Len(Missed(k, last)) ELSE PageSize)

\* What was held back, by its place, and has not been sent already: an approval
\* that no page has brought, an event after the last one sent.
Kept(sub) ==
  {j \in DOMAIN sub.buffer :
     IF sub.buffer[j] \in Approval THEN sub.buffer[j] \notin sub.ids
                                  ELSE events[sub.buffer[j]].sequence > sub.last}

Flush(sub) ==
  [n \in 1 .. Cardinality(Kept(sub)) |-> sub.buffer[Ascending(Kept(sub))[n]]]

\* One turn of the replay of subscription k: a page or, if there is none, the end.
Turn(k, sub) ==
  LET page == Page(k, sub.last)
  IN IF page # <<>>
       THEN /\ down' = down \o page
            /\ subs' = [subs EXCEPT ![k] =
                 [sub EXCEPT !.last = events[page[Len(page)]].sequence,
                             !.ids = (@ \cup {events[page[j]].asks : j \in DOMAIN page}) \ {None}]]
       ELSE /\ down' = down \o Flush(sub)
            /\ subs' = [subs EXCEPT ![k] =
                 [NoSub EXCEPT !.mode = "live", !.hears = sub.hears]]

\* Mutant of Pending: nothing is issued again.
PendingNone(k) == {}

\* The pending approvals that a subscription issues again.
Pending(k) == {a \in Approval : approval[a] = "pending" /\ Matches(k, SessionOf[a])}

Issued(k) == CHOOSE q \in [1 .. Cardinality(Pending(k)) -> Pending(k)] :
               \A a \in Pending(k) : \E j \in DOMAIN q : q[j] = a

\* stream.subscribe: with a cursor, the first page goes out at once.
Subscribe(k, since) ==
  /\ hubUp /\ <<k, since>> \in subscribing
  /\ subscribing' = subscribing \ {<<k, since>>}
  /\ IF since = 0
       THEN /\ down' = down \o Issued(k)
            /\ subs' = [subs EXCEPT ![k] = [NoSub EXCEPT !.mode = "live", !.hears = TRUE]]
       ELSE Turn(k, [NoSub EXCEPT !.mode = "replaying", !.hears = TRUE, !.last = since,
                                  !.buffer = Issued(k)])
  /\ UNCHANGED <<hubUp, events, oldest, approval, stale, answers, client, faults>>

Replay(k) ==
  /\ hubUp /\ subs[k].mode = "replaying"
  /\ Turn(k, subs[k])
  /\ UNCHANGED <<hubUp, events, oldest, approval, stale, subscribing, answers, client, faults>>

-----------------------------------------------------------------------------
(* Connections, the client, and the process. *)

\* The client connects and registers, then sends its subscriptions.
Connect ==
  /\ hubUp /\ ~on
  /\ on' = TRUE
  /\ subscribing' = {<<k, cursor[k]>> : k \in keys}
  /\ UNCHANGED <<hub, down, answers, keys, cursor, seen, shown, faults>>

\* The connection drops, with what is on the wire.  The answers are sent once more
\* when the client is back, or given up.
Drop ==
  /\ on /\ faults < MaxFaults[keys] /\ faults' = faults + 1
  /\ on' = FALSE /\ stale' = stale + 1
  /\ subs' = [k \in Key |-> NoSub]
  /\ down' = <<>> /\ subscribing' = {} /\ answers' \in {answers, {}}
  /\ UNCHANGED <<hubUp, events, oldest, approval, keys, cursor, seen, shown>>

\* The hub notices, at the close or by its heartbeat, perhaps after the client is
\* back: it unregisters the client, whose listeners go, those of the new connection
\* with them.
NoticeClose ==
  /\ hubUp /\ stale > 0 /\ stale' = stale - 1
  /\ subs' = [k \in Key |-> [subs[k] EXCEPT !.hears = FALSE]]
  /\ UNCHANGED <<hubUp, events, oldest, approval, wire, client, faults>>

\* The hub stops or crashes, and with it the sessions that asked for approvals.
HubEnds ==
  /\ hubUp /\ faults < MaxFaults[keys] /\ faults' = faults + 1
  /\ hubUp' = FALSE /\ on' = FALSE /\ stale' = 0
  /\ approval' = [a \in Approval |->
       IF approval[a] \in {"asking", "pending"} THEN "gone" ELSE approval[a]]
  /\ subs' = [k \in Key |-> NoSub]
  /\ down' = <<>> /\ subscribing' = {} /\ answers' \in {answers, {}}
  /\ UNCHANGED <<events, oldest, keys, cursor, seen, shown>>

HubStarts ==
  /\ ~hubUp /\ hubUp' = TRUE
  /\ UNCHANGED <<events, oldest, approval, subs, stale, wire, client, faults>>

\* handleFrame: a cursor follows every event of its key, whichever subscription
\* has brought it.
Receive ==
  /\ down # <<>> /\ down' = Tail(down)
  /\ LET f == Head(down)
     IN IF f \in Approval
          THEN /\ shown' = shown \cup {f}
               /\ UNCHANGED <<cursor, seen>>
          ELSE /\ cursor' = [k \in Key |->
                    IF k \in keys /\ Matches(k, events[f].session)
                       /\ events[f].sequence > cursor[k]
                      THEN events[f].sequence ELSE cursor[k]]
               /\ seen' = seen \cup {f}
               /\ shown' = shown \cup ({events[f].asks} \ {None})
  /\ UNCHANGED <<hub, subscribing, answers, on, keys, faults>>

Answer(a) ==
  /\ on /\ a \in shown
  /\ shown' = shown \ {a} /\ answers' = answers \cup {a}
  /\ UNCHANGED <<hub, down, subscribing, on, keys, cursor, seen, faults>>

Next ==
  \/ \E s \in Session : Emit(s)
  \/ \E a \in Approval : Ask(a) \/ Register(a) \/ Respond(a) \/ Cancel(a) \/ Answer(a)
  \/ \E k \in Key : Replay(k) \/ \E x \in subscribing : x[1] = k /\ Subscribe(k, x[2])
  \/ Prune \/ Connect \/ Drop \/ NoticeClose \/ HubEnds \/ HubStarts \/ Receive

Spec == Init /\ [][Next]_vars

\* Both event loops go on, frames arrive, the client comes back and its user answers,
\* and a hub that has ended is started again.
Fairness ==
  /\ WF_vars(Connect) /\ WF_vars(NoticeClose) /\ WF_vars(HubStarts) /\ WF_vars(Receive)
  /\ \A k \in Key : WF_vars(Replay(k) \/ \E x \in subscribing : x[1] = k /\ Subscribe(k, x[2]))
  /\ \A a \in Approval : WF_vars(Register(a) \/ Respond(a)) /\ WF_vars(Answer(a))
FairSpec == Spec /\ Fairness
-----------------------------------------------------------------------------
(* Properties. *)

IsEvent(j) == down[j] \notin Approval

\* What one subscription sends arrives in order, nothing twice.
InOrder ==
  \A k \in Key : keys = {k} =>
    \A j \in DOMAIN down : IsEvent(j) =>
      /\ events[down[j]].sequence > cursor[k]
      /\ \A i \in 1 .. (j - 1) : IsEvent(i) =>
           events[down[i]].sequence < events[down[j]].sequence

\* Over drops and restarts a client with one subscription has got everything from
\* the first event it got to its cursor, but for what was pruned before it came back.
NothingMissed ==
  \A k \in Key : keys = {k} =>
    \A i \in DOMAIN events :
      (/\ Matches(k, events[i].session) /\ i >= oldest
       /\ events[i].sequence <= cursor[k] /\ \E x \in seen : x < i)
      => i \in seen

\* Over drops and restarts of either side, what a client with one subscription gets
\* is a feed of the log: each event is the next one that is still logged.
OneKeyed == \E k \in Key : keys = {k}
Wanted == {i \in DOMAIN events : OneKeyed /\ \E k \in keys : Matches(k, events[i].session)}
Feed == INSTANCE EventFeed WITH
          published <- Len(events), wanted <- Wanted, got <- {i \in seen : OneKeyed}
FeedSpec == Feed!Spec

\* An approval is on its way or shown, or its answer is on its way.
Available(a) ==
  \/ a \in shown \cup answers
  \/ \E j \in DOMAIN down : \/ down[j] = a
                            \/ IsEvent(j) /\ events[down[j]].asks = a

\* The event that asked for an approval is no longer logged, and a later one has been
\* sent: if it was held back during a replay, the flush has left it out.
Overtaken(a) ==
  \E i \in DOMAIN events :
    /\ events[i].asks = a /\ i < oldest
    /\ \/ \E j \in seen : j > i
       \/ \E j \in DOMAIN down : IsEvent(j) /\ down[j] > i

\* No approval is pending behind the back of a client that is there, unless the event
\* that asked for it was pruned and overtaken.
PendingIsShown ==
  \A a \in Approval, k \in Key :
    approval[a] = "pending" /\ subs[k].mode = "live" /\ subs[k].hears
      /\ Matches(k, SessionOf[a])
    => Available(a) \/ Overtaken(a)

\* What is sent keeps the order of the log, nothing is missed, and no approval is hidden.
EventsInv == TypeOK /\ InOrder /\ NothingMissed /\ PendingIsShown

\* The late end of an older connection has made the client deaf: it is connected and
\* has subscribed, and nobody sends it anything.
Deaf == \E k \in Key : subs[k].mode # "none" /\ ~subs[k].hears

\* Every approval that a client might be asked for is answered or cancelled in the
\* end, or goes with the hub, however often the client was away when it was asked,
\* unless the event that asked for it was pruned and overtaken.
ApprovalsSettle ==
  \A a \in Approval :
    (approval[a] = "pending" /\ \E k \in keys : Matches(k, SessionOf[a]))
    ~> (approval[a] # "pending" \/ Deaf \/ Overtaken(a))

\* A client with one subscription that has got an event gets every later one, unless
\* it is pruned before or the client has become deaf.
EventsArrive ==
  \A i \in 1 .. MaxEmitted :
    (/\ Cardinality(keys) = 1 /\ i \in DOMAIN events
     /\ \E x \in seen : x < i
     /\ \E k \in keys : Matches(k, events[i].session))
    ~> (i \in seen \/ i < oldest \/ Deaf)

=============================================================================
