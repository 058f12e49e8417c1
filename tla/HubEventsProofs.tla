-------------------------- MODULE HubEventsProofs --------------------------
(***************************************************************************)
(* Theorems about the delivery of hub events and approvals, for any number *)
(* of sessions, approvals, events, subscriptions and disturbances, and     *)
(* pages of any size.                                                      *)
(***************************************************************************)
EXTENDS HubEvents, SequenceTheorems, FiniteSetTheorems, FunctionTheorems, TLAPS

-----------------------------------------------------------------------------
(* Ascending(S) lists S in order: the rank of a member, the number of      *)
(* members up to it, is a bijection from S to 1 .. Cardinality(S).         *)

LEMMA Ranks ==
  ASSUME NEW S, IsFiniteSet(S), S \subseteq Nat
  PROVE  LET rank == [i \in S |-> Cardinality({x \in S : x <= i})]
         IN  /\ rank \in [S -> 1 .. Cardinality(S)]
             /\ \A x, y \in S : x < y => rank[x] < rank[y]
             /\ \A j \in 1 .. Cardinality(S) : \E x \in S : rank[x] = j
<1> DEFINE upTo(i) == {x \in S : x <= i}
           rank == [i \in S |-> Cardinality(upTo(i))]
           n == Cardinality(S)
<1>1. n \in Nat
  BY FS_CardinalityType
<1>2. \A i \in S : /\ IsFiniteSet(upTo(i)) /\ Cardinality(upTo(i)) \in Nat
                   /\ Cardinality(upTo(i)) <= n
  <2> TAKE i \in S
  <2>1. upTo(i) \in SUBSET S
    OBVIOUS
  <2> HIDE DEF upTo
  <2> QED
    BY <2>1, FS_Subset, FS_CardinalityType
<1>3. \A i \in S : Cardinality(upTo(i)) >= 1
  <2> TAKE i \in S
  <2>1. i \in upTo(i)
    OBVIOUS
  <2> HIDE DEF upTo
  <2>2. upTo(i) # {}
    BY <2>1
  <2> QED
    BY <1>2, <2>2, FS_EmptySet
<1>4. rank \in [S -> 1 .. n]
  BY <1>1, <1>2, <1>3
<1>5. \A x, y \in S : x < y => rank[x] < rank[y]
  <2> SUFFICES ASSUME NEW x \in S, NEW y \in S, x < y
               PROVE  Cardinality(upTo(x)) < Cardinality(upTo(y))
    OBVIOUS
  <2>1. x \in Nat /\ y \in Nat
    OBVIOUS
  <2>2. \A z \in S : z <= x => z <= y
    <3> TAKE z \in S
    <3>1. z \in Nat
      OBVIOUS
    <3> QED
      BY <2>1, <3>1
  <2>a. upTo(x) \in SUBSET upTo(y)
    BY <2>2, Zenon
  <2>b. y \in upTo(y)
    BY <2>1
  <2>c. y \notin upTo(x)
    BY <2>1
  <2>3. upTo(x) \in SUBSET upTo(y) /\ y \in upTo(y) /\ y \notin upTo(x)
    BY <2>a, <2>b, <2>c
  <2> HIDE DEF upTo
  <2>4. /\ Cardinality(upTo(x)) <= Cardinality(upTo(y))
        /\ Cardinality(upTo(x)) # Cardinality(upTo(y))
    BY <1>2, <2>3, FS_Subset
  <2> QED
    BY <1>2, <2>4
<1> HIDE DEF rank
<1>6. rank \in Injection(S, 1 .. n)
  <2>1. \A x, y \in S : rank[x] = rank[y] => x = y
    <3> TAKE x \in S, y \in S
    <3>1. x \in Nat /\ y \in Nat /\ rank[x] \in Nat /\ rank[y] \in Nat
      BY <1>4
    <3> QED
      BY <1>5, <3>1
  <2> QED
    BY <1>4, <2>1, Fun_IsInj
<1>7. IsFiniteSet(1 .. n) /\ Cardinality(1 .. n) = n
  BY <1>1, FS_Interval
<1>8. rank \in Surjection(S, 1 .. n)
  BY <1>6, <1>7, FS_Injection
<1>9. \A j \in 1 .. n : \E x \in S : rank[x] = j
  BY <1>8 DEF Surjection
<1> QED
  BY <1>4, <1>5, <1>9 DEF rank

(* It is a sequence of the members of S, each once, in ascending order.     *)
LEMMA AscendingOrder ==
  ASSUME NEW S, IsFiniteSet(S), S \subseteq Nat
  PROVE  /\ Cardinality(S) \in Nat
         /\ Ascending(S) \in [1 .. Cardinality(S) -> S]
         /\ \A i, j \in 1 .. Cardinality(S) : i < j => Ascending(S)[i] < Ascending(S)[j]
         /\ \A x \in S : \E j \in 1 .. Cardinality(S) : Ascending(S)[j] = x
<1> DEFINE rank == [i \in S |-> Cardinality({x \in S : x <= i})]
           n == Cardinality(S)
<1>1. n \in Nat
  BY FS_CardinalityType
<1>2. /\ rank \in [S -> 1 .. n]
      /\ \A x, y \in S : x < y => rank[x] < rank[y]
      /\ \A j \in 1 .. n : \E x \in S : rank[x] = j
  BY Ranks
<1>3. \A x \in S : rank[x] = Cardinality({y \in S : y <= x})
  OBVIOUS
<1> HIDE DEF rank, n
<1>4. \A j \in 1 .. n : Ascending(S)[j] \in S /\ rank[Ascending(S)[j]] = j
  <2> TAKE j \in 1 .. n
  <2>1. \E x \in S : Cardinality({y \in S : y <= x}) = j
    BY <1>2, <1>3
  <2>2. Ascending(S)[j] = CHOOSE i \in S : Cardinality({y \in S : y <= i}) = j
    BY DEF Ascending, n
  <2>3. Ascending(S)[j] \in S /\ Cardinality({y \in S : y <= Ascending(S)[j]}) = j
    BY <2>1, <2>2
  <2> QED
    BY <1>3, <2>3
<1>5. Ascending(S) \in [1 .. n -> S]
  BY <1>4 DEF Ascending, n
<1>6. \A x, y \in S : rank[x] < rank[y] => x < y
  <2> TAKE x \in S, y \in S
  <2>1. x \in Nat /\ y \in Nat /\ rank[x] \in Nat /\ rank[y] \in Nat
    BY <1>1, <1>2
  <2> QED
    BY <1>2, <2>1
<1>7. \A i, j \in 1 .. n : i < j => Ascending(S)[i] < Ascending(S)[j]
  BY <1>4, <1>6
<1>8. \A x \in S : \E j \in 1 .. n : Ascending(S)[j] = x
  <2> TAKE x \in S
  <2>1. rank[x] \in 1 .. n
    BY <1>2
  <2>2. Ascending(S)[rank[x]] \in S /\ rank[Ascending(S)[rank[x]]] = rank[x]
    BY <1>4, <2>1
  <2>3. Ascending(S)[rank[x]] \in Nat /\ x \in Nat
    BY <2>2
  <2>4. rank[x] \in Nat
    BY <1>1, <2>1
  <2>5. Ascending(S)[rank[x]] = x
    BY <1>2, <2>2, <2>3, <2>4
  <2> QED
    BY <2>1, <2>5
<1> QED
  BY <1>1, <1>5, <1>7, <1>8 DEF n

-----------------------------------------------------------------------------
(* Sequences of frames: what is in them, the events among them, and their  *)
(* order.                                                                  *)

Ran(q) == {q[j] : j \in DOMAIN q}
EventsIn(q) == Ran(q) \ Approval
Rising(q) ==
  \A j \in DOMAIN q : q[j] \notin Approval =>
    \A i \in 1 .. (j - 1) : q[i] \notin Approval => q[i] < q[j]

LEMMA EventsAreNumbers ==
  ASSUME NEW q \in Seq(Frame)
  PROVE  EventsIn(q) \subseteq Nat
BY DEF EventsIn, Ran, Frame

LEMMA ConcatFrames ==
  ASSUME NEW p \in Seq(Frame), NEW q \in Seq(Frame)
  PROVE  /\ p \o q \in Seq(Frame)
         /\ Ran(p \o q) = Ran(p) \cup Ran(q)
         /\ EventsIn(p \o q) = EventsIn(p) \cup EventsIn(q)
<1>1. /\ p \o q \in Seq(Frame) /\ Len(p \o q) = Len(p) + Len(q)
      /\ \A i \in 1 .. Len(p) + Len(q) :
           (p \o q)[i] = IF i <= Len(p) THEN p[i] ELSE q[i - Len(p)]
  BY ConcatProperties
<1>2. /\ Len(p) \in Nat /\ Len(q) \in Nat
      /\ DOMAIN p = 1 .. Len(p) /\ DOMAIN q = 1 .. Len(q)
      /\ DOMAIN (p \o q) = 1 .. (Len(p) + Len(q))
  BY <1>1, LenProperties
<1>3. Ran(p \o q) \subseteq Ran(p) \cup Ran(q)
  <2> SUFFICES ASSUME NEW i \in 1 .. (Len(p) + Len(q))
               PROVE  (p \o q)[i] \in Ran(p) \cup Ran(q)
    BY <1>2 DEF Ran
  <2>1. CASE i <= Len(p)
    BY <1>1, <1>2, <2>1 DEF Ran
  <2>2. CASE ~(i <= Len(p))
    <3>1. i - Len(p) \in DOMAIN q
      BY <1>2, <2>2
    <3> QED
      BY <1>1, <2>2, <3>1 DEF Ran
  <2> QED
    BY <2>1, <2>2
<1>4. Ran(p) \subseteq Ran(p \o q)
  <2> SUFFICES ASSUME NEW i \in 1 .. Len(p)
               PROVE  p[i] \in Ran(p \o q)
    BY <1>2 DEF Ran
  <2>1. i \in DOMAIN (p \o q) /\ (p \o q)[i] = p[i]
    BY <1>1, <1>2
  <2> QED
    BY <2>1 DEF Ran
<1>5. Ran(q) \subseteq Ran(p \o q)
  <2> SUFFICES ASSUME NEW i \in 1 .. Len(q)
               PROVE  q[i] \in Ran(p \o q)
    BY <1>2 DEF Ran
  <2>1. i + Len(p) \in DOMAIN (p \o q) /\ (p \o q)[i + Len(p)] = q[i]
    BY <1>1, <1>2
  <2> QED
    BY <2>1 DEF Ran
<1> QED
  BY <1>1, <1>3, <1>4, <1>5 DEF EventsIn

LEMMA AppendFrames ==
  ASSUME NEW q \in Seq(Frame), NEW n \in Nat
  PROVE  /\ Append(q, n) \in Seq(Frame)
         /\ Ran(Append(q, n)) = Ran(q) \cup {n}
         /\ EventsIn(Append(q, n)) = EventsIn(q) \cup {n}
<1>1. n \in Frame /\ n \notin Approval
  BY NameAssumption DEF Frame
<1>2. /\ Len(q) \in Nat /\ DOMAIN q = 1 .. Len(q)
      /\ Append(q, n) \in Seq(Frame)
      /\ DOMAIN Append(q, n) = 1 .. (Len(q) + 1)
      /\ \A i \in 1 .. Len(q) : Append(q, n)[i] = q[i]
      /\ Append(q, n)[Len(q) + 1] = n
  BY <1>1
<1>3. Ran(Append(q, n)) = Ran(q) \cup {n}
  BY <1>2 DEF Ran
<1> QED
  BY <1>1, <1>2, <1>3 DEF EventsIn

LEMMA TailFrames ==
  ASSUME NEW q \in Seq(Frame), q # <<>>
  PROVE  /\ Head(q) \in Frame /\ Tail(q) \in Seq(Frame)
         /\ Ran(q) = {Head(q)} \cup Ran(Tail(q))
         /\ EventsIn(q) = ({Head(q)} \ Approval) \cup EventsIn(Tail(q))
<1>1. /\ Head(q) \in Frame /\ Tail(q) \in Seq(Frame)
      /\ Len(q) \in Nat \ {0} /\ Len(Tail(q)) = Len(q) - 1
      /\ DOMAIN q = 1 .. Len(q) /\ DOMAIN Tail(q) = 1 .. (Len(q) - 1)
      /\ Head(q) = q[1]
      /\ \A i \in 1 .. (Len(q) - 1) : Tail(q)[i] = q[i + 1]
  BY HeadTailProperties, LenProperties, EmptySeq
<1>2. Ran(q) \subseteq {Head(q)} \cup Ran(Tail(q))
  <2> SUFFICES ASSUME NEW i \in 1 .. Len(q), i # 1
               PROVE  q[i] \in Ran(Tail(q))
    BY <1>1 DEF Ran
  <2>1. i - 1 \in DOMAIN Tail(q) /\ Tail(q)[i - 1] = q[i]
    BY <1>1
  <2> QED
    BY <2>1 DEF Ran
<1>3. {Head(q)} \cup Ran(Tail(q)) \subseteq Ran(q)
  <2>1. 1 \in DOMAIN q
    BY <1>1
  <2>2. \A i \in DOMAIN Tail(q) : i + 1 \in DOMAIN q /\ Tail(q)[i] = q[i + 1]
    BY <1>1
  <2> QED
    BY <1>1, <2>1, <2>2 DEF Ran
<1> QED
  BY <1>1, <1>2, <1>3 DEF EventsIn

(* Frames with later events keep a sequence in order.                       *)
LEMMA ConcatRises ==
  ASSUME NEW p \in Seq(Frame), NEW q \in Seq(Frame), Rising(p), Rising(q),
         \A x \in EventsIn(p), y \in EventsIn(q) : x < y
  PROVE  Rising(p \o q)
<1>1. /\ Len(p) \in Nat /\ Len(q) \in Nat
      /\ DOMAIN p = 1 .. Len(p) /\ DOMAIN q = 1 .. Len(q)
      /\ DOMAIN (p \o q) = 1 .. (Len(p) + Len(q))
      /\ \A i \in 1 .. Len(p) + Len(q) :
           (p \o q)[i] = IF i <= Len(p) THEN p[i] ELSE q[i - Len(p)]
  BY ConcatProperties, LenProperties
<1> SUFFICES ASSUME NEW j \in 1 .. (Len(p) + Len(q)), (p \o q)[j] \notin Approval,
                    NEW i \in 1 .. (j - 1), (p \o q)[i] \notin Approval
             PROVE  (p \o q)[i] < (p \o q)[j]
  BY <1>1 DEF Rising
<1>2. CASE j <= Len(p)
  <2>1. (p \o q)[i] = p[i] /\ (p \o q)[j] = p[j] /\ j \in DOMAIN p
    BY <1>1, <1>2
  <2> QED
    BY <2>1 DEF Rising
<1>3. CASE i > Len(p)
  <2>1. /\ (p \o q)[i] = q[i - Len(p)] /\ (p \o q)[j] = q[j - Len(p)]
        /\ j - Len(p) \in DOMAIN q /\ i - Len(p) \in 1 .. (j - Len(p)) - 1
    BY <1>1, <1>3
  <2> QED
    BY <2>1 DEF Rising
<1>4. CASE i <= Len(p) /\ j > Len(p)
  <2>1. /\ (p \o q)[i] = p[i] /\ (p \o q)[j] = q[j - Len(p)]
        /\ i \in DOMAIN p /\ j - Len(p) \in DOMAIN q
    BY <1>1, <1>4
  <2> QED
    BY <2>1 DEF EventsIn, Ran
<1> QED
  BY <1>1, <1>2, <1>3, <1>4

LEMMA AppendRises ==
  ASSUME NEW q \in Seq(Frame), NEW n \in Nat, Rising(q), \A x \in EventsIn(q) : x < n
  PROVE  Rising(Append(q, n))
<1>1. n \in Frame /\ n \notin Approval
  BY NameAssumption DEF Frame
<1>2. /\ Len(q) \in Nat /\ DOMAIN q = 1 .. Len(q)
      /\ DOMAIN Append(q, n) = 1 .. (Len(q) + 1)
      /\ \A i \in 1 .. Len(q) : Append(q, n)[i] = q[i]
      /\ Append(q, n)[Len(q) + 1] = n
  BY <1>1
<1> SUFFICES ASSUME NEW j \in 1 .. (Len(q) + 1), Append(q, n)[j] \notin Approval,
                    NEW i \in 1 .. (j - 1), Append(q, n)[i] \notin Approval
             PROVE  Append(q, n)[i] < Append(q, n)[j]
  BY <1>2 DEF Rising
<1>3. Append(q, n)[i] = q[i] /\ i \in DOMAIN q
  BY <1>2
<1>4. CASE j = Len(q) + 1
  BY <1>2, <1>3, <1>4 DEF EventsIn, Ran
<1>5. CASE j # Len(q) + 1
  <2>1. j \in DOMAIN q /\ Append(q, n)[j] = q[j]
    BY <1>2, <1>5
  <2> QED
    BY <1>3, <2>1 DEF Rising
<1> QED
  BY <1>4, <1>5

LEMMA TailRises ==
  ASSUME NEW q \in Seq(Frame), q # <<>>, Rising(q)
  PROVE  /\ Rising(Tail(q))
         /\ Head(q) \notin Approval => \A y \in EventsIn(Tail(q)) : Head(q) < y
<1>1. /\ Len(q) \in Nat \ {0}
      /\ DOMAIN q = 1 .. Len(q) /\ DOMAIN Tail(q) = 1 .. (Len(q) - 1)
      /\ Head(q) = q[1]
      /\ \A i \in 1 .. (Len(q) - 1) : Tail(q)[i] = q[i + 1]
  BY HeadTailProperties, LenProperties, EmptySeq
<1>2. Rising(Tail(q))
  <2> SUFFICES ASSUME NEW j \in 1 .. (Len(q) - 1), Tail(q)[j] \notin Approval,
                      NEW i \in 1 .. (j - 1), Tail(q)[i] \notin Approval
               PROVE  Tail(q)[i] < Tail(q)[j]
    BY <1>1 DEF Rising
  <2>1. /\ Tail(q)[i] = q[i + 1] /\ Tail(q)[j] = q[j + 1]
        /\ j + 1 \in DOMAIN q /\ i + 1 \in 1 .. ((j + 1) - 1)
    BY <1>1
  <2> QED
    BY <2>1 DEF Rising
<1>3. ASSUME Head(q) \notin Approval, NEW j \in 1 .. (Len(q) - 1),
             Tail(q)[j] \notin Approval
      PROVE  Head(q) < Tail(q)[j]
  <2>1. /\ Tail(q)[j] = q[j + 1] /\ j + 1 \in DOMAIN q /\ 1 \in 1 .. ((j + 1) - 1)
    BY <1>1
  <2> QED
    BY <1>1, <1>3, <2>1 DEF Rising
<1> QED
  BY <1>1, <1>2, <1>3 DEF EventsIn, Ran

-----------------------------------------------------------------------------
(* The log.  Numbers are given without a gap and never again, so that the  *)
(* number of an event is its place.                                        *)

LogInv == \A i \in DOMAIN events : events[i].sequence = i

\* What listAfter selects from, and the events of a key.
Rest(k, last) == {i \in DOMAIN events : /\ i >= oldest /\ i > last
                                        /\ Matches(k, events[i].session)}
For(k) == {i \in DOMAIN events : Matches(k, events[i].session)}

LEMMA EventsType ==
  ASSUME TypeOK
  PROVE  /\ Len(events) \in Nat /\ DOMAIN events = 1 .. Len(events)
         /\ \A i \in DOMAIN events : events[i] \in Event
BY LenProperties, ElementOfSeq DEF TypeOK

LEMMA MissedFrames ==
  ASSUME TypeOK, LogInv, NEW k, NEW last \in Nat
  PROVE  LET S == Rest(k, last) IN
         /\ Cardinality(S) \in Nat
         /\ Missed(k, last) \in Seq(S) /\ Len(Missed(k, last)) = Cardinality(S)
         /\ \A i, j \in 1 .. Cardinality(S) : i < j => Missed(k, last)[i] < Missed(k, last)[j]
         /\ \A x \in S : \E j \in 1 .. Cardinality(S) : Missed(k, last)[j] = x
<1> DEFINE S == Rest(k, last)
           missed == Missed(k, last)
<1>1. S = {i \in Logged : events[i].sequence > last /\ Matches(k, events[i].session)}
  <2>1. \A i \in Logged : i \in DOMAIN events /\ events[i].sequence = i
    BY DEF Logged, LogInv
  <2> QED
    BY <2>1 DEF Logged, Rest
<1>2. missed = Ascending(S)
  BY <1>1 DEF Missed
<1>3. S \subseteq 1 .. Len(events) /\ Len(events) \in Nat
  BY EventsType DEF Rest
<1> HIDE DEF S, missed
<1>4. IsFiniteSet(S)
  <2>1. IsFiniteSet(1 .. Len(events))
    BY <1>3, FS_Interval
  <2> QED
    BY <1>3, <2>1, FS_Subset
<1>5. S \subseteq Nat
  BY <1>3
<1>6. /\ Cardinality(S) \in Nat
      /\ missed \in [1 .. Cardinality(S) -> S]
      /\ \A i, j \in 1 .. Cardinality(S) : i < j => missed[i] < missed[j]
      /\ \A x \in S : \E j \in 1 .. Cardinality(S) : missed[j] = x
  BY <1>2, <1>4, <1>5, AscendingOrder
<1>7. missed \in Seq(S) /\ Len(missed) = Cardinality(S)
  BY <1>6
<1> QED
  BY <1>6, <1>7 DEF S, missed

(* A page is empty only if nothing is left, and otherwise all that is left  *)
(* up to its last event, in order.                                          *)
LEMMA PageFrames ==
  ASSUME TypeOK, LogInv, NEW k, NEW last \in Nat
  PROVE  LET page == Page(k, last)
             top == page[Len(page)]
         IN  /\ page \in Seq(Frame) /\ Rising(page)
             /\ page = <<>> => Rest(k, last) = {}
             /\ page # <<>> =>
                  /\ top \in Rest(k, last) /\ events[top].sequence = top
                  /\ Ran(page) = {i \in Rest(k, last) : i <= top}
<1> DEFINE S == Rest(k, last)
           missed == Missed(k, last)
           n == Cardinality(S)
           m == IF n < PageSize THEN n ELSE PageSize
           page == Page(k, last)
<1>1. /\ n \in Nat /\ missed \in Seq(S) /\ Len(missed) = n
      /\ \A i, j \in 1 .. n : i < j => missed[i] < missed[j]
      /\ \A x \in S : \E j \in 1 .. n : missed[j] = x
  BY MissedFrames
<1>2. page = SubSeq(missed, 1, m)
  BY <1>1 DEF Page
<1>3. S \subseteq Nat /\ S \subseteq DOMAIN events
  BY EventsType DEF Rest
<1>4. m \in 0 .. n /\ m \in Nat /\ (m = 0 => n = 0)
  BY <1>1, BoundAssumption
<1>5. \A i \in 1 .. n : missed[i] \in S
  BY <1>1, ElementOfSeq
<1> HIDE DEF S, missed, n, m, page
<1>6. page \in Seq(S) /\ Len(page) = m /\ \A i \in 1 .. m : page[i] = missed[i]
  <2>1. \A i \in 1 .. m : missed[i] \in S
    BY <1>1, <1>4, <1>5
  <2>2. /\ page \in Seq(S) /\ Len(page) = IF 1 <= m THEN m - 1 + 1 ELSE 0
        /\ \A i \in 1 .. m - 1 + 1 : page[i] = missed[1 + i - 1]
    BY <1>2, <1>4, <2>1, SubSeqProperties
  <2> QED
    BY <1>4, <2>2
<1>7. page \in Seq(Frame)
  <2>1. S \subseteq Frame
    BY <1>3 DEF Frame
  <2> QED
    BY <1>6, <2>1, SeqMonotonic
<1>8. DOMAIN page = 1 .. m
  BY <1>6, LenProperties
<1>9. Rising(page)
  <2> SUFFICES ASSUME NEW j \in 1 .. m, NEW i \in 1 .. (j - 1)
               PROVE  page[i] < page[j]
    BY <1>8 DEF Rising
  <2>1. i \in 1 .. n /\ j \in 1 .. n /\ i \in 1 .. m /\ i < j
    BY <1>1, <1>4
  <2> QED
    BY <1>1, <1>6, <2>1
<1>10. ASSUME page = <<>>
       PROVE  S = {}
  <2>1. n = 0
    BY <1>4, <1>6, <1>10, EmptySeq
  <2> QED
    BY <1>1, <2>1
<1>11. ASSUME page # <<>>
       PROVE  LET top == page[Len(page)]
              IN  /\ top \in S /\ events[top].sequence = top
                  /\ Ran(page) = {i \in S : i <= top}
  <2>1. m \in 1 .. n
    BY <1>4, <1>6, <1>11, EmptySeq
  <2>2. page[Len(page)] = missed[m] /\ missed[m] \in S
    BY <1>5, <1>6, <2>1
  <2>3. events[missed[m]].sequence = missed[m]
    BY <1>3, <2>2 DEF LogInv
  <2>4. ASSUME NEW i \in 1 .. m
        PROVE  page[i] \in S /\ page[i] <= missed[m]
    <3>1. i \in 1 .. n
      BY <1>1, <1>4
    <3>2. page[i] = missed[i] /\ missed[i] \in S
      BY <1>5, <1>6, <3>1
    <3>3. i = m \/ missed[i] < missed[m]
      BY <1>1, <2>1, <3>1
    <3>4. missed[i] \in Nat /\ missed[m] \in Nat
      BY <1>3, <2>2, <3>2
    <3> QED
      BY <3>2, <3>3, <3>4
  <2>5. ASSUME NEW x \in S, x <= missed[m]
        PROVE  x \in Ran(page)
    <3>1. PICK j \in 1 .. n : missed[j] = x
      BY <1>1
    <3>2. x \in Nat /\ missed[m] \in Nat
      BY <1>3, <2>2
    <3>3. j <= m
      <4>1. j > m => missed[m] < missed[j]
        BY <1>1, <2>1
      <4> QED
        BY <1>1, <2>1, <2>5, <3>1, <3>2, <4>1
    <3>4. j \in 1 .. m /\ page[j] = x
      BY <1>6, <3>1, <3>3, <1>4
    <3> QED
      BY <1>8, <3>4 DEF Ran
  <2> QED
    BY <1>8, <2>2, <2>3, <2>4, <2>5 DEF Ran
<1> QED
  BY <1>7, <1>9, <1>10, <1>11 DEF S, page

(* The flush sends, in order, what no page has sent.                        *)
LEMMA FlushFrames ==
  ASSUME TypeOK, LogInv, NEW sub, sub.buffer \in Seq(Frame), Rising(sub.buffer),
         EventsIn(sub.buffer) \subseteq DOMAIN events
  PROVE  /\ Flush(sub) \in Seq(Frame) /\ Rising(Flush(sub))
         /\ Ran(Flush(sub)) = {f \in Ran(sub.buffer) :
                                 IF f \in Approval THEN f \notin sub.ids ELSE f > sub.last}
<1> DEFINE q == sub.buffer
           K == Kept(sub)
           order == Ascending(K)
           n == Cardinality(K)
           passes(f) == IF f \in Approval THEN f \notin sub.ids ELSE f > sub.last
<1>1. Len(q) \in Nat /\ DOMAIN q = 1 .. Len(q) /\ \A j \in DOMAIN q : q[j] \in Frame
  BY LenProperties, ElementOfSeq
<1>2. K = {j \in DOMAIN q : passes(q[j])}
  <2>1. \A j \in DOMAIN q : q[j] \notin Approval => events[q[j]].sequence = q[j]
    BY DEF EventsIn, Ran, LogInv
  <2> QED
    BY <2>1 DEF Kept
<1>3. K \subseteq 1 .. Len(q)
  BY <1>1, <1>2
<1>4. IsFiniteSet(K) /\ K \subseteq Nat
  <2>1. IsFiniteSet(1 .. Len(q))
    BY <1>1, FS_Interval
  <2> HIDE DEF K, q
  <2>2. IsFiniteSet(K)
    BY <1>3, <2>1, FS_Subset
  <2> QED
    BY <1>1, <1>3, <2>2
<1>5. Flush(sub) = [i \in 1 .. n |-> q[order[i]]]
  BY DEF Flush
<1> HIDE DEF K, order, n, passes
<1>6. /\ n \in Nat /\ order \in [1 .. n -> K]
      /\ \A i, j \in 1 .. n : i < j => order[i] < order[j]
      /\ \A x \in K : \E j \in 1 .. n : order[j] = x
  BY <1>4, AscendingOrder DEF order, n
<1>7. \A i \in 1 .. n : order[i] \in DOMAIN q /\ order[i] \in Nat /\ passes(q[order[i]])
  BY <1>2, <1>4, <1>6
<1>8. Flush(sub) \in Seq(Frame) /\ Len(Flush(sub)) = n /\ DOMAIN Flush(sub) = 1 .. n
  <2>1. \A i \in 1 .. n : q[order[i]] \in Frame
    BY <1>1, <1>7
  <2> HIDE DEF q
  <2>2. [i \in 1 .. n |-> q[order[i]]] \in [1 .. n -> Frame]
    BY <2>1
  <2> QED
    BY <1>5, <1>6, <2>2
<1>9. Rising(Flush(sub))
  <2> SUFFICES ASSUME NEW j \in 1 .. n, q[order[j]] \notin Approval,
                      NEW i \in 1 .. (j - 1), q[order[i]] \notin Approval
               PROVE  q[order[i]] < q[order[j]]
    <3>1. \A j \in 1 .. n : 1 .. (j - 1) \subseteq 1 .. n
      BY <1>6
    <3> QED
      BY <1>5, <1>8, <3>1 DEF Rising
  <2>1. i \in 1 .. n /\ i < j
    BY <1>6
  <2>2. order[i] < order[j] /\ order[i] \in DOMAIN q /\ order[j] \in DOMAIN q
    BY <1>6, <1>7, <2>1
  <2>3. order[i] \in 1 .. (order[j] - 1)
    BY <1>1, <2>2
  <2> QED
    BY <2>2, <2>3 DEF Rising
<1>10. Ran(Flush(sub)) = {f \in Ran(q) : passes(f)}
  <2>1. \A i \in 1 .. n : q[order[i]] \in Ran(q) /\ passes(q[order[i]])
    BY <1>7 DEF Ran
  <2>2. ASSUME NEW j \in DOMAIN q, passes(q[j])
        PROVE  \E i \in 1 .. n : q[order[i]] = q[j]
    <3>1. j \in K
      BY <1>2, <2>2
    <3> QED
      BY <1>6, <3>1
  <2> QED
    BY <1>5, <1>8, <2>1, <2>2 DEF Ran
<1> QED
  BY <1>8, <1>9, <1>10 DEF passes

(* Issued(k) lists the pending approvals of a subscription.                 *)
LEMMA IssuedFrames ==
  ASSUME NEW k
  PROVE  /\ Issued(k) \in Seq(Frame) /\ Ran(Issued(k)) = Pending(k)
         /\ EventsIn(Issued(k)) = {} /\ Rising(Issued(k))
<1> DEFINE S == Pending(k)
           n == Cardinality(S)
           lists(q) == \A a \in S : \E j \in DOMAIN q : q[j] = a
<1>1. S \in SUBSET Approval
  BY DEF Pending
<1>2. IsFiniteSet(S)
  BY <1>1, NameAssumption, FS_Subset
<1>3. n \in Nat /\ ExistsBijection(1 .. n, S)
  BY <1>2, FS_CardinalityType
<1> HIDE DEF S, n
<1>4. PICK f \in [1 .. n -> S] : \A a \in S : \E j \in 1 .. n : f[j] = a
  BY <1>3 DEF ExistsBijection, Bijection, Surjection
<1>5. Issued(k) = CHOOSE q \in [1 .. n -> S] : lists(q)
  BY DEF Issued, S, n
<1>6. lists(f)
  BY <1>4
<1>7. Issued(k) \in [1 .. n -> S] /\ lists(Issued(k))
  BY <1>4, <1>5, <1>6
<1>8. Issued(k) \in Seq(S)
  BY <1>3, <1>7
<1>9. Ran(Issued(k)) = S
  BY <1>7 DEF Ran
<1>10. Issued(k) \in Seq(Frame)
  BY <1>1, <1>8, SeqMonotonic DEF Frame
<1>11. EventsIn(Issued(k)) = {}
  BY <1>1, <1>9 DEF EventsIn
<1>12. Rising(Issued(k))
  BY <1>1, <1>7 DEF Rising
<1> QED
  BY <1>9, <1>10, <1>11, <1>12 DEF S

-----------------------------------------------------------------------------
(* The inductive invariant. *)

\* Every event that the client has got or that is on its way.
Got == seen \cup EventsIn(down)

\* Of what the log still holds nothing is missing, from the first event got to hi.
Whole(k, hi) ==
  \A i \in For(k) : i >= oldest /\ i <= hi /\ (\E x \in Got : x < i) => i \in Got

\* An event is no longer logged, and a later one has been sent.
Passed(i) == i < oldest /\ \E j \in Got : i < j

\* Subscriptions belong to a connection and are opened once.
ConnInv ==
  /\ ~hubUp => ~on
  /\ ~on => down = <<>> /\ subscribing = {} /\ \A k \in Key : subs[k].mode = "none"
  /\ \A k \in Key : /\ subs[k].mode = "none" => ~subs[k].hears /\ subs[k].ids = {}
                    /\ k \notin keys => subs[k].mode = "none"
                    /\ cursor[k] <= Len(events)
  /\ \A x \in subscribing : /\ x[1] \in keys /\ subs[x[1]].mode = "none"
                            /\ x[2] <= Len(events)
  /\ \A x, y \in subscribing : x[1] = y[1] => x = y
  /\ EventsIn(down) \subseteq DOMAIN events

\* What a replay holds back: events of its key in order, of which the ones up to the
\* last sent have been sent from the log, or were pruned before that.
Replays(k, sub) ==
  /\ sub.last <= Len(events)
  /\ EventsIn(sub.buffer) \subseteq For(k) /\ Rising(sub.buffer)
  /\ \A i \in EventsIn(sub.buffer) :
       i <= sub.last => events[i].asks \in sub.ids \cup {None} \/ Passed(i)

ReplayInv == \A k \in Key : subs[k].mode = "replaying" => Replays(k, subs[k])

\* The only subscription of a client: its replay has sent all up to last, and once it
\* is live it has sent all.
SentUpTo(k, last) == Whole(k, last) /\ \A j \in Got : j <= last

OneKey(k) ==
  /\ Got \subseteq For(k)
  /\ Rising(down) /\ \A f \in EventsIn(down) : f > cursor[k]
  /\ cursor[k] \in seen \cup {0} /\ \A x \in seen : x <= cursor[k]
  /\ \A j \in Got : Whole(k, j)
  /\ subscribing # {} => EventsIn(down) = {}
  /\ \A x \in subscribing : x[2] = cursor[k]
  /\ subs[k].mode = "replaying" => SentUpTo(k, subs[k].last)
  /\ subs[k].mode = "live" /\ subs[k].hears => Whole(k, Len(events))

OneKeyInv == \A k \in Key : keys = {k} => OneKey(k)

\* An approval is among the frames of q, issued again or with the event that asked.
Announces(q, a) == a \in Ran(q) \/ \E i \in EventsIn(q) : events[i].asks = a

\* An approval that a replay has sent is available; one that it has not is held back.
ReplayShows(k, a, sub) ==
  /\ a \in sub.ids => Available(a)
  /\ sub.mode = "replaying" /\ sub.hears /\ Matches(k, SessionOf[a])
       => Available(a) \/ Announces(sub.buffer, a)

\* What is not yet pending has not been heard of.
Unheard(a) == /\ \A i \in DOMAIN events : events[i].asks # a
              /\ \A k \in Key : a \notin subs[k].ids

ShownInv ==
  /\ \A a \in Approval : approval[a] \in {"none", "asking"} => Unheard(a)
  /\ \A k \in Key, a \in Approval : approval[a] = "pending" => ReplayShows(k, a, subs[k])
  /\ PendingIsShown

DeliveryInv == LogInv /\ ConnInv /\ ReplayInv /\ OneKeyInv /\ ShownInv

-----------------------------------------------------------------------------
(* What a step does to the log, the subscriptions and the wire.             *)

LEMMA KeyType == Key = Session \cup {All} /\ \A K \in KeySets : K \subseteq Key
BY BoundAssumption DEF Key

LEMMA SubType ==
  ASSUME TypeOK, NEW k \in Key
  PROVE  /\ subs[k] \in [mode : {"none", "replaying", "live"}, hears : BOOLEAN, last : Nat,
                         buffer : Seq(Frame), ids : SUBSET Approval]
         /\ subs[k].buffer \in Seq(Frame) /\ subs[k].last \in Nat
         /\ subs[k].ids \subseteq Approval
BY DEF TypeOK

\* The live listeners of a session's events, and the ones that hold them back.
LiveFor(s) == {k \in Key : subs[k].mode = "live" /\ subs[k].hears /\ Matches(k, s)}
HoldFor(s) == {k \in Key : subs[k].mode = "replaying" /\ subs[k].hears /\ Matches(k, s)}

LEMMA PublishedLog ==
  ASSUME TypeOK, LogInv, NEW s \in Session, NEW a \in Approval \cup {None}, Publish(s, a)
  PROVE  LET n == Len(events) + 1 IN
         /\ n \in Nat \ {0} /\ n \notin DOMAIN events
         /\ events' \in Seq(Event) /\ Len(events') = n /\ DOMAIN events' = 1 .. n
         /\ DOMAIN events' = DOMAIN events \cup {n}
         /\ \A i \in DOMAIN events : i < n /\ i \in Nat /\ events'[i] = events[i]
         /\ events'[n] = [sequence |-> n, session |-> s, asks |-> a]
         /\ LogInv'
<1> DEFINE n == Len(events) + 1
<1>1. Len(events) \in Nat /\ DOMAIN events = 1 .. Len(events) /\ events \in Seq(Event)
  BY EventsType DEF TypeOK
<1>2. NewSequence = n
  <2>1. CASE events = <<>>
    BY <2>1 DEF NewSequence
  <2>2. CASE events # <<>>
    <3>1. Len(events) \in DOMAIN events
      BY <1>1, <2>2, EmptySeq
    <3> QED
      BY <2>2, <3>1 DEF NewSequence, LogInv
  <2> QED
    BY <2>1, <2>2
<1> DEFINE e == [sequence |-> n, session |-> s, asks |-> a]
<1>3. e \in Event
  BY <1>1 DEF Event
<1>4. events' = Append(events, e)
  BY <1>2 DEF Publish
<1>5. e.sequence = n
  OBVIOUS
<1> HIDE DEF e
<1>6. /\ events' \in Seq(Event) /\ Len(events') = n
      /\ \A i \in 1 .. Len(events) : events'[i] = events[i]
      /\ events'[n] = e
  BY <1>1, <1>3, <1>4
<1>7. DOMAIN events' = 1 .. n
  BY <1>6, LenProperties
<1>8. LogInv'
  <2> SUFFICES ASSUME NEW i \in 1 .. n
               PROVE  events'[i].sequence = i
    BY <1>7 DEF LogInv
  <2>1. CASE i = n
    BY <1>5, <1>6, <2>1
  <2>2. CASE i # n
    <3>1. i \in DOMAIN events
      BY <1>1, <2>2
    <3> QED
      BY <1>1, <1>6, <3>1 DEF LogInv
  <2> QED
    BY <2>1, <2>2
<1> QED
  BY <1>1, <1>6, <1>7, <1>8 DEF e

LEMMA PublishedFrames ==
  ASSUME TypeOK, ConnInv, NEW s \in Session, NEW a, Publish(s, a)
  PROVE  LET n == Len(events) + 1
             new == IF LiveFor(s) = {} THEN {} ELSE {n}
         IN  /\ \A k \in Key : subs'[k] =
                  IF k \in HoldFor(s) THEN [subs[k] EXCEPT !.buffer = Append(@, n)] ELSE subs[k]
             /\ DOMAIN subs' = Key /\ (LiveFor(s) = {} => down' = down)
             /\ down' \in Seq(Frame) /\ Ran(down') = Ran(down) \cup new
             /\ EventsIn(down') = EventsIn(down) \cup new
             /\ \A k \in Key : keys = {k} /\ Rising(down) => Rising(down')
<1> DEFINE n == Len(events) + 1
           L == LiveFor(s)
           sent == {k \in Hearing(s) : Sends(subs[k], n)}
           c == Cardinality(L)
           block == [j \in 1 .. c |-> n]
           new == IF L = {} THEN {} ELSE {n}
<1>1. n \in Nat /\ n \in Frame /\ n \notin Approval
  BY EventsType, NameAssumption DEF Frame
<1>2. down \in Seq(Frame) /\ DOMAIN subs = Key
  BY DEF TypeOK
<1>3. ASSUME NEW k \in Hearing(s)
      PROVE  /\ k \in Key /\ subs[k].hears /\ Matches(k, s)
             /\ subs[k].mode = "live" => Sends(subs[k], n) /\ Gate(subs[k], n) = subs[k]
             /\ subs[k].mode # "live" =>
                  /\ ~Sends(subs[k], n) /\ subs[k].mode = "replaying"
                  /\ Gate(subs[k], n) = [subs[k] EXCEPT !.buffer = Append(@, n)]
  <2>1. k \in Key /\ subs[k].hears /\ Matches(k, s)
    BY DEF Hearing
  <2>2. subs[k].mode \in {"live", "replaying"}
    BY <2>1, SubType DEF ConnInv
  <2>3. subs[k].buffer \in Seq(Frame)
    BY <2>1, SubType
  <2>4. Append(subs[k].buffer, n) # subs[k].buffer
    <3>1. Len(Append(subs[k].buffer, n)) = Len(subs[k].buffer) + 1 /\ Len(subs[k].buffer) \in Nat
      BY <1>1, <2>3
    <3> QED
      BY <3>1
  <2>5. ASSUME subs[k].mode # "live"
        PROVE  ~Sends(subs[k], n)
    <3>1. Gate(subs[k], n).buffer = Append(subs[k].buffer, n)
      BY <2>1, <2>5, SubType DEF Gate
    <3> QED
      BY <2>4, <3>1 DEF Sends
  <2>6. subs[k].mode = "live" => Gate(subs[k], n) = subs[k]
    BY DEF Gate
  <2>7. subs[k].mode # "live" => Gate(subs[k], n) = [subs[k] EXCEPT !.buffer = Append(@, n)]
    BY DEF Gate
  <2> QED
    BY <2>1, <2>2, <2>5, <2>6, <2>7 DEF Sends
<1>4. sent = L
  <2>1. L \subseteq Hearing(s)
    BY DEF LiveFor, Hearing
  <2> QED
    BY <1>3, <2>1 DEF LiveFor
<1>5. subs' = [k \in Key |-> IF k \in Hearing(s) THEN Gate(subs[k], n) ELSE subs[k]]
  BY DEF Publish
<1>6. \A k \in Key : subs'[k] =
        IF k \in HoldFor(s) THEN [subs[k] EXCEPT !.buffer = Append(@, n)] ELSE subs[k]
  <2> TAKE k \in Key
  <2>1. subs'[k] = IF k \in Hearing(s) THEN Gate(subs[k], n) ELSE subs[k]
    BY <1>5
  <2>2. k \in HoldFor(s) <=> k \in Hearing(s) /\ subs[k].mode = "replaying"
    BY DEF HoldFor, Hearing
  <2> QED
    BY <1>3, <2>1, <2>2
<1>7. down' = IF L = {} THEN down ELSE down \o block
  BY <1>4 DEF Publish
<1>8. IsFiniteSet(L)
  <2>1. L \subseteq {All} \cup {s}
    BY DEF LiveFor, Matches
  <2>2. IsFiniteSet({All} \cup {s})
    BY FS_Singleton, FS_AddElement
  <2> HIDE DEF L
  <2> QED
    BY <2>1, <2>2, FS_Subset
<1> HIDE DEF L, n, new
<1>9. c \in Nat /\ (L # {} => c >= 1)
  BY <1>8, FS_CardinalityType, FS_EmptySet
<1>10. L # {} => /\ block \in Seq(Frame) /\ Ran(block) = {n} /\ EventsIn(block) = {n}
  <2> SUFFICES ASSUME L # {}
               PROVE  /\ block \in Seq(Frame) /\ Ran(block) = {n} /\ EventsIn(block) = {n}
    OBVIOUS
  <2>1. block \in Seq(Frame) /\ DOMAIN block = 1 .. c
    BY <1>1, <1>9
  <2>2. 1 \in 1 .. c
    BY <1>9
  <2>3. Ran(block) = {n}
    BY <2>2 DEF Ran
  <2> QED
    BY <1>1, <2>1, <2>3 DEF EventsIn
<1>11. /\ down' \in Seq(Frame) /\ Ran(down') = Ran(down) \cup new
       /\ EventsIn(down') = EventsIn(down) \cup new
  <2>1. CASE L = {}
    BY <1>2, <1>7, <2>1 DEF new
  <2>2. CASE L # {}
    <3> HIDE DEF block
    <3> QED
      BY <1>2, <1>7, <1>10, <2>2, ConcatFrames DEF new
  <2> QED
    BY <2>1, <2>2
<1>12. ASSUME NEW k \in Key, keys = {k}, Rising(down)
       PROVE  Rising(down')
  <2>1. CASE L = {}
    BY <1>7, <1>12, <2>1
  <2>2. CASE L # {}
    <3>1. L = {k}
      BY <1>12, <2>2 DEF L, LiveFor, ConnInv
    <3>2. c = 1
      BY <3>1, FS_Singleton
    <3>3. Rising(block)
      BY <3>2 DEF Rising
    <3>4. \A x \in EventsIn(down), y \in EventsIn(block) : x < y
      <4>1. EventsIn(down) \subseteq 1 .. Len(events) /\ Len(events) \in Nat
        BY EventsType DEF ConnInv
      <4>2. EventsIn(block) = {n}
        BY <1>10, <2>2
      <4> HIDE DEF block
      <4>3. \A x \in 1 .. Len(events) : x < n
        BY <4>1 DEF n
      <4> QED
        BY <4>1, <4>2, <4>3
    <3> HIDE DEF block
    <3> QED
      BY <1>2, <1>7, <1>10, <1>12, <2>2, <3>3, <3>4, ConcatRises
  <2> QED
    BY <2>1, <2>2
<1> QED
  BY <1>5, <1>6, <1>7, <1>11, <1>12 DEF n, new, L

-----------------------------------------------------------------------------
(* What the parts of the invariant say, and how they last.                  *)

LEMMA AvailableIs ==
  ASSUME NEW a \in Approval
  PROVE  /\ Available(a) <=> a \in shown \cup answers \/ Announces(down, a)
         /\ Available(a)' <=> (a \in shown \cup answers \/ Announces(down, a))'
<1>1. Available(a) <=> a \in shown \cup answers \/ Announces(down, a)
  BY DEF Available, Announces, EventsIn, Ran, IsEvent
<1>2. Available(a)' <=> (a \in shown \cup answers \/ Announces(down, a))'
  BY DEF Available, Announces, EventsIn, Ran, IsEvent
<1> QED
  BY <1>1, <1>2

LEMMA OvertakenIs ==
  ASSUME NEW a \in Approval
  PROVE  /\ Overtaken(a) <=> \E i \in DOMAIN events : events[i].asks = a /\ Passed(i)
         /\ Overtaken(a)' <=> (\E i \in DOMAIN events : events[i].asks = a /\ Passed(i))'
<1>1. Overtaken(a) <=> \E i \in DOMAIN events : events[i].asks = a /\ Passed(i)
  BY DEF Overtaken, Passed, Got, EventsIn, Ran, IsEvent
<1>2. Overtaken(a)' <=> (\E i \in DOMAIN events : events[i].asks = a /\ Passed(i))'
  BY DEF Overtaken, Passed, Got, EventsIn, Ran, IsEvent
<1> QED
  BY <1>1, <1>2

\* The log only grows: what was published stays as it is.
Extended == /\ DOMAIN events \subseteq DOMAIN events'
            /\ \A i \in DOMAIN events : events'[i] = events[i]

LEMMA PassedLasts ==
  ASSUME NEW i \in Nat, oldest \in Nat, oldest' \in Nat, oldest <= oldest', Got \subseteq Got',
         Passed(i)
  PROVE  Passed(i)'
<1>1. i < oldest'
  BY DEF Passed
<1>2. \E j \in Got' : i < j
  BY DEF Passed
<1> QED
  BY <1>1, <1>2 DEF Passed

LEMMA OvertakenLasts ==
  ASSUME TypeOK, NEW a \in Approval, oldest' \in Nat, oldest <= oldest', Got \subseteq Got',
         Extended, Overtaken(a)
  PROVE  Overtaken(a)'
<1>1. PICK i \in DOMAIN events : events[i].asks = a /\ Passed(i)
  BY OvertakenIs
<1>2. i \in Nat /\ oldest \in Nat
  BY EventsType DEF TypeOK
<1>3. Passed(i)'
  BY <1>1, <1>2, PassedLasts
<1>4. i \in DOMAIN events' /\ events'[i].asks = a
  BY <1>1 DEF Extended
<1> QED
  BY <1>3, <1>4, OvertakenIs

LEMMA AnnouncesLasts ==
  ASSUME NEW a \in Approval, NEW q, NEW r, Ran(q) \subseteq Ran(r), Extended,
         EventsIn(q) \subseteq DOMAIN events, Announces(q, a)
  PROVE  a \in Ran(r) \/ \E i \in EventsIn(r) : events'[i].asks = a
<1>1. EventsIn(q) \subseteq EventsIn(r)
  BY DEF EventsIn
<1> QED
  BY <1>1 DEF Announces, Extended

LEMMA AvailableLasts ==
  ASSUME NEW a \in Approval, a \in shown \cup answers => a \in (shown \cup answers)',
         Ran(down) \subseteq Ran(down'), Extended, EventsIn(down) \subseteq DOMAIN events,
         Available(a)
  PROVE  Available(a)'
<1>1. CASE a \in shown \cup answers
  BY <1>1, AvailableIs
<1>2. CASE Announces(down, a)
  <2>1. a \in Ran(down') \/ \E i \in EventsIn(down') : events'[i].asks = a
    BY <1>2, AnnouncesLasts
  <2>2. Announces(down, a)'
    BY <2>1 DEF Announces, EventsIn, Ran
  <2> QED
    BY <2>2, AvailableIs
<1> QED
  BY <1>1, <1>2, AvailableIs

LEMMA GotType ==
  ASSUME TypeOK, ConnInv
  PROVE  Got \subseteq DOMAIN events /\ Got \subseteq Nat
BY EventsType DEF TypeOK, ConnInv, Got

-----------------------------------------------------------------------------
(* Publishing keeps the invariant: a live subscription sends the event, a   *)
(* replay holds it back, and neither has got a later one.                   *)

LEMMA PublishKeepsOneKey ==
  ASSUME TypeOK, LogInv, ConnInv, ReplayInv, NEW s \in Session, NEW a \in Approval \cup {None},
         Publish(s, a), UNCHANGED <<oldest, subscribing, keys, cursor, seen>>,
         NEW k \in Key, keys = {k}, OneKey(k)
  PROVE  OneKey(k)'
<1>0. PICK n \in Nat : n = Len(events) + 1
  BY EventsType
<1> DEFINE new == IF LiveFor(s) = {} THEN {} ELSE {n}
           sub == subs[k]
<1>1. /\ n \in Nat \ {0} /\ Len(events') = n /\ DOMAIN events' = DOMAIN events \cup {n}
      /\ n \notin DOMAIN events
      /\ \A i \in DOMAIN events : i < n /\ i \in Nat /\ events'[i] = events[i]
      /\ events'[n] = [sequence |-> n, session |-> s, asks |-> a]
  BY <1>0, PublishedLog
<1>2. /\ subs'[k] = IF k \in HoldFor(s) THEN [sub EXCEPT !.buffer = Append(@, n)] ELSE sub
      /\ EventsIn(down') = EventsIn(down) \cup new
      /\ Rising(down) => Rising(down')
  BY <1>0, PublishedFrames
<1>3. sub \in [mode : {"none", "replaying", "live"}, hears : BOOLEAN, last : Nat,
               buffer : Seq(Frame), ids : SUBSET Approval]
  BY SubType
<1>4. subs'[k].mode = sub.mode /\ subs'[k].hears = sub.hears /\ subs'[k].last = sub.last
  BY <1>2, <1>3
<1>5. Got \subseteq DOMAIN events /\ Got \subseteq Nat /\ Len(events) \in Nat /\ DOMAIN events = 1 .. Len(events)
  BY GotType, EventsType
<1>6. Got' = Got \cup new
  BY <1>2 DEF Got
<1>7. cursor[k] <= Len(events) /\ cursor[k] \in Nat /\ cursor' = cursor
  BY DEF ConnInv, TypeOK
<1>8. For(k)' = For(k) \cup (IF Matches(k, s) THEN {n} ELSE {})
  BY <1>1 DEF For, Matches
<1>9. LiveFor(s) # {} => sub.mode = "live" /\ sub.hears /\ Matches(k, s)
  BY DEF LiveFor, ConnInv
<1>10. sub.mode = "live" /\ sub.hears /\ Matches(k, s) => LiveFor(s) # {}
  BY DEF LiveFor
<1> HIDE DEF new, sub
<1>11. new \subseteq {n} /\ (new # {} <=> LiveFor(s) # {})
  BY DEF new
<1>12. For(k) \subseteq DOMAIN events
  BY DEF For
\* Up to an older event nothing has changed.
<1>13. ASSUME NEW hi \in Nat, hi <= Len(events), Whole(k, hi)
       PROVE  Whole(k, hi)'
  <2> SUFFICES ASSUME NEW i \in For(k)', i >= oldest, i <= hi, NEW x \in Got', x < i
               PROVE  i \in Got'
    BY DEF Whole
  <2>1. i # n
    BY <1>5, <1>13, <1>0
  <2>2. i \in For(k) /\ i \in Nat /\ i < n
    BY <1>1, <1>8, <1>12, <2>1
  <2>3. x # n
    BY <1>1, <2>2
  <2>4. x \in Got
    BY <1>6, <1>11, <2>3
  <2> QED
    BY <1>6, <1>13, <2>2, <2>4 DEF Whole
<1>15. ASSUME sub.mode = "live", sub.hears
       PROVE  Whole(k, n)'
  <2> SUFFICES ASSUME NEW i \in For(k)', i >= oldest, NEW x \in Got', x < i
               PROVE  i \in Got'
    BY DEF Whole
  <2>1. CASE i = n
    <3>1. Matches(k, s)
      BY <1>1, <1>8, <1>12, <2>1
    <3> QED
      BY <1>6, <1>10, <1>15, <2>1, <3>1 DEF new
  <2>2. CASE i # n
    <3>1. i \in For(k) /\ i \in Nat /\ i < n /\ i <= Len(events)
      BY <1>1, <1>5, <1>8, <1>12, <2>2
    <3>2. x # n
      BY <1>1, <3>1
    <3>3. x \in Got
      BY <1>6, <1>11, <3>2
    <3>4. Whole(k, Len(events))
      BY <1>15 DEF OneKey, sub
    <3> QED
      BY <1>6, <3>1, <3>3, <3>4 DEF Whole
  <2> QED
    BY <2>1, <2>2
<1>16. \A j \in Got' : Whole(k, j)'
  <2> TAKE j \in Got'
  <2>1. CASE j \in Got
    <3>1. j \in Nat /\ j <= Len(events) /\ Whole(k, j)
      BY <1>5, <2>1 DEF OneKey
    <3> QED
      BY <1>13, <3>1
  <2>2. CASE j \notin Got
    <3>1. j = n /\ sub.mode = "live" /\ sub.hears
      BY <1>6, <1>9, <1>11, <2>2
    <3> QED
      BY <1>15, <3>1
  <2> QED
    BY <2>1, <2>2
<1>17. Got' \subseteq For(k)'
  <2>1. Got \subseteq For(k)
    BY DEF OneKey
  <2> QED
    BY <1>6, <1>8, <1>9, <1>11, <2>1
<1>18. Rising(down)' /\ \A f \in EventsIn(down)' : f > cursor'[k]
  <2>1. Rising(down')
    BY <1>2 DEF OneKey
  <2>2. \A f \in EventsIn(down) : f > cursor[k]
    BY DEF OneKey
  <2>3. n > cursor[k]
    BY <1>5, <1>7, <1>0
  <2>4. \A f \in EventsIn(down') : f > cursor[k]
    BY <1>2, <1>11, <2>2, <2>3
  <2>5. EventsIn(down)' = EventsIn(down')
    BY DEF EventsIn, Ran
  <2>6. Rising(down)'
    BY <2>1 DEF Rising
  <2> QED
    BY <1>7, <2>4, <2>5, <2>6
<1>19. subscribing' # {} => EventsIn(down)' = {}
  <2>1. subscribing # {} => sub.mode = "none" /\ EventsIn(down) = {}
    BY DEF OneKey, ConnInv, sub
  <2>2. EventsIn(down)' = EventsIn(down')
    BY DEF EventsIn, Ran
  <2> QED
    BY <1>2, <1>9, <1>11, <2>1, <2>2
<1>20. ASSUME sub.mode = "replaying"
       PROVE  SentUpTo(k, subs[k].last)'
  <2>1. Got' = Got
    BY <1>6, <1>9, <1>11, <1>20
  <2>2. PICK last \in Nat : last = subs[k].last
    BY <1>3 DEF sub
  <2>3. last <= Len(events) /\ Whole(k, last) /\ \A j \in Got : j <= last
    BY <1>20, <2>2 DEF OneKey, ReplayInv, Replays, SentUpTo, sub
  <2>4. Whole(k, last)'
    BY <1>13, <2>3
  <2>5. subs'[k].last = last
    BY <1>4, <2>2 DEF sub
  <2> QED
    BY <2>1, <2>3, <2>4, <2>5 DEF SentUpTo, Whole
<1>21. ASSUME sub.mode = "live", sub.hears
       PROVE  Whole(k, Len(events))'
  <2>1. Whole(k, n)' /\ Len(events') = n
    BY <1>1, <1>15, <1>21
  <2> QED
    BY <2>1 DEF Whole
<1>22. \A x \in seen' : x <= cursor'[k]
  BY DEF OneKey
<1>23. cursor'[k] \in seen' \cup {0} /\ \A x \in subscribing' : x[2] = cursor'[k]
  BY DEF OneKey
<1>24. subs'[k].mode = "replaying" => SentUpTo(k, subs[k].last)'
  BY <1>4, <1>20
<1>25. subs'[k].mode = "live" /\ subs'[k].hears => Whole(k, Len(events))'
  BY <1>4, <1>21
<1> QED
  BY <1>16, <1>17, <1>18, <1>19, <1>22, <1>23, <1>24, <1>25 DEF OneKey

LEMMA PublishKeepsShown ==
  ASSUME TypeOK, LogInv, ConnInv, ReplayInv, ShownInv,
         NEW s \in Session, NEW a \in Approval \cup {None},
         Publish(s, a), UNCHANGED <<oldest, shown, seen>>,
         a \in Approval => approval[a] = "asking" /\ approval'[a] = "pending" /\ SessionOf[a] = s,
         \A b \in Approval \ {a} :
           /\ approval'[b] \in {"none", "asking"} => approval[b] \in {"none", "asking"}
           /\ approval'[b] = "pending" => approval[b] = "pending" /\ (b \in answers => b \in answers')
  PROVE  ShownInv'
<1>0. PICK n \in Nat : n = Len(events) + 1
  BY EventsType
<1>1. /\ DOMAIN events' = DOMAIN events \cup {n} /\ n \notin DOMAIN events
      /\ \A i \in DOMAIN events : events'[i] = events[i]
      /\ events'[n] = [sequence |-> n, session |-> s, asks |-> a]
  BY <1>0, PublishedLog
<1>2. Extended /\ events'[n].asks = a
  BY <1>1 DEF Extended
<1>3. /\ \A k \in Key : subs'[k] =
            IF k \in HoldFor(s) THEN [subs[k] EXCEPT !.buffer = Append(@, n)] ELSE subs[k]
      /\ Ran(down) \subseteq Ran(down') /\ EventsIn(down) \subseteq EventsIn(down')
      /\ LiveFor(s) # {} => n \in EventsIn(down')
  BY <1>0, PublishedFrames
<1>4. ASSUME NEW k \in Key
      PROVE  /\ subs'[k].mode = subs[k].mode /\ subs'[k].hears = subs[k].hears
             /\ subs'[k].ids = subs[k].ids
             /\ subs'[k].buffer = IF k \in HoldFor(s) THEN Append(subs[k].buffer, n)
                                                      ELSE subs[k].buffer
  BY <1>3, SubType
<1>5. ASSUME NEW k \in Key
      PROVE  /\ Ran(subs[k].buffer) \subseteq Ran(subs'[k].buffer)
             /\ k \in HoldFor(s) => n \in EventsIn(subs'[k].buffer)
  BY <1>4, SubType, AppendFrames
<1>6. Got \subseteq Got'
  BY <1>3 DEF Got, EventsIn, Ran
<1>7. oldest \in Nat /\ oldest' \in Nat /\ oldest <= oldest'
  BY DEF TypeOK
<1>8. ASSUME NEW b \in Approval, b # a, approval'[b] \in {"none", "asking"}
      PROVE  Unheard(b)'
  <2>1. Unheard(b)
    BY <1>8 DEF ShownInv
  <2> QED
    BY <1>1, <1>2, <1>4, <1>8, <2>1 DEF Unheard
<1>9. ASSUME NEW b \in Approval, b # a, approval'[b] = "pending", NEW k \in Key
      PROVE  /\ ReplayShows(k, b, subs[k])'
             /\ subs'[k].mode = "live" /\ subs'[k].hears /\ Matches(k, SessionOf[b])
                  => Available(b)' \/ Overtaken(b)'
  <2>1. approval[b] = "pending" /\ (b \in shown \cup answers => b \in (shown \cup answers)')
    BY <1>9
  <2>2. Available(b) => Available(b)'
    BY <1>2, <1>3, <2>1, AvailableLasts DEF ConnInv
  <2>3. Overtaken(b) => Overtaken(b)'
    BY <1>2, <1>6, <1>7, OvertakenLasts
  <2>4. subs[k].mode = "replaying" => EventsIn(subs[k].buffer) \subseteq DOMAIN events
    BY DEF ReplayInv, Replays, For
  <2>5. subs[k].mode = "replaying" /\ Announces(subs[k].buffer, b)
          => Announces(subs[k].buffer, b)'
    <3>1. subs[k].mode = "replaying" /\ Announces(subs[k].buffer, b)
          => b \in Ran(subs'[k].buffer) \/ \E i \in EventsIn(subs'[k].buffer) : events'[i].asks = b
      BY <1>2, <1>5, <2>4, AnnouncesLasts
    <3> QED
      BY <3>1 DEF Announces, EventsIn, Ran
  <2>6. ReplayShows(k, b, subs[k])
    BY <2>1 DEF ShownInv
  <2>7. ReplayShows(k, b, subs[k])'
    BY <1>4, <2>2, <2>5, <2>6 DEF ReplayShows, Matches
  <2> QED
    BY <1>4, <2>1, <2>2, <2>3, <2>7 DEF ShownInv, PendingIsShown
<1>10. ASSUME a \in Approval, NEW k \in Key
       PROVE  /\ ReplayShows(k, a, subs[k])'
              /\ subs'[k].mode = "live" /\ subs'[k].hears /\ Matches(k, SessionOf[a])
                   => Available(a)' \/ Overtaken(a)'
  <2>1. a \notin subs'[k].ids
    BY <1>4, <1>10 DEF ShownInv, Unheard
  <2>2. subs'[k].mode = "replaying" /\ subs'[k].hears /\ Matches(k, SessionOf[a])
          => Announces(subs[k].buffer, a)'
    <3> SUFFICES ASSUME subs'[k].mode = "replaying", subs'[k].hears, Matches(k, SessionOf[a])
                 PROVE  Announces(subs[k].buffer, a)'
      OBVIOUS
    <3>1. k \in HoldFor(s)
      BY <1>4, <1>10 DEF HoldFor
    <3>2. n \in EventsIn(subs'[k].buffer)
      BY <1>5, <3>1
    <3> QED
      BY <1>2, <3>2 DEF Announces, EventsIn, Ran
  <2>3. subs'[k].mode = "live" /\ subs'[k].hears /\ Matches(k, SessionOf[a]) => Available(a)'
    <3> SUFFICES ASSUME subs'[k].mode = "live", subs'[k].hears, Matches(k, SessionOf[a])
                 PROVE  Available(a)'
      OBVIOUS
    <3>1. k \in LiveFor(s)
      BY <1>4, <1>10 DEF LiveFor
    <3>2. n \in EventsIn(down')
      BY <1>3, <3>1
    <3>3. Announces(down, a)'
      BY <1>2, <3>2 DEF Announces, EventsIn, Ran
    <3> QED
      BY <1>10, <3>3, AvailableIs
  <2> QED
    BY <2>1, <2>2, <2>3 DEF ReplayShows, Matches
<1>11. \A b \in Approval : approval'[b] \in {"none", "asking"} => Unheard(b)'
  BY <1>8
<1>12. \A k \in Key, b \in Approval : approval'[b] = "pending" => ReplayShows(k, b, subs[k])'
  BY <1>9, <1>10
<1>13. PendingIsShown'
  BY <1>9, <1>10 DEF PendingIsShown, Matches
<1> QED
  BY <1>11, <1>12, <1>13 DEF ShownInv

LEMMA PublishKeeps ==
  ASSUME TypeOK, DeliveryInv, NEW s \in Session, NEW a \in Approval \cup {None}, Publish(s, a),
         hubUp, UNCHANGED <<hubUp, oldest, stale, subscribing, client, faults>>,
         approval' \in [Approval -> {"none", "asking", "pending", "answered", "cancelled", "gone"}],
         answers' \subseteq Approval,
         a \in Approval => approval[a] = "asking" /\ approval'[a] = "pending" /\ SessionOf[a] = s,
         \A b \in Approval \ {a} :
           /\ approval'[b] \in {"none", "asking"} => approval[b] \in {"none", "asking"}
           /\ approval'[b] = "pending" => approval[b] = "pending" /\ (b \in answers => b \in answers')
  PROVE  TypeOK' /\ DeliveryInv'
<1>0. PICK n \in Nat : n = Len(events) + 1
  BY EventsType
<1>1. /\ events' \in Seq(Event) /\ Len(events') = n
      /\ DOMAIN events' = DOMAIN events \cup {n} /\ n \notin DOMAIN events
      /\ \A i \in DOMAIN events : events'[i] = events[i]
      /\ LogInv'
  BY <1>0, PublishedLog DEF DeliveryInv
<1>2. /\ \A k \in Key : subs'[k] =
            IF k \in HoldFor(s) THEN [subs[k] EXCEPT !.buffer = Append(@, n)] ELSE subs[k]
      /\ DOMAIN subs' = Key /\ down' \in Seq(Frame)
      /\ EventsIn(down) \subseteq EventsIn(down') /\ EventsIn(down') \subseteq EventsIn(down) \cup {n}
      /\ LiveFor(s) = {} => down' = down
  BY <1>0, PublishedFrames DEF DeliveryInv
<1>3. ASSUME NEW k \in Key
      PROVE  /\ subs'[k] \in [mode : {"none", "replaying", "live"}, hears : BOOLEAN, last : Nat,
                              buffer : Seq(Frame), ids : SUBSET Approval]
             /\ subs'[k].mode = subs[k].mode /\ subs'[k].hears = subs[k].hears
             /\ subs'[k].last = subs[k].last /\ subs'[k].ids = subs[k].ids
             /\ subs'[k].buffer = IF k \in HoldFor(s) THEN Append(subs[k].buffer, n)
                                                      ELSE subs[k].buffer
  <2>1. Append(subs[k].buffer, n) \in Seq(Frame)
    BY SubType, AppendFrames
  <2> QED
    BY <1>2, <2>1, SubType
<1>4. TypeOK'
  <2>1. subs' = [k \in Key |-> subs'[k]]
    BY DEF Publish
  <2>2. subs' \in [Key -> [mode : {"none", "replaying", "live"}, hears : BOOLEAN, last : Nat,
                           buffer : Seq(Frame), ids : SUBSET Approval]]
    BY <1>3, <2>1
  <2>3. seen' \subseteq DOMAIN events'
    BY <1>1 DEF TypeOK, client
  <2> QED
    BY <1>1, <1>2, <2>2, <2>3 DEF TypeOK, client
<1>5. ConnInv'
  <2>1. on \/ (down' = <<>> /\ \A k \in Key : subs'[k].mode = "none")
    <3>1. on \/ LiveFor(s) = {}
      BY DEF LiveFor, DeliveryInv, ConnInv
    <3> QED
      BY <1>2, <1>3, <3>1 DEF DeliveryInv, ConnInv
  <2>2. Len(events) \in Nat /\ Len(events) <= Len(events') /\ Len(events') \in Nat
    BY <1>0, <1>1, EventsType
  <2>3. \A k \in Key : cursor'[k] <= Len(events')
    <3> TAKE k \in Key
    <3>1. cursor[k] \in Nat /\ cursor[k] <= Len(events) /\ cursor' = cursor
      BY DEF DeliveryInv, ConnInv, TypeOK, client
    <3> QED
      BY <2>2, <3>1
  <2>4. \A x \in subscribing' : /\ x[1] \in keys' /\ subs'[x[1]].mode = "none"
                               /\ x[2] <= Len(events')
    <3> TAKE x \in subscribing'
    <3>1. x \in subscribing /\ x[1] \in Key /\ x[2] \in Nat
      BY DEF TypeOK
    <3>2. x[1] \in keys /\ subs[x[1]].mode = "none" /\ x[2] <= Len(events)
      BY <3>1 DEF DeliveryInv, ConnInv
    <3> QED
      BY <1>3, <2>2, <3>1, <3>2 DEF client
  <2>5. \A k \in Key : /\ subs'[k].mode = "none" => ~subs'[k].hears /\ subs'[k].ids = {}
                       /\ k \notin keys' => subs'[k].mode = "none"
    BY <1>3 DEF DeliveryInv, ConnInv, client
  <2>6. EventsIn(down)' \subseteq DOMAIN events'
    <3>1. EventsIn(down') \subseteq DOMAIN events'
      BY <1>1, <1>2 DEF DeliveryInv, ConnInv
    <3> QED
      BY <3>1 DEF EventsIn, Ran
  <2>7. on' = on /\ hubUp'
    BY DEF client
  <2>8. ~on => subscribing' = {}
    BY DEF DeliveryInv, ConnInv
  <2>9. \A x, y \in subscribing' : x[1] = y[1] => x = y
    BY DEF DeliveryInv, ConnInv
  <2> QED
    BY <2>1, <2>3, <2>4, <2>5, <2>6, <2>7, <2>8, <2>9 DEF ConnInv
<1>6. Got \subseteq Got'
  BY <1>2 DEF Got, EventsIn, Ran, client
<1>7. ReplayInv'
  <2> SUFFICES ASSUME NEW k \in Key, subs'[k].mode = "replaying"
               PROVE  Replays(k, subs[k])'
    BY DEF ReplayInv
  <2> DEFINE b == subs[k].buffer
             c == subs'[k].buffer
  <2>1. /\ subs[k].last <= Len(events) /\ EventsIn(b) \subseteq For(k) /\ Rising(b)
        /\ \A i \in EventsIn(b) :
             i <= subs[k].last => events[i].asks \in subs[k].ids \cup {None} \/ Passed(i)
    <3>1. Replays(k, subs[k])
      BY <1>3 DEF DeliveryInv, ReplayInv
    <3> QED
      BY <3>1 DEF Replays
  <2>2. b \in Seq(Frame) /\ subs[k].last \in Nat
    BY SubType
  <2>3. Len(events) \in Nat /\ DOMAIN events = 1 .. Len(events) /\ For(k) \subseteq DOMAIN events
    BY EventsType DEF For
  <2>4. For(k) \subseteq For(k)'
    BY <1>1 DEF For, Matches
  <2>5. k \in HoldFor(s) => n \in For(k)'
    <3>1. events'[n] = [sequence |-> n, session |-> s, asks |-> a]
      BY <1>0, PublishedLog DEF DeliveryInv
    <3> QED
      BY <1>1, <3>1 DEF For, HoldFor, Matches
  <2> HIDE DEF b, c
  <2>6. c \in Seq(Frame) /\ EventsIn(c) \subseteq For(k)' /\ Rising(c) /\ EventsIn(c) \subseteq EventsIn(b) \cup {n}
    <3>1. CASE k \in HoldFor(s)
      <4>1. c = Append(b, n)
        BY <1>3, <3>1 DEF b, c
      <4>2. \A x \in EventsIn(b) : x < n
        BY <1>0, <2>1, <2>3
      <4>3. /\ Append(b, n) \in Seq(Frame) /\ EventsIn(Append(b, n)) = EventsIn(b) \cup {n}
            /\ Rising(Append(b, n))
        BY <2>1, <2>2, <4>2, AppendFrames, AppendRises
      <4> QED
        BY <2>1, <2>4, <2>5, <3>1, <4>1, <4>3
    <3>2. CASE k \notin HoldFor(s)
      BY <1>3, <2>1, <2>2, <2>4, <3>2 DEF b, c
    <3> QED
      BY <3>1, <3>2
  <2>7. ASSUME NEW i \in EventsIn(c), i <= subs[k].last
        PROVE  events'[i].asks \in subs[k].ids \cup {None} \/ Passed(i)'
    <3>1. i \in EventsIn(b)
      BY <1>0, <2>1, <2>2, <2>3, <2>6, <2>7
    <3>2. i \in DOMAIN events /\ i \in Nat
      BY <2>1, <2>3, <3>1
    <3>3. Passed(i) => Passed(i)'
      BY <1>6, <3>2, PassedLasts DEF TypeOK
    <3> QED
      BY <1>1, <2>1, <2>7, <3>1, <3>2, <3>3
  <2>8. subs[k].last <= Len(events')
    BY <1>0, <1>1, <2>1, <2>2, <2>3
  <2>9. EventsIn(subs[k].buffer)' = EventsIn(c) /\ (Rising(subs[k].buffer)' <=> Rising(c))
    BY DEF EventsIn, Ran, Rising, c
  <2> QED
    BY <1>3, <2>6, <2>7, <2>8, <2>9 DEF Replays
<1>8. OneKeyInv'
  BY PublishKeepsOneKey DEF OneKeyInv, DeliveryInv, client
<1>9. ShownInv'
  BY PublishKeepsShown DEF DeliveryInv, client
<1> QED
  BY <1>1, <1>4, <1>5, <1>7, <1>8, <1>9 DEF DeliveryInv

-----------------------------------------------------------------------------
(* A turn of a replay sends the next page or, if nothing is left, flushes.  *)

SubRecord == [mode : {"none", "replaying", "live"}, hears : BOOLEAN, last : Nat,
              buffer : Seq(Frame), ids : SUBSET Approval]

\* What the turn of subscription k has sent, and the subscription after it.
TurnSends(k, sub, sent, after) ==
  /\ subs' = [subs EXCEPT ![k] = after] /\ after \in SubRecord
  /\ after.hears = sub.hears
  /\ down' \in Seq(Frame) /\ Ran(down') = Ran(down) \cup sent
  /\ EventsIn(down') = EventsIn(down) \cup (sent \ Approval)
  /\ Rising(down) /\ (\A f \in EventsIn(down) : f <= sub.last) => Rising(down')

PageTurn(k, sub, top, after) ==
  LET sent == {i \in Rest(k, sub.last) : i <= top} IN
  /\ top \in Rest(k, sub.last)
  /\ TurnSends(k, sub, sent, after)
  /\ after.mode = "replaying" /\ after.last = top /\ after.buffer = sub.buffer
  /\ after.ids = (sub.ids \cup {events[i].asks : i \in sent}) \ {None}

LastTurn(k, sub, sent, after) ==
  /\ Rest(k, sub.last) = {}
  /\ sent = {f \in Ran(sub.buffer) : IF f \in Approval THEN f \notin sub.ids ELSE f > sub.last}
  /\ TurnSends(k, sub, sent, after)
  /\ after.mode = "live" /\ after.ids = {}

LEMMA TurnIs ==
  ASSUME TypeOK, LogInv, NEW k \in Key, NEW sub \in SubRecord, sub.mode = "replaying",
         Replays(k, sub), Turn(k, sub)
  PROVE  \/ \E top \in Nat : \E after : PageTurn(k, sub, top, after)
         \/ \E sent, after : LastTurn(k, sub, sent, after)
<1> DEFINE page == Page(k, sub.last)
<1>1. /\ sub.last \in Nat /\ sub.buffer \in Seq(Frame) /\ Rising(sub.buffer)
      /\ EventsIn(sub.buffer) \subseteq DOMAIN events /\ sub.ids \subseteq Approval
  BY DEF SubRecord, Replays, For
<1>2. down \in Seq(Frame)
  BY DEF TypeOK
<1>3. Rest(k, sub.last) \subseteq DOMAIN events /\ DOMAIN events = 1 .. Len(events) /\ Len(events) \in Nat
  BY EventsType DEF Rest
<1>4. /\ page \in Seq(Frame) /\ Rising(page)
      /\ page = <<>> => Rest(k, sub.last) = {}
      /\ page # <<>> =>
           /\ page[Len(page)] \in Rest(k, sub.last)
           /\ events[page[Len(page)]].sequence = page[Len(page)]
           /\ Ran(page) = {i \in Rest(k, sub.last) : i <= page[Len(page)]}
  BY <1>1, PageFrames
<1>5. CASE page # <<>>
  <2>1. PICK top \in Nat : top = page[Len(page)]
    BY <1>3, <1>4, <1>5
  <2> DEFINE sent == {i \in Rest(k, sub.last) : i <= top}
             ids == (sub.ids \cup {events[i].asks : i \in sent}) \ {None}
             after == [sub EXCEPT !.last = top, !.ids = ids]
  <2>2. top \in Rest(k, sub.last) /\ events[top].sequence = top /\ Ran(page) = sent
    BY <1>4, <1>5, <2>1
  <2>3. sent \subseteq Nat /\ EventsIn(page) = sent /\ sent \ Approval = sent
    BY <1>3, <2>2, NameAssumption DEF EventsIn
  <2>4. {events[page[j]].asks : j \in DOMAIN page} = {events[i].asks : i \in sent}
    BY <2>2 DEF Ran
  <2>5. down' = down \o page /\ subs' = [subs EXCEPT ![k] = after]
    BY <1>5, <2>1, <2>2, <2>4 DEF Turn
  <2>6. ids \subseteq Approval
    <3>1. \A i \in sent : events[i].asks \in Approval \cup {None}
      BY <1>3, EventsType DEF Event
    <3> QED
      BY <1>1, <3>1
  <2> HIDE DEF ids
  <2>7. /\ after \in SubRecord /\ after.hears = sub.hears /\ after.mode = "replaying"
        /\ after.last = top /\ after.buffer = sub.buffer /\ after.ids = ids
    BY <2>1, <2>6 DEF SubRecord
  <2> HIDE DEF after, page
  <2>8. /\ down' \in Seq(Frame) /\ Ran(down') = Ran(down) \cup sent
        /\ EventsIn(down') = EventsIn(down) \cup (sent \ Approval)
    BY <1>2, <1>4, <2>2, <2>3, <2>5, ConcatFrames
  <2>9. Rising(down) /\ (\A f \in EventsIn(down) : f <= sub.last) => Rising(down')
    <3> SUFFICES ASSUME Rising(down), \A f \in EventsIn(down) : f <= sub.last
                 PROVE  Rising(down')
      OBVIOUS
    <3>1. \A y \in EventsIn(page) : y > sub.last /\ y \in Nat
      BY <2>3 DEF Rest
    <3>2. \A x \in EventsIn(down) : x \in Nat
      BY <1>2, EventsAreNumbers
    <3>3. \A x \in EventsIn(down), y \in EventsIn(page) : x < y
      BY <1>1, <3>1, <3>2
    <3> QED
      BY <1>2, <1>4, <2>5, <3>3, ConcatRises
  <2>10. PageTurn(k, sub, top, after)
    BY <2>2, <2>5, <2>7, <2>8, <2>9 DEF PageTurn, TurnSends, ids
  <2> QED
    BY <2>10
<1>6. CASE page = <<>>
  <2> DEFINE sent == {f \in Ran(sub.buffer) : IF f \in Approval THEN f \notin sub.ids ELSE f > sub.last}
             after == [NoSub EXCEPT !.mode = "live", !.hears = sub.hears]
             flush == Flush(sub)
  <2>1. down' = down \o flush /\ subs' = [subs EXCEPT ![k] = after]
    BY <1>6 DEF Turn
  <2>2. flush \in Seq(Frame) /\ Rising(flush) /\ Ran(flush) = sent
    BY <1>1, FlushFrames
  <2>3. after \in SubRecord /\ after.hears = sub.hears /\ after.mode = "live" /\ after.ids = {}
    BY EmptySeq DEF NoSub, SubRecord
  <2> HIDE DEF after, flush
  <2>4. /\ down' \in Seq(Frame) /\ Ran(down') = Ran(down) \cup sent
        /\ EventsIn(down') = EventsIn(down) \cup (sent \ Approval)
    BY <1>2, <2>1, <2>2, ConcatFrames DEF EventsIn
  <2>5. Rising(down) /\ (\A f \in EventsIn(down) : f <= sub.last) => Rising(down')
    <3> SUFFICES ASSUME Rising(down), \A f \in EventsIn(down) : f <= sub.last
                 PROVE  Rising(down')
      OBVIOUS
    <3>1. \A y \in EventsIn(flush) : y > sub.last /\ y \in Nat
      BY <2>2, EventsAreNumbers DEF EventsIn
    <3>2. \A x \in EventsIn(down) : x \in Nat
      BY <1>2, EventsAreNumbers
    <3>3. \A x \in EventsIn(down), y \in EventsIn(flush) : x < y
      BY <1>1, <3>1, <3>2
    <3> QED
      BY <1>2, <2>1, <2>2, <3>3, ConcatRises
  <2>6. LastTurn(k, sub, sent, after)
    BY <1>4, <1>6, <2>1, <2>3, <2>4, <2>5 DEF LastTurn, TurnSends
  <2> QED
    BY <2>6
<1> QED
  BY <1>5, <1>6

LEMMA TurnKeepsOneKey ==
  ASSUME TypeOK, ConnInv, NEW k \in Key, keys = {k}, OneKey(k),
         NEW sub \in SubRecord, Replays(k, sub), SentUpTo(k, sub.last),
         \/ \E top \in Nat : \E after : PageTurn(k, sub, top, after)
         \/ \E sent, after : LastTurn(k, sub, sent, after),
         UNCHANGED <<events, oldest, keys, cursor, seen>>, subscribing' = {}
  PROVE  OneKey(k)'
<1>1. Len(events) \in Nat /\ DOMAIN events = 1 .. Len(events) /\ Got \subseteq Nat
  BY EventsType, GotType
<1>2. For(k)' = For(k) /\ For(k) \subseteq DOMAIN events
  BY DEF For, Matches
<1>3. PICK last \in Nat : last = sub.last
  BY DEF SubRecord
<1>4. Whole(k, last) /\ \A j \in Got : j <= last
  BY <1>3 DEF SentUpTo
<1>5. cursor[k] \in Nat /\ cursor[k] <= last
  BY <1>4 DEF OneKey, Got, TypeOK
<1>6. Rising(down) /\ \A f \in EventsIn(down) : f <= last /\ f > cursor[k]
  BY <1>4 DEF OneKey, Got
<1>7. Got \subseteq For(k)
  BY DEF OneKey
<1>8. /\ \A x \in seen' : x <= cursor'[k]
      /\ cursor'[k] \in seen' \cup {0}
  BY DEF OneKey
<1>9. ASSUME NEW top \in Nat, NEW after, PageTurn(k, sub, top, after)
      PROVE  OneKey(k)'
  <2> DEFINE S == Rest(k, last)
             sent == {i \in S : i <= top}
  <2>1. top \in S /\ TurnSends(k, sub, sent, after) /\ after.mode = "replaying" /\ after.last = top
    BY <1>3, <1>9 DEF PageTurn
  <2>2. /\ S \subseteq For(k) /\ S \subseteq Nat /\ \A i \in S : i > last
        /\ \A i \in For(k) : i >= oldest /\ i > last => i \in S
    BY <1>1 DEF Rest, For
  <2> HIDE DEF S
  <2>3. sent \ Approval = sent
    BY <2>2, NameAssumption
  <2>4. /\ EventsIn(down') = EventsIn(down) \cup sent /\ Rising(down') /\ subs'[k] = after
    BY <1>3, <1>6, <2>1, <2>3 DEF TurnSends, TypeOK
  <2>5. EventsIn(down)' = EventsIn(down') /\ (Rising(down)' <=> Rising(down'))
    BY DEF EventsIn, Ran, Rising
  <2>6. Got' = Got \cup sent
    BY <2>4, <2>5 DEF Got
  <2>7. \A j \in Got' : j \in Nat /\ j <= top
    <3>1. last < top
      BY <2>1, <2>2
    <3> QED
      BY <1>1, <1>4, <2>2, <2>6, <3>1
  <2>8. Whole(k, top)'
    <3> SUFFICES ASSUME NEW i \in For(k), i >= oldest, i <= top, NEW x \in Got', x < i
                 PROVE  i \in Got'
      BY <1>2 DEF Whole
    <3>1. i \in Nat
      BY <1>1, <1>2
    <3>2. CASE i <= last
      <4>1. x \notin sent
        <5> SUFFICES ASSUME x \in sent PROVE FALSE
          OBVIOUS
        <5>1. x \in Nat /\ x > last
          BY <2>2
        <5> QED
          BY <1>3, <3>1, <3>2, <5>1
      <4>2. x \in Got
        BY <2>6, <4>1
      <4> QED
        BY <1>4, <2>6, <3>2, <4>2 DEF Whole
    <3>3. CASE ~(i <= last)
      <4>1. i \in sent
        BY <2>2, <3>1, <3>3
      <4> QED
        BY <2>6, <4>1
    <3> QED
      BY <3>2, <3>3
  <2>9. \A j \in Got' : Whole(k, j)'
    <3> TAKE j \in Got'
    <3>1. \A i \in For(k) : i <= j => i <= top
      BY <1>1, <1>2, <2>7
    <3> QED
      BY <1>2, <2>8, <3>1 DEF Whole
  <2>10. \A f \in EventsIn(down)' : f > cursor'[k]
    <3>1. \A f \in sent : f \in Nat /\ f > last
      BY <2>2
    <3>2. \A f \in sent : f > cursor[k]
      BY <1>3, <1>5, <3>1
    <3> QED
      BY <1>6, <2>4, <2>5, <3>2
  <2>11. SentUpTo(k, subs[k].last)'
    <3>1. subs'[k].last = top
      BY <2>1, <2>4
    <3> QED
      BY <2>7, <2>8, <3>1 DEF SentUpTo, Whole
  <2>12. subs'[k].mode = "replaying"
    BY <2>1, <2>4
  <2>13. Got' \subseteq For(k)'
    BY <1>2, <1>7, <2>2, <2>6
  <2> QED
    BY <1>8, <2>4, <2>5, <2>9, <2>10, <2>11, <2>12, <2>13 DEF OneKey
<1>10. ASSUME NEW sent, NEW after, LastTurn(k, sub, sent, after)
       PROVE  OneKey(k)'
  <2> DEFINE new == sent \ Approval
  <2>1. /\ TurnSends(k, sub, sent, after) /\ after.mode = "live" /\ Rest(k, last) = {}
        /\ sent = {f \in Ran(sub.buffer) : IF f \in Approval THEN f \notin sub.ids ELSE f > sub.last}
    BY <1>3, <1>10 DEF LastTurn
  <2>2. new \subseteq For(k) /\ new \subseteq Nat /\ \A f \in new : f > last
    <3>1. new \subseteq EventsIn(sub.buffer)
      BY <2>1 DEF EventsIn
    <3> QED
      BY <1>1, <1>2, <1>3, <2>1, <3>1 DEF Replays
  <2>3. \A i \in For(k) : i >= oldest => i <= last
    BY <1>1, <1>2, <2>1 DEF Rest, For
  <2>4. EventsIn(down') = EventsIn(down) \cup new /\ Rising(down') /\ subs'[k] = after
    BY <1>3, <1>6, <2>1 DEF TurnSends, TypeOK
  <2>5. EventsIn(down)' = EventsIn(down') /\ (Rising(down)' <=> Rising(down'))
    BY DEF EventsIn, Ran, Rising
  <2> HIDE DEF new
  <2>6. Got' = Got \cup new
    BY <2>4, <2>5 DEF Got
  <2>7. ASSUME NEW hi
        PROVE  Whole(k, hi)'
    <3> SUFFICES ASSUME NEW i \in For(k), i >= oldest, NEW x \in Got', x < i
                 PROVE  i \in Got'
      BY <1>2 DEF Whole
    <3>1. i <= last /\ i \in Nat
      BY <1>1, <1>2, <2>3
    <3>2. x \notin new
      <4> SUFFICES ASSUME x \in new PROVE FALSE
        OBVIOUS
      <4>1. x \in Nat /\ x > last
        BY <2>2
      <4> QED
        BY <1>3, <3>1, <4>1
    <3>3. x \in Got
      BY <2>6, <3>2
    <3> QED
      BY <1>4, <2>6, <3>1, <3>3 DEF Whole
  <2>8. \A f \in EventsIn(down)' : f > cursor'[k]
    <3>1. \A f \in new : f > cursor[k]
      BY <1>3, <1>5, <2>2
    <3> QED
      BY <1>6, <2>4, <2>5, <3>1
  <2>9. Whole(k, Len(events))'
    <3>1. PICK hi : hi = Len(events')
      OBVIOUS
    <3>2. Whole(k, hi)'
      BY <2>7
    <3> QED
      BY <3>1, <3>2 DEF Whole
  <2>10. subs'[k].mode = "live"
    BY <2>1, <2>4
  <2>11. Got' \subseteq For(k)'
    BY <1>2, <1>7, <2>2, <2>6
  <2>12. \A j \in Got' : Whole(k, j)'
    BY <2>7
  <2> QED
    BY <1>8, <2>4, <2>5, <2>8, <2>9, <2>10, <2>11, <2>12 DEF OneKey
<1> QED
  BY <1>9, <1>10

LEMMA TurnKeepsShown ==
  ASSUME TypeOK, ConnInv, ShownInv, NEW k \in Key, NEW sub \in SubRecord,
         sub.mode = "replaying", Replays(k, sub),
         \A a \in Approval : /\ approval[a] = "pending" => ReplayShows(k, a, sub)
                             /\ approval[a] \in {"none", "asking"} => a \notin sub.ids,
         \/ \E top \in Nat : \E after : PageTurn(k, sub, top, after)
         \/ \E sent, after : LastTurn(k, sub, sent, after),
         UNCHANGED <<events, oldest, approval, answers, shown, seen>>
  PROVE  ShownInv'
<1>1. PICK sent, after :
        /\ TurnSends(k, sub, sent, after)
        /\ \/ \E top \in Nat : /\ PageTurn(k, sub, top, after)
                               /\ sent = {i \in Rest(k, sub.last) : i <= top}
           \/ LastTurn(k, sub, sent, after)
  <2>1. ASSUME NEW top \in Nat, NEW after, PageTurn(k, sub, top, after)
        PROVE  TurnSends(k, sub, {i \in Rest(k, sub.last) : i <= top}, after)
    BY <2>1 DEF PageTurn
  <2>2. ASSUME NEW sent, NEW after, LastTurn(k, sub, sent, after)
        PROVE  TurnSends(k, sub, sent, after)
    BY <2>2 DEF LastTurn
  <2>3. CASE \E top \in Nat : \E after : PageTurn(k, sub, top, after)
    <3>1. PICK top \in Nat : \E after : PageTurn(k, sub, top, after)
      BY <2>3
    <3>2. PICK after : PageTurn(k, sub, top, after)
      BY <3>1
    <3> QED
      BY <2>1, <3>2
  <2>4. CASE \E sent, after : LastTurn(k, sub, sent, after)
    BY <2>2, <2>4
  <2> QED
    BY <2>3, <2>4
<1>2. /\ subs'[k] = after /\ \A l \in Key \ {k} : subs'[l] = subs[l]
      /\ after.hears = sub.hears
      /\ Ran(down') = Ran(down) \cup sent /\ EventsIn(down') = EventsIn(down) \cup (sent \ Approval)
  BY <1>1 DEF TurnSends, TypeOK
<1>3. Extended
  BY DEF Extended
<1>4. Got \subseteq Got'
  BY <1>2 DEF Got, EventsIn, Ran
<1>5. \A a \in Approval : Available(a) => Available(a)'
  BY <1>2, <1>3, AvailableLasts DEF ConnInv
<1>6. \A a \in Approval : Overtaken(a) => Overtaken(a)'
  BY <1>3, <1>4, OvertakenLasts DEF TypeOK
\* What has been sent is available.
<1>7. ASSUME NEW a \in Approval, a \in sent \/ \E i \in sent \ Approval : events[i].asks = a
      PROVE  Available(a)'
  <2>1. Announces(down, a)'
    BY <1>2, <1>7 DEF Announces, EventsIn, Ran
  <2> QED
    BY <2>1, AvailableIs
<1>8. Rest(k, sub.last) \subseteq DOMAIN events /\ Rest(k, sub.last) \cap Approval = {}
  BY EventsType, NameAssumption DEF Rest
\* An approval of this subscription that is pending, after a page and after the end.
<1>9. ASSUME NEW a \in Approval, approval[a] = "pending"
      PROVE  /\ ReplayShows(k, a, subs[k])'
             /\ subs'[k].mode = "live" /\ subs'[k].hears /\ Matches(k, SessionOf[a])
                  => Available(a)' \/ Overtaken(a)'
  <2>1. ReplayShows(k, a, sub)
    BY <1>9
  <2>2. CASE \E top \in Nat : /\ PageTurn(k, sub, top, after)
                              /\ sent = {i \in Rest(k, sub.last) : i <= top}
    <3>1. /\ after.mode = "replaying" /\ after.buffer = sub.buffer
          /\ after.ids = (sub.ids \cup {events[i].asks : i \in sent}) \ {None}
      BY <2>2 DEF PageTurn
    <3>2. a \in after.ids => Available(a)'
      BY <1>5, <1>7, <1>8, <2>1, <2>2, <3>1 DEF ReplayShows
    <3>3. Announces(sub.buffer, a) => Announces(subs[k].buffer, a)'
      BY <1>2, <3>1 DEF Announces, EventsIn, Ran
    <3>4. ReplayShows(k, a, subs[k])'
      BY <1>2, <1>5, <2>1, <3>1, <3>2, <3>3 DEF ReplayShows, Matches
    <3> QED
      BY <1>2, <3>1, <3>4
  <2>3. CASE LastTurn(k, sub, sent, after)
    <3>1. /\ after.mode = "live" /\ after.ids = {}
          /\ sent = {f \in Ran(sub.buffer) : IF f \in Approval THEN f \notin sub.ids ELSE f > sub.last}
      BY <2>3 DEF LastTurn
    <3>2. ReplayShows(k, a, subs[k])'
      BY <1>2, <3>1 DEF ReplayShows
    <3>3. ASSUME sub.hears, Matches(k, SessionOf[a])
          PROVE  Available(a)' \/ Overtaken(a)'
      <4>1. Available(a) \/ Announces(sub.buffer, a)
        BY <2>1, <3>3 DEF ReplayShows
      <4>2. CASE a \in Ran(sub.buffer)
        <5>1. a \in sub.ids \/ a \in sent
          BY <3>1, <4>2
        <5> QED
          BY <1>5, <1>7, <2>1, <5>1 DEF ReplayShows
      <4>3. ASSUME NEW i \in EventsIn(sub.buffer), events[i].asks = a
            PROVE  Available(a)' \/ Overtaken(a)'
        <5>1. CASE i <= sub.last
          <6>1. a \in sub.ids \/ Passed(i)
            BY <4>3, <5>1, NameAssumption DEF Replays
          <6>2. i \in DOMAIN events
            BY DEF Replays, For
          <6>3. Passed(i) => Overtaken(a)
            BY <4>3, <6>2, OvertakenIs
          <6> QED
            BY <1>5, <1>6, <2>1, <6>1, <6>3 DEF ReplayShows
        <5>2. CASE ~(i <= sub.last)
          <6>1. i \in Nat /\ sub.last \in Nat
            BY EventsType DEF Replays, For, SubRecord
          <6>2. i \in sent \ Approval
            BY <3>1, <5>2, <6>1 DEF EventsIn
          <6> QED
            BY <1>7, <4>3, <6>2
        <5> QED
          BY <5>1, <5>2
      <4> QED
        BY <1>5, <4>1, <4>2, <4>3 DEF Announces
    <3> QED
      BY <1>2, <3>2, <3>3
  <2> QED
    BY <1>1, <2>2, <2>3
<1>10. ASSUME NEW a \in Approval, approval[a] = "pending", NEW l \in Key \ {k}
       PROVE  /\ ReplayShows(l, a, subs[l])'
              /\ subs'[l].mode = "live" /\ subs'[l].hears /\ Matches(l, SessionOf[a])
                   => Available(a)' \/ Overtaken(a)'
  <2>1. ReplayShows(l, a, subs[l])
    BY <1>10 DEF ShownInv
  <2>2. Announces(subs[l].buffer, a) => Announces(subs[l].buffer, a)'
    BY <1>2 DEF Announces, EventsIn, Ran
  <2>3. ReplayShows(l, a, subs[l])'
    BY <1>2, <1>5, <2>1, <2>2 DEF ReplayShows, Matches
  <2> QED
    BY <1>2, <1>5, <1>6, <1>10, <2>3 DEF ShownInv, PendingIsShown
<1>11. ASSUME NEW a \in Approval, approval[a] \in {"none", "asking"}
       PROVE  Unheard(a)'
  <2>1. Unheard(a) /\ a \notin sub.ids
    BY <1>11 DEF ShownInv
  <2>2. a \notin subs'[k].ids
    <3>1. CASE \E top \in Nat : /\ PageTurn(k, sub, top, after)
                                /\ sent = {i \in Rest(k, sub.last) : i <= top}
      BY <1>2, <1>8, <2>1, <3>1 DEF PageTurn, Unheard
    <3>2. CASE LastTurn(k, sub, sent, after)
      BY <1>2, <3>2 DEF LastTurn
    <3> QED
      BY <1>1, <3>1, <3>2
  <2> QED
    BY <1>2, <2>1, <2>2 DEF Unheard
<1>12. \A a \in Approval : approval'[a] \in {"none", "asking"} => Unheard(a)'
  BY <1>11
<1>13. \A l \in Key, a \in Approval : approval'[a] = "pending" => ReplayShows(l, a, subs[l])'
  BY <1>9, <1>10
<1>14. PendingIsShown'
  BY <1>9, <1>10 DEF PendingIsShown, Matches
<1> QED
  BY <1>12, <1>13, <1>14 DEF ShownInv

LEMMA TurnKeeps ==
  ASSUME TypeOK, DeliveryInv, on, hubUp, NEW k \in Key, k \in keys,
         NEW sub \in SubRecord, sub.mode = "replaying", Replays(k, sub), Turn(k, sub),
         keys = {k} => SentUpTo(k, sub.last),
         \A a \in Approval : /\ approval[a] = "pending" => ReplayShows(k, a, sub)
                             /\ approval[a] \in {"none", "asking"} => a \notin sub.ids,
         subscribing' \subseteq subscribing, \A x \in subscribing' : x[1] # k,
         UNCHANGED <<hubUp, events, oldest, approval, stale, answers, client, faults>>
  PROVE  TypeOK' /\ DeliveryInv'
<1>1. UNCHANGED <<on, keys, cursor, seen, shown>>
  BY DEF client
<1>2. \/ \E top \in Nat : \E after : PageTurn(k, sub, top, after)
      \/ \E sent, after : LastTurn(k, sub, sent, after)
  BY TurnIs DEF DeliveryInv
<1>3. Len(events) \in Nat /\ DOMAIN events = 1 .. Len(events)
  BY EventsType
<1>4. PICK sent, after :
        /\ TurnSends(k, sub, sent, after)
        /\ sent \ Approval \subseteq DOMAIN events
        /\ after.mode \in {"replaying", "live"}
        /\ after.mode = "replaying" => Replays(k, after)'
  <2>1. ASSUME NEW top \in Nat, NEW after, PageTurn(k, sub, top, after)
        PROVE  LET sent == {i \in Rest(k, sub.last) : i <= top}
               IN  /\ TurnSends(k, sub, sent, after) /\ sent \ Approval \subseteq DOMAIN events
                   /\ after.mode = "replaying" /\ Replays(k, after)'
    <3> DEFINE S == Rest(k, sub.last)
               sent == {i \in S : i <= top}
    <3>1. /\ top \in S /\ TurnSends(k, sub, sent, after) /\ after.mode = "replaying"
          /\ after.last = top /\ after.buffer = sub.buffer
          /\ after.ids = (sub.ids \cup {events[i].asks : i \in sent}) \ {None}
      BY <2>1 DEF PageTurn
    <3>2. /\ S \subseteq DOMAIN events /\ S \subseteq Nat /\ \A i \in S : i >= oldest
          /\ \A i \in For(k) : i >= oldest /\ i > sub.last => i \in S
      BY <1>3 DEF Rest, For
    <3> HIDE DEF S
    <3>3. /\ sub.last \in Nat /\ oldest \in Nat /\ oldest' = oldest /\ events' = events
      BY DEF SubRecord, TypeOK
    <3>4. EventsIn(down') = EventsIn(down) \cup sent
      BY <3>1, <3>2, NameAssumption DEF TurnSends
    <3>5. Got \subseteq Got' /\ top \in Got'
      BY <1>1, <3>1, <3>4 DEF Got, EventsIn, Ran
    <3>6. ASSUME NEW i \in EventsIn(sub.buffer), i <= top
          PROVE  events[i].asks \in after.ids \cup {None} \/ Passed(i)'
      <4>1. i \in For(k) /\ i \in Nat
        BY <1>3 DEF Replays, For
      <4>2. CASE i <= sub.last
        <5>1. events[i].asks \in sub.ids \cup {None} \/ Passed(i)
          BY <4>2 DEF Replays
        <5>2. Passed(i) => Passed(i)'
          BY <3>3, <3>5, <4>1, PassedLasts
        <5> QED
          BY <3>1, <5>1, <5>2
      <4>3. CASE ~(i <= sub.last) /\ i >= oldest
        <5>1. i \in sent
          BY <3>2, <3>3, <3>6, <4>1, <4>3
        <5> QED
          BY <3>1, <5>1
      <4>4. CASE ~(i >= oldest)
        <5>1. i < top /\ i < oldest
          BY <3>1, <3>2, <3>3, <3>6, <4>1, <4>4
        <5> QED
          BY <3>3, <3>5, <5>1 DEF Passed
      <4> QED
        BY <3>3, <4>1, <4>2, <4>3, <4>4
    <3>7. Replays(k, after)'
      <4>1. EventsIn(sub.buffer)' = EventsIn(sub.buffer) /\ For(k)' = For(k)
            /\ (Rising(sub.buffer)' <=> Rising(sub.buffer))
        BY <3>3 DEF EventsIn, Ran, Rising, For, Matches
      <4>2. top <= Len(events)
        BY <1>3, <3>1, <3>2
      <4> QED
        BY <3>1, <3>3, <3>6, <4>1, <4>2 DEF Replays
    <3> QED
      BY <3>1, <3>2, <3>7 DEF S
  <2>2. ASSUME NEW sent, NEW after, LastTurn(k, sub, sent, after)
        PROVE  /\ TurnSends(k, sub, sent, after) /\ sent \ Approval \subseteq DOMAIN events
               /\ after.mode = "live"
    <3>1. sent \ Approval \subseteq EventsIn(sub.buffer)
      BY <2>2 DEF LastTurn, EventsIn
    <3> QED
      BY <2>2, <3>1 DEF LastTurn, Replays, For
  <2>3. CASE \E top \in Nat : \E after : PageTurn(k, sub, top, after)
    <3>1. PICK top \in Nat : \E after : PageTurn(k, sub, top, after)
      BY <2>3
    <3>2. PICK after : PageTurn(k, sub, top, after)
      BY <3>1
    <3> QED
      BY <2>1, <3>2
  <2>4. CASE \E sent, after : LastTurn(k, sub, sent, after)
    <3>1. PICK sent, after : LastTurn(k, sub, sent, after)
      BY <2>4
    <3> QED
      BY <2>2, <3>1
  <2> QED
    BY <1>2, <2>3, <2>4
<1>5. /\ subs' = [subs EXCEPT ![k] = after] /\ after \in SubRecord /\ after.hears = sub.hears
      /\ down' \in Seq(Frame) /\ EventsIn(down') = EventsIn(down) \cup (sent \ Approval)
  BY <1>4 DEF TurnSends
<1>6. subs'[k] = after /\ \A l \in Key \ {k} : subs'[l] = subs[l]
  BY <1>5 DEF TypeOK
<1>7. TypeOK'
  <2>1. subs' \in [Key -> SubRecord]
    BY <1>5 DEF TypeOK, SubRecord
  <2> QED
    BY <1>1, <1>5, <2>1 DEF TypeOK, SubRecord
<1>8. Got \subseteq Got'
  BY <1>1, <1>5 DEF Got, EventsIn, Ran
<1>9. ConnInv'
  <2>1. EventsIn(down)' \subseteq DOMAIN events'
    <3>1. EventsIn(down') \subseteq DOMAIN events'
      BY <1>4, <1>5 DEF DeliveryInv, ConnInv
    <3> QED
      BY <3>1 DEF EventsIn, Ran
  <2>2. \A x \in subscribing' : /\ x[1] \in keys' /\ subs'[x[1]].mode = "none"
                               /\ x[2] <= Len(events')
    <3> TAKE x \in subscribing'
    <3>1. x \in subscribing /\ x[1] \in Key \ {k}
      BY DEF TypeOK
    <3> QED
      BY <1>1, <1>6, <3>1 DEF DeliveryInv, ConnInv
  <2>3. \A l \in Key : /\ subs'[l].mode = "none" => ~subs'[l].hears /\ subs'[l].ids = {}
                       /\ l \notin keys' => subs'[l].mode = "none"
                       /\ cursor'[l] <= Len(events')
    <3> TAKE l \in Key
    <3>1. CASE l = k
      BY <1>1, <1>4, <1>6, <3>1 DEF DeliveryInv, ConnInv
    <3>2. CASE l # k
      BY <1>1, <1>6, <3>2 DEF DeliveryInv, ConnInv
    <3> QED
      BY <3>1, <3>2
  <2>4. \A x, y \in subscribing' : x[1] = y[1] => x = y
    BY DEF DeliveryInv, ConnInv
  <2> QED
    BY <1>1, <2>1, <2>2, <2>3, <2>4 DEF ConnInv
<1>10. ReplayInv'
  <2> SUFFICES ASSUME NEW l \in Key, subs'[l].mode = "replaying"
               PROVE  Replays(l, subs[l])'
    BY DEF ReplayInv
  <2>1. CASE l = k
    BY <1>4, <1>6, <2>1 DEF Replays, EventsIn, Ran, Rising
  <2>2. CASE l # k
    <3>1. subs'[l] = subs[l] /\ Replays(l, subs[l])
      BY <1>6, <2>2 DEF DeliveryInv, ReplayInv
    <3>2. ASSUME NEW i \in EventsIn(subs[l].buffer), Passed(i)
          PROVE  Passed(i)'
      <4>1. i \in Nat
        BY <1>3, <3>1 DEF Replays, For
      <4> QED
        BY <1>8, <3>2, <4>1, PassedLasts DEF TypeOK
    <3>3. /\ EventsIn(subs[l].buffer)' = EventsIn(subs[l].buffer) /\ For(l)' = For(l)
          /\ (Rising(subs[l].buffer)' <=> Rising(subs[l].buffer))
      BY <3>1 DEF EventsIn, Ran, Rising, For, Matches
    <3> QED
      BY <3>1, <3>2, <3>3 DEF Replays
  <2> QED
    BY <2>1, <2>2
<1>11. OneKeyInv'
  <2> SUFFICES ASSUME NEW l \in Key, keys = {l}
               PROVE  OneKey(l)'
    BY <1>1 DEF OneKeyInv
  <2>1. l = k /\ keys = {k} /\ OneKey(k)
    BY DEF DeliveryInv, OneKeyInv
  <2>2. subscribing' = {}
    <3>1. \A x \in subscribing : x[1] = k
      BY <2>1 DEF DeliveryInv, ConnInv
    <3> QED
      BY <3>1
  <2>3. OneKey(k)'
    BY <1>1, <1>2, <2>1, <2>2, TurnKeepsOneKey DEF DeliveryInv
  <2> QED
    BY <2>1, <2>3
<1>12. ShownInv'
  BY <1>1, <1>2, TurnKeepsShown DEF DeliveryInv
<1>13. LogInv'
  BY DEF DeliveryInv, LogInv
<1> QED
  BY <1>7, <1>9, <1>10, <1>11, <1>12, <1>13 DEF DeliveryInv

-----------------------------------------------------------------------------
(* The other steps.                                                         *)

\* Steps that send nothing: at most a subscription becomes deaf, the log is pruned,
\* and an approval is settled or handed from the user to the client.
LEMMA QuietKeeps ==
  ASSUME TypeOK, DeliveryInv, TypeOK',
         UNCHANGED <<events, down, subscribing, on, keys, cursor, seen>>,
         hubUp => hubUp', oldest <= oldest',
         \A k \in Key : subs'[k] \in {subs[k], [subs[k] EXCEPT !.hears = FALSE]},
         \A a \in Approval :
           /\ approval'[a] \in {"none", "asking"} => approval[a] \in {"none", "asking"}
           /\ approval'[a] = "pending" =>
                approval[a] = "pending" /\ (a \in shown \cup answers => a \in (shown \cup answers)')
  PROVE  DeliveryInv'
<1>1. ASSUME NEW k \in Key
      PROVE  /\ subs'[k].mode = subs[k].mode /\ subs'[k].last = subs[k].last
             /\ subs'[k].buffer = subs[k].buffer /\ subs'[k].ids = subs[k].ids
             /\ subs'[k].hears => subs[k].hears
             /\ subs'[k].hears \in BOOLEAN
  BY SubType
<1>2. Extended /\ oldest \in Nat /\ oldest' \in Nat
  BY DEF Extended, TypeOK
<1>3. Got' = Got /\ EventsIn(down)' = EventsIn(down) /\ Ran(down') = Ran(down)
  BY DEF Got, EventsIn, Ran
<1>4. LogInv'
  BY DEF DeliveryInv, LogInv
<1>5. ConnInv'
  <2>1. \A x \in subscribing : x[1] \in Key
    BY DEF TypeOK
  <2> QED
    BY <1>1, <1>3, <2>1 DEF DeliveryInv, ConnInv
<1>6. \A k \in Key : For(k)' = For(k) /\ For(k) \subseteq DOMAIN events
  BY DEF For, Matches
<1>7. ReplayInv'
  <2> SUFFICES ASSUME NEW k \in Key, subs[k].mode = "replaying"
               PROVE  Replays(k, subs[k])'
    BY <1>1 DEF ReplayInv
  <2>1. Replays(k, subs[k])
    BY DEF DeliveryInv, ReplayInv
  <2>2. ASSUME NEW i \in EventsIn(subs[k].buffer), Passed(i)
        PROVE  Passed(i)'
    <3>1. i \in Nat
      BY <1>6, <2>1, EventsType DEF Replays
    <3> QED
      BY <1>2, <1>3, <2>2, <3>1, PassedLasts
  <2>3. /\ EventsIn(subs[k].buffer)' = EventsIn(subs[k].buffer)
        /\ Rising(subs[k].buffer)' <=> Rising(subs[k].buffer)
    BY <1>1 DEF EventsIn, Ran, Rising
  <2> QED
    BY <1>1, <1>6, <2>1, <2>2, <2>3 DEF Replays
<1>8. OneKeyInv'
  <2> SUFFICES ASSUME NEW k \in Key, keys = {k}
               PROVE  OneKey(k)'
    BY DEF OneKeyInv
  <2>1. OneKey(k)
    BY DEF DeliveryInv, OneKeyInv
  <2>2. ASSUME NEW hi, Whole(k, hi)
        PROVE  Whole(k, hi)'
    <3>1. \A i \in For(k) : i >= oldest' => i >= oldest
      BY <1>2, <1>6, EventsType
    <3> QED
      BY <1>3, <1>6, <2>2, <3>1 DEF Whole
  <2>3. subs[k].mode = "replaying" => SentUpTo(k, subs[k].last)'
    <3>1. PICK last : last = subs[k].last
      OBVIOUS
    <3>2. Whole(k, last) => Whole(k, last)'
      BY <2>2
    <3> QED
      BY <1>1, <1>3, <2>1, <3>1, <3>2 DEF OneKey, SentUpTo, Whole
  <2>4. subs[k].mode = "live" /\ subs[k].hears => Whole(k, Len(events))'
    <3>1. PICK hi : hi = Len(events)
      OBVIOUS
    <3>2. Whole(k, hi) => Whole(k, hi)'
      BY <2>2
    <3> QED
      BY <2>1, <3>1, <3>2 DEF OneKey, Whole
  <2>5. \A j \in Got' : Whole(k, j)'
    BY <1>3, <2>1, <2>2 DEF OneKey
  <2>6. Rising(down)'
    BY <2>1 DEF OneKey, Rising
  <2> QED
    BY <1>1, <1>3, <1>6, <2>1, <2>3, <2>4, <2>5, <2>6 DEF OneKey
<1>9. ShownInv'
  <2>1. ASSUME NEW a \in Approval, approval'[a] \in {"none", "asking"}
        PROVE  Unheard(a)'
    <3>1. Unheard(a)
      BY <2>1 DEF DeliveryInv, ShownInv
    <3> QED
      BY <1>1, <3>1 DEF Unheard
  <2>2. ASSUME NEW a \in Approval, approval'[a] = "pending", NEW k \in Key
        PROVE  /\ ReplayShows(k, a, subs[k])'
               /\ subs'[k].mode = "live" /\ subs'[k].hears /\ Matches(k, SessionOf[a])
                    => Available(a)' \/ Overtaken(a)'
    <3>1. approval[a] = "pending" /\ (a \in shown \cup answers => a \in (shown \cup answers)')
      BY <2>2
    <3>2. Available(a) => Available(a)'
      BY <1>2, <1>3, <3>1, AvailableLasts DEF DeliveryInv, ConnInv
    <3>3. Overtaken(a) => Overtaken(a)'
      BY <1>2, <1>3, OvertakenLasts
    <3>4. ReplayShows(k, a, subs[k])
      BY <3>1 DEF DeliveryInv, ShownInv
    <3>5. Announces(subs[k].buffer, a) => Announces(subs[k].buffer, a)'
      BY <1>1 DEF Announces, EventsIn, Ran
    <3>6. ReplayShows(k, a, subs[k])'
      BY <1>1, <3>2, <3>4, <3>5 DEF ReplayShows, Matches
    <3> QED
      BY <1>1, <3>1, <3>2, <3>3, <3>6 DEF DeliveryInv, ShownInv, PendingIsShown
  <2>3. PendingIsShown'
    BY <2>2 DEF PendingIsShown, Matches
  <2> QED
    BY <2>1, <2>2, <2>3 DEF ShownInv
<1> QED
  BY <1>4, <1>5, <1>7, <1>8, <1>9 DEF DeliveryInv

\* The connection ends, with what is on the wire: the client has got all up to its
\* cursor.
LEMMA EndKeeps ==
  ASSUME TypeOK, DeliveryInv, TypeOK',
         UNCHANGED <<events, oldest, keys, cursor, seen>>,
         on' = FALSE, subs' = [k \in Key |-> NoSub], down' = <<>>, subscribing' = {},
         \A a \in Approval :
           approval'[a] \in {"none", "asking"} => approval[a] \in {"none", "asking"}
  PROVE  DeliveryInv'
<1>1. \A k \in Key : subs'[k].mode = "none" /\ ~subs'[k].hears /\ subs'[k].ids = {}
  BY DEF NoSub
<1>2. Ran(down') = {} /\ EventsIn(down)' = {} /\ Rising(down)'
  BY DEF Ran, EventsIn, Rising
<1>3. LogInv' /\ ReplayInv'
  BY <1>1 DEF DeliveryInv, LogInv, ReplayInv
<1>4. ConnInv'
  BY <1>1, <1>2 DEF DeliveryInv, ConnInv
<1>5. Got' = seen
  BY <1>2 DEF Got
<1>6. OneKeyInv'
  <2> SUFFICES ASSUME NEW k \in Key, keys = {k}
               PROVE  OneKey(k)'
    BY DEF OneKeyInv
  <2>1. OneKey(k)
    BY DEF DeliveryInv, OneKeyInv
  <2>2. /\ For(k)' = For(k) /\ For(k) \subseteq Nat /\ seen \subseteq Nat /\ cursor[k] \in Nat
        /\ EventsIn(down) \subseteq Nat
    BY EventsType, EventsAreNumbers DEF For, Matches, TypeOK
  <2>3. ASSUME NEW j \in seen
        PROVE  Whole(k, j)'
    <3> SUFFICES ASSUME NEW i \in For(k), i >= oldest, i <= j, NEW x \in seen, x < i
                 PROVE  i \in seen
      BY <1>5, <2>2 DEF Whole
    <3>1. i \in Got
      BY <2>1 DEF OneKey, Whole, Got
    <3>2. i <= cursor[k]
      <4>1. j <= cursor[k]
        BY <2>1 DEF OneKey
      <4> QED
        BY <2>2, <4>1
    <3>3. i \notin EventsIn(down)
      BY <2>1, <2>2, <3>2 DEF OneKey
    <3> QED
      BY <3>1, <3>3 DEF Got
  <2>4. seen \subseteq For(k)
    BY <2>1 DEF OneKey, Got
  <2> QED
    BY <1>1, <1>2, <1>5, <2>1, <2>2, <2>3, <2>4 DEF OneKey
<1>7. ShownInv'
  <2>1. ASSUME NEW a \in Approval, approval'[a] \in {"none", "asking"}
        PROVE  Unheard(a)'
    BY <1>1, <2>1 DEF DeliveryInv, ShownInv, Unheard
  <2> QED
    BY <1>1, <2>1 DEF ShownInv, ReplayShows, PendingIsShown
<1> QED
  BY <1>3, <1>4, <1>6, <1>7 DEF DeliveryInv

\* The client connects again and sends its subscriptions with its cursors.
LEMMA ConnectKeeps ==
  ASSUME TypeOK, DeliveryInv, Connect
  PROVE  TypeOK' /\ DeliveryInv'
<1>1. /\ hubUp /\ ~on /\ on' = TRUE /\ subscribing' = {<<k, cursor[k]>> : k \in keys}
      /\ UNCHANGED <<hubUp, events, oldest, approval, subs, stale, down, answers,
                     keys, cursor, seen, shown, faults>>
  BY DEF Connect, hub
<1>2. down = <<>> /\ \A k \in Key : subs[k].mode = "none"
  BY <1>1 DEF DeliveryInv, ConnInv
<1>3. keys \subseteq Key /\ \A k \in Key : cursor[k] \in Nat /\ cursor[k] <= Len(events)
  BY KeyType DEF TypeOK, DeliveryInv, ConnInv
<1>4. /\ subscribing' \subseteq Key \X Nat
      /\ \A x \in subscribing' : x[1] \in keys /\ x[2] = cursor[x[1]]
  BY <1>1, <1>3
<1>5. TypeOK'
  BY <1>1, <1>4 DEF TypeOK
<1>6. Got' = Got /\ EventsIn(down)' = {} /\ EventsIn(down) = {} /\ EventsIn(down') = {}
  BY <1>1, <1>2 DEF Got, EventsIn, Ran
<1>7. LogInv' /\ ReplayInv'
  BY <1>1, <1>2 DEF DeliveryInv, LogInv, ReplayInv
<1>8. ConnInv'
  <2>1. \A x \in subscribing' : /\ x[1] \in keys' /\ subs'[x[1]].mode = "none"
                               /\ x[2] <= Len(events')
    BY <1>1, <1>2, <1>3, <1>4
  <2> QED
    BY <1>1, <1>2, <1>6, <2>1 DEF DeliveryInv, ConnInv
<1>9. OneKeyInv'
  <2> SUFFICES ASSUME NEW k \in Key, keys = {k}
               PROVE  OneKey(k)'
    BY <1>1 DEF OneKeyInv
  <2>1. OneKey(k)
    BY DEF DeliveryInv, OneKeyInv
  <2>2. For(k)' = For(k) /\ \A hi : Whole(k, hi) => Whole(k, hi)'
    BY <1>1, <1>6 DEF For, Matches, Whole
  <2>3. \A x \in subscribing' : x[2] = cursor'[k]
    BY <1>1, <1>4
  <2>4. Rising(down)'
    BY <1>1, <1>2 DEF Rising
  <2>5. \A j \in Got' : Whole(k, j)'
    BY <1>6, <2>1, <2>2 DEF OneKey
  <2> QED
    BY <1>1, <1>2, <1>6, <2>1, <2>2, <2>3, <2>4, <2>5 DEF OneKey
<1>10. ShownInv'
  <2>1. ASSUME NEW a \in Approval, approval'[a] \in {"none", "asking"}
        PROVE  Unheard(a)'
    BY <1>1, <2>1 DEF DeliveryInv, ShownInv, Unheard
  <2>2. \A k \in Key : subs'[k].mode = "none" /\ subs'[k].ids = {}
    BY <1>1, <1>2 DEF DeliveryInv, ConnInv
  <2> QED
    BY <2>1, <2>2 DEF ShownInv, ReplayShows, PendingIsShown
<1> QED
  BY <1>5, <1>7, <1>8, <1>9, <1>10 DEF DeliveryInv

\* A frame arrives: what was on the wire has been got, and the cursor follows.
LEMMA ReceiveKeeps ==
  ASSUME TypeOK, DeliveryInv, Receive
  PROVE  TypeOK' /\ DeliveryInv'
<1>1. /\ down # <<>> /\ down' = Tail(down)
      /\ UNCHANGED <<hubUp, events, oldest, approval, subs, stale, subscribing, answers, on,
                     keys, faults>>
  BY DEF Receive, hub
<1>2. PICK f : f = Head(down)
  OBVIOUS
<1>3. /\ f \in Frame /\ down' \in Seq(Frame)
      /\ Ran(down) = {f} \cup Ran(down')
      /\ EventsIn(down) = ({f} \ Approval) \cup EventsIn(down')
      /\ Rising(down) =>
           /\ Rising(down')
           /\ f \notin Approval => \A y \in EventsIn(down') : f < y
  BY <1>1, <1>2, TailFrames, TailRises DEF TypeOK
<1>5. f \in Approval =>
        shown' = shown \cup {f} /\ UNCHANGED <<cursor, seen>>
  BY <1>2 DEF Receive
<1>6. f \notin Approval =>
        /\ cursor' = [k \in Key |-> IF k \in keys /\ Matches(k, events[f].session)
                                       /\ events[f].sequence > cursor[k]
                                      THEN events[f].sequence ELSE cursor[k]]
        /\ seen' = seen \cup {f} /\ shown' = shown \cup ({events[f].asks} \ {None})
  BY <1>2 DEF Receive
<1>7. f \notin Approval =>
        /\ f \in DOMAIN events /\ f \in Nat /\ events[f].sequence = f /\ f <= Len(events)
        /\ events[f].asks \in Approval \cup {None}
  <2> SUFFICES ASSUME f \notin Approval
               PROVE  /\ f \in DOMAIN events /\ f \in Nat /\ events[f].sequence = f
                      /\ f <= Len(events) /\ events[f].asks \in Approval \cup {None}
    OBVIOUS
  <2>1. f \in DOMAIN events
    BY <1>3 DEF DeliveryInv, ConnInv
  <2>2. events[f] \in Event /\ DOMAIN events = 1 .. Len(events) /\ Len(events) \in Nat
    BY <2>1, EventsType
  <2> QED
    BY <2>1, <2>2 DEF Event, DeliveryInv, LogInv
<1>8. /\ seen' \subseteq DOMAIN events /\ shown' \subseteq Approval
      /\ shown \subseteq shown' /\ seen' = seen \cup ({f} \ Approval)
  <2>1. CASE f \in Approval
    BY <1>5, <2>1 DEF TypeOK
  <2>2. CASE f \notin Approval
    BY <1>6, <1>7, <2>2 DEF TypeOK
  <2> QED
    BY <2>1, <2>2
<1>9. cursor' \in [Key -> Nat] /\ \A k \in Key : cursor'[k] <= Len(events)
  <2>1. CASE f \in Approval
    BY <1>5, <2>1 DEF TypeOK, DeliveryInv, ConnInv
  <2>2. CASE f \notin Approval
    <3>1. \A k \in Key : cursor[k] \in Nat /\ cursor[k] <= Len(events)
      BY DEF TypeOK, DeliveryInv, ConnInv
    <3>2. \A k \in Key : cursor'[k] \in {f, cursor[k]}
      BY <1>6, <1>7, <2>2
    <3> QED
      BY <1>6, <1>7, <2>2, <3>1, <3>2
  <2> QED
    BY <2>1, <2>2
<1>10. TypeOK'
  BY <1>1, <1>3, <1>8, <1>9 DEF TypeOK
<1>11. EventsIn(down)' = EventsIn(down') /\ Ran(down)' = Ran(down')
  BY DEF EventsIn, Ran
<1>12. Got' = Got
  BY <1>3, <1>8, <1>11 DEF Got
<1>13. LogInv'
  BY <1>1 DEF DeliveryInv, LogInv
<1>14. \A i : Passed(i)' <=> Passed(i)
  BY <1>1, <1>12 DEF Passed
<1>15. ConnInv'
  <2>1. on
    BY <1>1 DEF DeliveryInv, ConnInv
  <2> QED
    BY <1>1, <1>3, <1>9, <1>11, <2>1 DEF DeliveryInv, ConnInv
<1>16. ReplayInv'
  <2> SUFFICES ASSUME NEW k \in Key, subs[k].mode = "replaying"
               PROVE  Replays(k, subs[k])'
    BY <1>1 DEF ReplayInv
  <2>1. Replays(k, subs[k])
    BY DEF DeliveryInv, ReplayInv
  <2>2. /\ EventsIn(subs[k].buffer)' = EventsIn(subs[k].buffer) /\ For(k)' = For(k)
        /\ Rising(subs[k].buffer)' <=> Rising(subs[k].buffer)
    BY <1>1 DEF EventsIn, Ran, Rising, For, Matches
  <2> QED
    BY <1>1, <1>14, <2>1, <2>2 DEF Replays
<1>17. OneKeyInv'
  <2> SUFFICES ASSUME NEW k \in Key, keys = {k}
               PROVE  OneKey(k)'
    BY <1>1 DEF OneKeyInv
  <2>1. OneKey(k)
    BY DEF DeliveryInv, OneKeyInv
  <2>2. For(k)' = For(k) /\ \A hi : Whole(k, hi) => Whole(k, hi)'
    BY <1>1, <1>12 DEF For, Matches, Whole
  <2>3. /\ cursor'[k] \in seen' \cup {0} /\ \A x \in seen' : x <= cursor'[k]
        /\ \A y \in EventsIn(down') : y > cursor'[k]
    <3>1. CASE f \in Approval
      BY <1>3, <1>5, <2>1, <3>1 DEF OneKey
    <3>2. CASE f \notin Approval
      <4>1. f \in EventsIn(down) /\ f > cursor[k] /\ cursor[k] \in Nat
        BY <1>3, <2>1, <3>2 DEF OneKey, TypeOK
      <4>2. Matches(k, events[f].session)
        BY <2>1, <4>1 DEF OneKey, Got, For
      <4>3. cursor'[k] = f
        BY <1>6, <1>7, <3>2, <4>1, <4>2
      <4>4. seen \subseteq Nat
        BY EventsType DEF TypeOK
      <4>5. \A x \in seen : x <= f
        BY <1>7, <2>1, <3>2, <4>1, <4>4 DEF OneKey
      <4>6. EventsIn(down') \subseteq Nat
        BY <1>3, EventsAreNumbers
      <4>7. \A y \in EventsIn(down') : y > f
        BY <1>3, <1>7, <2>1, <3>2, <4>6 DEF OneKey
      <4> QED
        BY <1>6, <1>7, <3>2, <4>3, <4>5, <4>7
    <3> QED
      BY <3>1, <3>2
  <2>4. Rising(down)'
    BY <1>3, <2>1 DEF OneKey, Rising
  <2>5. subscribing' # {} => EventsIn(down') = {} /\ cursor' = cursor
    BY <1>1, <1>3, <1>5, <2>1 DEF OneKey
  <2>6. subs[k].mode = "replaying" => SentUpTo(k, subs[k].last)'
    <3>1. PICK last : last = subs[k].last
      OBVIOUS
    <3> QED
      BY <1>1, <1>12, <2>1, <2>2, <3>1 DEF OneKey, SentUpTo, Whole
  <2>7. subs[k].mode = "live" /\ subs[k].hears => Whole(k, Len(events))'
    BY <1>1, <1>12, <2>1, <2>2 DEF OneKey, Whole
  <2>8. \A j \in Got' : Whole(k, j)'
    BY <1>12, <2>1, <2>2 DEF OneKey
  <2> QED
    BY <1>1, <1>11, <1>12, <2>1, <2>2, <2>3, <2>4, <2>5, <2>6, <2>7, <2>8 DEF OneKey
<1>18. ShownInv'
  <2>1. \A a \in Approval : Available(a) => Available(a)'
    <3> SUFFICES ASSUME NEW a \in Approval, Available(a)
                 PROVE  Available(a)'
      OBVIOUS
    <3>1. CASE a \in shown \cup answers
      BY <1>1, <1>8, <3>1, AvailableIs
    <3>2. CASE a = f
      BY <1>5, <3>2, AvailableIs
    <3>3. CASE a \in Ran(down')
      BY <1>11, <3>3, AvailableIs DEF Announces
    <3>4. ASSUME NEW i \in EventsIn(down), events[i].asks = a
          PROVE  Available(a)'
      <4>1. CASE i = f
        <5>1. f \notin Approval
          BY <3>4, <4>1 DEF EventsIn
        <5>2. a \in shown'
          BY <1>6, <3>4, <4>1, <5>1, NameAssumption
        <5> QED
          BY <5>2, AvailableIs
      <4>2. CASE i # f
        BY <1>1, <1>3, <1>11, <3>4, <4>2, AvailableIs DEF Announces
      <4> QED
        BY <4>1, <4>2
    <3>5. a \in shown \cup answers \/ a \in Ran(down) \/ \E i \in EventsIn(down) : events[i].asks = a
      BY AvailableIs DEF Announces
    <3> QED
      BY <1>3, <3>1, <3>2, <3>3, <3>4, <3>5
  <2>2. \A a \in Approval : Overtaken(a) => Overtaken(a)'
    BY <1>1, <1>14, OvertakenIs
  <2>3. ASSUME NEW a \in Approval, approval[a] \in {"none", "asking"}
        PROVE  Unheard(a)'
    BY <1>1, <2>3 DEF DeliveryInv, ShownInv, Unheard
  <2>4. ASSUME NEW a \in Approval, approval[a] = "pending", NEW k \in Key
        PROVE  ReplayShows(k, a, subs[k])'
    <3>1. ReplayShows(k, a, subs[k])
      BY <2>4 DEF DeliveryInv, ShownInv
    <3>2. Announces(subs[k].buffer, a) => Announces(subs[k].buffer, a)'
      BY <1>1 DEF Announces, EventsIn, Ran
    <3> QED
      BY <1>1, <2>1, <3>1, <3>2 DEF ReplayShows, Matches
  <2>5. PendingIsShown'
    BY <1>1, <2>1, <2>2 DEF DeliveryInv, ShownInv, PendingIsShown, Matches
  <2> QED
    BY <1>1, <2>3, <2>4, <2>5 DEF ShownInv
<1> QED
  BY <1>10, <1>13, <1>15, <1>16, <1>17, <1>18 DEF DeliveryInv

LEMMA SubscribeKeeps ==
  ASSUME TypeOK, DeliveryInv, NEW k \in Key, NEW since \in Nat, Subscribe(k, since)
  PROVE  TypeOK' /\ DeliveryInv'
<1>1. /\ hubUp /\ <<k, since>> \in subscribing /\ subscribing' = subscribing \ {<<k, since>>}
      /\ UNCHANGED <<hubUp, events, oldest, approval, stale, answers, client, faults>>
  BY DEF Subscribe
<1>2. UNCHANGED <<on, keys, cursor, seen, shown>>
  BY <1>1 DEF client
<1>3. k \in keys /\ subs[k].mode = "none" /\ since <= Len(events) /\ on
  BY <1>1 DEF DeliveryInv, ConnInv
<1>4. \A x \in subscribing' : x[1] # k
  BY <1>1 DEF DeliveryInv, ConnInv
<1>5. /\ Issued(k) \in Seq(Frame) /\ Ran(Issued(k)) = Pending(k)
      /\ EventsIn(Issued(k)) = {} /\ Rising(Issued(k))
  BY IssuedFrames
<1>6. keys = {k} => OneKey(k) /\ since = cursor[k] /\ EventsIn(down) = {}
  BY <1>1 DEF DeliveryInv, OneKeyInv, OneKey
<1>7. CASE since # 0
  <2> DEFINE sub == [NoSub EXCEPT !.mode = "replaying", !.hears = TRUE, !.last = since,
                                  !.buffer = Issued(k)]
  <2>1. Turn(k, sub)
    BY <1>7 DEF Subscribe
  <2>2. /\ sub \in SubRecord /\ sub.mode = "replaying" /\ sub.hears /\ sub.last = since
        /\ sub.buffer = Issued(k) /\ sub.ids = {}
    BY <1>5 DEF NoSub, SubRecord
  <2> HIDE DEF sub
  <2>3. Replays(k, sub)
    BY <1>3, <1>5, <2>2 DEF Replays
  <2>4. keys = {k} => SentUpTo(k, sub.last)
    <3> SUFFICES ASSUME keys = {k}
                 PROVE  SentUpTo(k, since)
      BY <2>2
    <3>1. Got = seen /\ since \in seen
      BY <1>6, <1>7 DEF Got, OneKey
    <3> QED
      BY <1>6, <3>1 DEF OneKey, SentUpTo
  <2>5. ASSUME NEW a \in Approval
        PROVE  /\ approval[a] = "pending" => ReplayShows(k, a, sub)
               /\ a \notin sub.ids
    BY <1>5, <2>2 DEF ReplayShows, Announces, Pending
  <2> QED
    BY <1>1, <1>3, <1>4, <2>1, <2>2, <2>3, <2>4, <2>5, TurnKeeps
<1>8. CASE since = 0
  <2> DEFINE sub == [NoSub EXCEPT !.mode = "live", !.hears = TRUE]
  <2>1. down' = down \o Issued(k) /\ subs' = [subs EXCEPT ![k] = sub]
    BY <1>8 DEF Subscribe
  <2>2. sub \in SubRecord /\ sub.mode = "live" /\ sub.hears /\ sub.ids = {}
    BY EmptySeq DEF NoSub, SubRecord
  <2> HIDE DEF sub
  <2>3. down \in Seq(Frame) /\ subs \in [Key -> SubRecord]
    BY DEF TypeOK, SubRecord
  <2>4. /\ down' \in Seq(Frame) /\ Ran(down') = Ran(down) \cup Pending(k)
        /\ EventsIn(down') = EventsIn(down)
    <3>1. /\ (down \o Issued(k)) \in Seq(Frame)
          /\ Ran(down \o Issued(k)) = Ran(down) \cup Ran(Issued(k))
          /\ EventsIn(down \o Issued(k)) = EventsIn(down) \cup EventsIn(Issued(k))
      BY <1>5, <2>3, ConcatFrames
    <3>2. PICK q : q = down'
      OBVIOUS
    <3>3. q = down \o Issued(k)
      BY <2>1, <3>2
    <3>4. /\ q \in Seq(Frame) /\ Ran(q) = Ran(down) \cup Pending(k)
          /\ EventsIn(q) = EventsIn(down)
      BY <1>5, <3>1, <3>3
    <3> QED
      BY <3>2, <3>4
  <2>5. Rising(down) => Rising(down')
    BY <1>5, <2>1, <2>3, ConcatRises
  <2>6. subs' \in [Key -> SubRecord] /\ subs'[k] = sub /\ \A l \in Key \ {k} : subs'[l] = subs[l]
    BY <2>1, <2>2, <2>3
  <2>7. TypeOK'
    BY <1>1, <1>2, <2>4, <2>6 DEF TypeOK, SubRecord
  <2>8. EventsIn(down)' = EventsIn(down') /\ Ran(down)' = Ran(down') /\ (Rising(down)' <=> Rising(down'))
    BY DEF EventsIn, Ran, Rising
  <2>9. Got' = Got
    BY <1>2, <2>4, <2>8 DEF Got
  <2>10. LogInv'
    BY <1>1 DEF DeliveryInv, LogInv
  <2>11. ConnInv'
    <3>1. \A x \in subscribing' : /\ x[1] \in keys' /\ subs'[x[1]].mode = "none"
                                 /\ x[2] <= Len(events')
      <4> TAKE x \in subscribing'
      <4>1. x \in subscribing /\ x[1] \in Key \ {k}
        BY <1>1, <1>4 DEF TypeOK
      <4> QED
        BY <1>1, <1>2, <2>6, <4>1 DEF DeliveryInv, ConnInv
    <3>2. \A l \in Key : /\ subs'[l].mode = "none" => ~subs'[l].hears /\ subs'[l].ids = {}
                         /\ l \notin keys' => subs'[l].mode = "none"
                         /\ cursor'[l] <= Len(events')
      <4> TAKE l \in Key
      <4>1. CASE l = k
        BY <1>1, <1>2, <1>3, <2>2, <2>6, <4>1 DEF DeliveryInv, ConnInv
      <4>2. CASE l # k
        BY <1>1, <1>2, <2>6, <4>2 DEF DeliveryInv, ConnInv
      <4> QED
        BY <4>1, <4>2
    <3>3. \A x, y \in subscribing' : x[1] = y[1] => x = y
      BY <1>1 DEF DeliveryInv, ConnInv
    <3> QED
      BY <1>1, <1>2, <1>3, <2>4, <2>8, <3>1, <3>2, <3>3 DEF DeliveryInv, ConnInv
  <2>12. \A i : Passed(i)' <=> Passed(i)
    BY <1>1, <2>9 DEF Passed
  <2>13. ReplayInv'
    <3> SUFFICES ASSUME NEW l \in Key, subs'[l].mode = "replaying"
                 PROVE  Replays(l, subs[l])'
      BY DEF ReplayInv
    <3>1. l # k
      BY <2>2, <2>6
    <3>2. subs'[l] = subs[l] /\ Replays(l, subs[l])
      BY <2>6, <3>1 DEF DeliveryInv, ReplayInv
    <3>3. /\ EventsIn(subs[l].buffer)' = EventsIn(subs[l].buffer) /\ For(l)' = For(l)
          /\ Rising(subs[l].buffer)' <=> Rising(subs[l].buffer)
      BY <1>1, <3>2 DEF EventsIn, Ran, Rising, For, Matches
    <3> QED
      BY <1>1, <2>12, <3>2, <3>3 DEF Replays
  <2>14. OneKeyInv'
    <3> SUFFICES ASSUME NEW l \in Key, keys = {l}
                 PROVE  OneKey(l)'
      BY <1>2 DEF OneKeyInv
    <3>1. l = k /\ keys = {k} /\ OneKey(k)
      BY <1>3 DEF DeliveryInv, OneKeyInv
    <3>2. seen = {}
      <4>1. \A x \in seen : x \in Nat \ {0} /\ x <= 0
        BY <1>6, <1>8, <3>1, EventsType DEF OneKey, TypeOK
      <4> QED
        BY <4>1
    <3>3. Got = {}
      BY <1>6, <3>1, <3>2 DEF Got
    <3>4. subscribing' = {}
      <4>1. \A x \in subscribing : x[1] = k
        BY <3>1 DEF DeliveryInv, ConnInv
      <4> QED
        BY <1>1, <1>4, <4>1
    <3>5. \A hi : Whole(k, hi)'
      BY <2>9, <3>3 DEF Whole
    <3>6. Whole(k, Len(events))'
      BY <2>9, <3>3 DEF Whole
    <3> QED
      BY <1>2, <1>6, <2>2, <2>4, <2>5, <2>6, <2>8, <2>9, <3>1, <3>2, <3>3, <3>4, <3>5, <3>6
      DEF OneKey
  <2>15. ShownInv'
    <3>1. Extended
      BY <1>1 DEF Extended
    <3>2. \A a \in Approval : Available(a) => Available(a)'
      BY <1>1, <1>2, <2>4, <3>1, AvailableLasts DEF DeliveryInv, ConnInv
    <3>3. \A a \in Approval : Overtaken(a) => Overtaken(a)'
      BY <1>1, <2>12, OvertakenIs
    <3>4. \A a \in Pending(k) : Available(a)'
      <4> TAKE a \in Pending(k)
      <4>1. a \in Approval /\ Announces(down, a)'
        BY <2>4, <2>8 DEF Announces, Pending
      <4> QED
        BY <4>1, AvailableIs
    <3>5. ASSUME NEW a \in Approval, approval[a] \in {"none", "asking"}
          PROVE  Unheard(a)'
      <4>1. Unheard(a)
        BY <3>5 DEF DeliveryInv, ShownInv
      <4>2. \A l \in Key : a \notin subs'[l].ids
        BY <2>2, <2>6, <4>1 DEF Unheard
      <4> QED
        BY <1>1, <4>1, <4>2 DEF Unheard
    <3>6. ASSUME NEW a \in Approval, approval[a] = "pending", NEW l \in Key
          PROVE  /\ ReplayShows(l, a, subs[l])'
                 /\ subs'[l].mode = "live" /\ subs'[l].hears /\ Matches(l, SessionOf[a])
                      => Available(a)' \/ Overtaken(a)'
      <4>1. CASE l = k
        BY <2>2, <2>6, <3>4, <3>6, <4>1 DEF ReplayShows, Pending
      <4>2. CASE l # k
        <5>1. subs'[l] = subs[l] /\ ReplayShows(l, a, subs[l])
          BY <2>6, <3>6, <4>2 DEF DeliveryInv, ShownInv
        <5>2. Announces(subs[l].buffer, a) => Announces(subs[l].buffer, a)'
          BY <1>1, <5>1 DEF Announces, EventsIn, Ran
        <5>3. ReplayShows(l, a, subs[l])'
          BY <3>2, <5>1, <5>2 DEF ReplayShows, Matches
        <5> QED
          BY <3>2, <3>3, <3>6, <5>1, <5>3 DEF DeliveryInv, ShownInv, PendingIsShown
      <4> QED
        BY <4>1, <4>2
    <3>7. PendingIsShown'
      BY <1>1, <3>6 DEF PendingIsShown, Matches
    <3> QED
      BY <1>1, <3>5, <3>6, <3>7 DEF ShownInv
  <2> QED
    BY <2>7, <2>10, <2>11, <2>13, <2>14, <2>15 DEF DeliveryInv
<1> QED
  BY <1>7, <1>8

\* The log is empty and nothing has been sent when the hub is first started.
LEMMA DeliveryInit == Init => TypeOK /\ DeliveryInv
<1> SUFFICES ASSUME Init PROVE TypeOK /\ DeliveryInv
  OBVIOUS
<1>1. /\ hubUp = TRUE /\ events = <<>> /\ oldest = 1 /\ stale = 0
      /\ approval = [a \in Approval |-> "none"] /\ subs = [k \in Key |-> NoSub]
      /\ down = <<>> /\ subscribing = {} /\ answers = {}
      /\ on = FALSE /\ keys \in KeySets /\ cursor = [k \in Key |-> 0]
      /\ seen = {} /\ shown = {} /\ faults = 0
  BY DEF Init
<1>2. NoSub \in SubRecord /\ NoSub.mode = "none" /\ ~NoSub.hears /\ NoSub.ids = {}
  BY EmptySeq DEF NoSub, SubRecord
<1>3. \A k \in Key : subs[k] = NoSub /\ cursor[k] = 0
  BY <1>1
<1>4. DOMAIN events = {} /\ Len(events) = 0
  BY <1>1, EmptySeq
<1>5. Ran(down) = {} /\ EventsIn(down) = {} /\ Rising(down) /\ Got = {}
  BY <1>1 DEF Ran, EventsIn, Rising, Got
<1>6. TypeOK
  <2>1. MaxFaults[keys] \in Nat
    BY <1>1, BoundAssumption
  <2>2. events \in Seq(Event) /\ down \in Seq(Frame)
    BY <1>1, EmptySeq
  <2>3. subs \in [Key -> SubRecord]
    BY <1>1, <1>2
  <2>4. approval \in [Approval -> {"none", "asking", "pending", "answered", "cancelled", "gone"}]
    BY <1>1
  <2>5. cursor \in [Key -> Nat] /\ faults \in 0 .. MaxFaults[keys]
    BY <1>1, <2>1
  <2>6. /\ subscribing \subseteq Key \X Nat /\ answers \subseteq Approval
        /\ seen \subseteq DOMAIN events /\ shown \subseteq Approval
    BY <1>1
  <2>7. oldest \in Nat \ {0} /\ stale \in Nat
    BY <1>1
  <2>8. hubUp \in BOOLEAN /\ on \in BOOLEAN /\ keys \in KeySets
    BY <1>1, Zenon
  <2> QED
    BY <2>2, <2>3, <2>4, <2>5, <2>6, <2>7, <2>8 DEF TypeOK, SubRecord
<1>7. LogInv /\ ReplayInv
  BY <1>2, <1>3, <1>4 DEF LogInv, ReplayInv
<1>8. ConnInv
  BY <1>1, <1>2, <1>3, <1>4, <1>5 DEF ConnInv
<1>9. OneKeyInv
  BY <1>1, <1>2, <1>3, <1>5 DEF OneKeyInv, OneKey
<1>10. ShownInv
  <2>1. \A a \in Approval : Unheard(a) /\ approval[a] = "none"
    BY <1>1, <1>2, <1>3, <1>4 DEF Unheard
  <2> QED
    BY <2>1 DEF ShownInv, PendingIsShown
<1> QED
  BY <1>6, <1>7, <1>8, <1>9, <1>10 DEF DeliveryInv

\* An approval is asked for, registered, answered or cancelled.
LEMMA ApprovalStepKeeps ==
  ASSUME TypeOK, DeliveryInv, NEW a \in Approval,
         Ask(a) \/ Register(a) \/ Respond(a) \/ Cancel(a) \/ Answer(a)
  PROVE  TypeOK' /\ DeliveryInv'
<1>1. SessionOf[a] \in Session /\ None \notin Approval
  BY ApprovalAssumption, NameAssumption
<1>2. CASE Ask(a)
  <2>1. TypeOK'
    BY <1>2 DEF Ask, TypeOK, wire, client
  <2>2. UNCHANGED <<events, oldest, hubUp, subs, down, subscribing, answers, on, keys, cursor,
                    seen, shown>>
    BY <1>2 DEF Ask, wire, client
  <2>3. \A b \in Approval : (approval'[b] # approval[b] => approval[b] = "none" /\ approval'[b] = "asking")
    BY <1>2 DEF Ask, TypeOK
  <2>4. oldest <= oldest'
    BY <2>2 DEF TypeOK
  <2> QED
    BY <2>1, <2>2, <2>3, <2>4, QuietKeeps
<1>3. CASE Register(a)
  <2>1. /\ hubUp /\ approval[a] = "asking" /\ Publish(SessionOf[a], a)
        /\ approval' = [approval EXCEPT ![a] = "pending"]
        /\ UNCHANGED <<hubUp, oldest, stale, subscribing, answers, client, faults>>
    BY <1>3 DEF Register
  <2>2. /\ approval' \in [Approval -> {"none", "asking", "pending", "answered", "cancelled", "gone"}]
        /\ approval'[a] = "pending" /\ \A b \in Approval \ {a} : approval'[b] = approval[b]
        /\ answers' = answers /\ answers' \subseteq Approval
    BY <2>1 DEF TypeOK
  <2> QED
    BY <1>1, <2>1, <2>2, PublishKeeps
<1>4. CASE Respond(a)
  <2>1. /\ on /\ a \in answers /\ answers' = answers \ {a}
        /\ UNCHANGED <<hubUp, oldest, stale, subscribing, client, faults>>
    BY <1>4 DEF Respond
  <2>2. hubUp
    BY <2>1 DEF DeliveryInv, ConnInv
  <2>3. CASE approval[a] = "pending"
    <3>1. approval' = [approval EXCEPT ![a] = "answered"] /\ Publish(SessionOf[a], None)
      BY <1>4, <2>3 DEF Respond
    <3>2. /\ approval' \in [Approval -> {"none", "asking", "pending", "answered", "cancelled", "gone"}]
          /\ approval'[a] = "answered" /\ \A b \in Approval \ {a} : approval'[b] = approval[b]
          /\ answers' \subseteq Approval
      BY <2>1, <3>1 DEF TypeOK
    <3>3. \A b \in Approval \ {None} :
            /\ approval'[b] \in {"none", "asking"} => approval[b] \in {"none", "asking"}
            /\ approval'[b] = "pending" => approval[b] = "pending" /\ (b \in answers => b \in answers')
      BY <2>1, <3>2
    <3> QED
      BY <1>1, <2>1, <2>2, <3>1, <3>2, <3>3, PublishKeeps
  <2>4. CASE approval[a] # "pending"
    <3>1. UNCHANGED <<approval, events, subs, down, on, keys, cursor, seen, shown>>
      BY <1>4, <2>1, <2>4 DEF Respond, client
    <3>2. TypeOK'
      BY <2>1, <3>1 DEF TypeOK, client
    <3>3. oldest <= oldest'
      BY <2>1 DEF TypeOK
    <3> QED
      BY <2>1, <2>4, <3>1, <3>2, <3>3, QuietKeeps
  <2> QED
    BY <2>3, <2>4
<1>5. CASE Cancel(a)
  <2>1. /\ hubUp /\ approval[a] = "pending" /\ Publish(SessionOf[a], None)
        /\ approval' = [approval EXCEPT ![a] = "cancelled"]
        /\ UNCHANGED <<hubUp, oldest, stale, subscribing, answers, client, faults>>
    BY <1>5 DEF Cancel
  <2>2. /\ approval' \in [Approval -> {"none", "asking", "pending", "answered", "cancelled", "gone"}]
        /\ approval'[a] = "cancelled" /\ \A b \in Approval \ {a} : approval'[b] = approval[b]
        /\ answers' = answers /\ answers' \subseteq Approval
    BY <2>1 DEF TypeOK
  <2>3. \A b \in Approval \ {None} :
          /\ approval'[b] \in {"none", "asking"} => approval[b] \in {"none", "asking"}
          /\ approval'[b] = "pending" => approval[b] = "pending" /\ (b \in answers => b \in answers')
    BY <2>2
  <2> QED
    BY <1>1, <2>1, <2>2, <2>3, PublishKeeps
<1>6. CASE Answer(a)
  <2>1. /\ shown' = shown \ {a} /\ answers' = answers \cup {a}
        /\ UNCHANGED <<hubUp, events, oldest, approval, subs, stale, down, subscribing, on, keys,
                       cursor, seen, faults>>
    BY <1>6 DEF Answer, hub
  <2>2. TypeOK'
    BY <2>1 DEF TypeOK
  <2>3. oldest <= oldest' /\ (shown \cup answers) \subseteq (shown \cup answers)'
    BY <2>1 DEF TypeOK
  <2> QED
    BY <2>1, <2>2, <2>3, QuietKeeps
<1> QED
  BY <1>2, <1>3, <1>4, <1>5, <1>6

\* The log is pruned, a close is noticed, or the hub starts: nothing is sent.
LEMMA HubStepKeeps ==
  ASSUME TypeOK, DeliveryInv, Prune \/ NoticeClose \/ HubStarts
  PROVE  TypeOK' /\ DeliveryInv'
<1>1. UNCHANGED <<events, approval, down, subscribing, answers, on, keys, cursor, seen, shown>>
  BY DEF Prune, NoticeClose, HubStarts, wire, client
<1>2. hubUp => hubUp'
  BY DEF Prune, NoticeClose, HubStarts
<1>3. oldest <= oldest' /\ oldest' \in Nat \ {0}
  BY DEF Prune, NoticeClose, HubStarts, TypeOK
<1>4. /\ subs' \in [Key -> SubRecord]
      /\ \A k \in Key : subs'[k] \in {subs[k], [subs[k] EXCEPT !.hears = FALSE]}
  <2>1. subs \in [Key -> SubRecord]
    BY DEF TypeOK, SubRecord
  <2>2. CASE NoticeClose
    <3>1. subs' = [k \in Key |-> [subs[k] EXCEPT !.hears = FALSE]]
      BY <2>2 DEF NoticeClose
    <3>2. \A k \in Key : [subs[k] EXCEPT !.hears = FALSE] \in SubRecord
      BY <2>1 DEF SubRecord
    <3> QED
      BY <3>1, <3>2
  <2>3. CASE Prune \/ HubStarts
    BY <2>1, <2>3 DEF Prune, HubStarts
  <2> QED
    BY <2>2, <2>3
<1>5. stale' \in Nat
  BY DEF Prune, NoticeClose, HubStarts, TypeOK
<1>6. faults' \in 0 .. MaxFaults[keys] /\ hubUp' \in BOOLEAN
  <2>1. MaxFaults[keys] \in Nat
    BY BoundAssumption DEF TypeOK
  <2>2. faults \in Nat /\ faults <= MaxFaults[keys]
    BY <2>1 DEF TypeOK
  <2>3. faults' # faults => faults < MaxFaults[keys] /\ faults' = faults + 1
    BY DEF Prune, NoticeClose, HubStarts
  <2>4. faults' \in Nat /\ faults' <= MaxFaults[keys]
    BY <2>1, <2>2, <2>3
  <2>5. faults' \in 0 .. MaxFaults[keys]
    BY <2>1, <2>4
  <2> QED
    BY <2>5 DEF Prune, NoticeClose, HubStarts, TypeOK
<1>7. TypeOK'
  BY <1>1, <1>3, <1>4, <1>5, <1>6 DEF TypeOK, SubRecord
<1> QED
  BY <1>1, <1>2, <1>3, <1>4, <1>7, QuietKeeps

\* The connection drops, or the hub ends.
LEMMA LossKeeps ==
  ASSUME TypeOK, DeliveryInv, Drop \/ HubEnds
  PROVE  TypeOK' /\ DeliveryInv'
<1>1. /\ UNCHANGED <<events, oldest, keys, cursor, seen, shown>>
      /\ on' = FALSE /\ subs' = [k \in Key |-> NoSub] /\ down' = <<>> /\ subscribing' = {}
      /\ answers' \in {answers, {}}
  BY DEF Drop, HubEnds
<1>2. /\ approval' \in [Approval -> {"none", "asking", "pending", "answered", "cancelled", "gone"}]
      /\ \A a \in Approval : approval'[a] \in {"none", "asking"} => approval[a] \in {"none", "asking"}
  <2>1. CASE Drop
    BY <2>1 DEF Drop, TypeOK
  <2>2. CASE HubEnds
    <3>1. approval' = [a \in Approval |->
                         IF approval[a] \in {"asking", "pending"} THEN "gone" ELSE approval[a]]
      BY <2>2 DEF HubEnds
    <3> QED
      BY <3>1 DEF TypeOK
  <2> QED
    BY <2>1, <2>2
<1>3. faults' \in 0 .. MaxFaults[keys] /\ hubUp' \in BOOLEAN /\ stale' \in Nat
  <2>1. MaxFaults[keys] \in Nat
    BY BoundAssumption DEF TypeOK
  <2>2. faults \in Nat /\ faults <= MaxFaults[keys]
    BY <2>1 DEF TypeOK
  <2>3. faults' # faults => faults < MaxFaults[keys] /\ faults' = faults + 1
    BY DEF Drop, HubEnds
  <2>4. faults' \in Nat /\ faults' <= MaxFaults[keys]
    BY <2>1, <2>2, <2>3
  <2>5. faults' \in 0 .. MaxFaults[keys]
    BY <2>1, <2>4
  <2>6. hubUp' \in BOOLEAN
    BY DEF Drop, HubEnds, TypeOK
  <2>7. stale' \in Nat
    BY DEF Drop, HubEnds, TypeOK
  <2> QED
    BY <2>5, <2>6, <2>7
<1>4. TypeOK'
  <2>1. NoSub \in SubRecord /\ down' \in Seq(Frame)
    BY <1>1, EmptySeq DEF NoSub, SubRecord
  <2>2. subs' \in [Key -> SubRecord]
    BY <1>1, <2>1
  <2> QED
    BY <1>1, <1>2, <1>3, <2>1, <2>2 DEF TypeOK, SubRecord
<1> QED
  BY <1>1, <1>2, <1>4, EndKeeps

\* A turn of a replay that goes on.
LEMMA ReplayKeeps ==
  ASSUME TypeOK, DeliveryInv, NEW k \in Key, Replay(k)
  PROVE  TypeOK' /\ DeliveryInv'
<1>1. /\ hubUp /\ subs[k].mode = "replaying" /\ Turn(k, subs[k])
      /\ UNCHANGED <<hubUp, events, oldest, approval, stale, subscribing, answers, client, faults>>
  BY DEF Replay
<1>2. on /\ k \in keys
  BY <1>1 DEF DeliveryInv, ConnInv
<1>3. subs[k] \in SubRecord
  BY DEF TypeOK, SubRecord
<1>4. Replays(k, subs[k])
  BY <1>1 DEF DeliveryInv, ReplayInv
<1>5. keys = {k} => SentUpTo(k, subs[k].last)
  BY <1>1 DEF DeliveryInv, OneKeyInv, OneKey
<1>6. \A a \in Approval : /\ approval[a] = "pending" => ReplayShows(k, a, subs[k])
                          /\ approval[a] \in {"none", "asking"} => a \notin subs[k].ids
  BY DEF DeliveryInv, ShownInv, Unheard
<1>7. subscribing' \subseteq subscribing /\ \A x \in subscribing' : x[1] # k
  BY <1>1 DEF DeliveryInv, ConnInv
<1> QED
  BY <1>1, <1>2, <1>3, <1>4, <1>5, <1>6, <1>7, TurnKeeps

\* Every step keeps the types and the invariant of the delivery.
LEMMA DeliveryStep == TypeOK /\ DeliveryInv /\ [Next]_vars => TypeOK' /\ DeliveryInv'
<1> SUFFICES ASSUME TypeOK, DeliveryInv, [Next]_vars PROVE TypeOK' /\ DeliveryInv'
  OBVIOUS
<1>1. ASSUME NEW s \in Session, Emit(s) PROVE TypeOK' /\ DeliveryInv'
  <2>1. /\ hubUp /\ Publish(s, None)
        /\ UNCHANGED <<hubUp, oldest, approval, stale, subscribing, answers, client, faults>>
    BY <1>1 DEF Emit
  <2>2. /\ approval' \in [Approval -> {"none", "asking", "pending", "answered", "cancelled", "gone"}]
        /\ answers' \subseteq Approval /\ None \notin Approval
    BY <2>1, NameAssumption DEF TypeOK
  <2> QED
    BY <2>1, <2>2, PublishKeeps
<1>2. ASSUME NEW a \in Approval,
             Ask(a) \/ Register(a) \/ Respond(a) \/ Cancel(a) \/ Answer(a)
      PROVE  TypeOK' /\ DeliveryInv'
  BY <1>2, ApprovalStepKeeps
<1>3. ASSUME NEW k \in Key, Replay(k) PROVE TypeOK' /\ DeliveryInv'
  BY <1>3, ReplayKeeps
<1>4. ASSUME NEW k \in Key, NEW x \in subscribing, x[1] = k, Subscribe(k, x[2])
      PROVE  TypeOK' /\ DeliveryInv'
  <2>1. x[2] \in Nat
    BY DEF TypeOK
  <2> QED
    BY <1>4, <2>1, SubscribeKeeps
<1>5. CASE Prune \/ NoticeClose \/ HubStarts
  BY <1>5, HubStepKeeps
<1>6. CASE Drop \/ HubEnds
  BY <1>6, LossKeeps
<1>7. CASE Connect
  BY <1>7, ConnectKeeps
<1>8. CASE Receive
  BY <1>8, ReceiveKeeps
<1>9. CASE UNCHANGED vars
  <2>1. UNCHANGED <<hubUp, events, oldest, approval, subs, stale, down, subscribing, answers, on,
                    keys, cursor, seen, shown, faults>>
    BY <1>9 DEF vars, hub, wire, client
  <2>2. TypeOK'
    BY <2>1 DEF TypeOK
  <2>3. oldest <= oldest'
    BY <2>1 DEF TypeOK
  <2> QED
    BY <2>1, <2>2, <2>3, QuietKeeps
<1> QED
  BY <1>1, <1>2, <1>3, <1>4, <1>5, <1>6, <1>7, <1>8, <1>9 DEF Next

\* What the client has missed, if it has one subscription, was pruned.
LEMMA DeliveryIsWhole == TypeOK /\ DeliveryInv => NothingMissed
<1> SUFFICES ASSUME TypeOK, DeliveryInv, NEW k \in Key, keys = {k}, NEW i \in DOMAIN events,
                    Matches(k, events[i].session), i >= oldest,
                    events[i].sequence <= cursor[k], NEW x \in seen, x < i
             PROVE  i \in seen
  BY DEF NothingMissed
<1>1. OneKey(k) /\ events[i].sequence = i /\ i \in For(k)
  BY DEF DeliveryInv, OneKeyInv, LogInv, For
<1>2. i \in Nat \ {0} /\ cursor[k] \in Nat /\ i <= cursor[k]
  BY <1>1, EventsType DEF TypeOK
<1>3. cursor[k] \in seen
  BY <1>1, <1>2 DEF OneKey
<1>4. Whole(k, cursor[k]) /\ x \in Got
  BY <1>1, <1>3 DEF OneKey, Got
<1>5. i \in Got
  BY <1>1, <1>2, <1>4 DEF Whole
<1>6. i \notin EventsIn(down)
  BY <1>1, <1>2 DEF OneKey
<1> QED
  BY <1>5, <1>6 DEF Got

\* Frames arrive in the order of the log, each after everything the client has got, and
\* no approval is hidden from a live subscription.
LEMMA DeliveryHolds == TypeOK /\ DeliveryInv => EventsInv
<1> SUFFICES ASSUME TypeOK, DeliveryInv PROVE InOrder
  BY DeliveryIsWhole DEF DeliveryInv, ShownInv, EventsInv
<1> SUFFICES ASSUME NEW k \in Key, keys = {k}, NEW j \in DOMAIN down, IsEvent(j)
             PROVE  /\ events[down[j]].sequence > cursor[k]
                    /\ \A i \in 1 .. (j - 1) : IsEvent(i) =>
                         events[down[i]].sequence < events[down[j]].sequence
  BY DEF InOrder
<1>1. OneKey(k) /\ LogInv /\ EventsIn(down) \subseteq DOMAIN events
  BY DEF DeliveryInv, OneKeyInv, ConnInv
<1>2. Len(down) \in Nat /\ DOMAIN down = 1 .. Len(down)
  BY LenProperties DEF TypeOK
<1>3. \A i \in DOMAIN down : IsEvent(i) =>
        down[i] \in EventsIn(down) /\ events[down[i]].sequence = down[i]
  BY <1>1 DEF IsEvent, EventsIn, Ran, LogInv
<1>4. down[j] > cursor[k]
  BY <1>1, <1>3 DEF OneKey
<1>5. \A i \in 1 .. (j - 1) : i \in DOMAIN down /\ i < j
  BY <1>2
<1>6. \A i \in 1 .. (j - 1) : IsEvent(i) => down[i] < down[j]
  BY <1>1, <1>5 DEF OneKey, Rising, IsEvent
<1> QED
  BY <1>3, <1>4, <1>5, <1>6

\* The state of hub, wire and client that a run can reach: the subscriptions of the
\* present connection, what the replays hold back and have sent, and what has been got.
THEOREM DeliveryInvariant == Spec => [](TypeOK /\ DeliveryInv)
<1>1. Init => TypeOK /\ DeliveryInv
  BY DeliveryInit
<1>2. TypeOK /\ DeliveryInv /\ [Next]_vars => (TypeOK /\ DeliveryInv)'
  BY DeliveryStep
<1> QED
  BY <1>1, <1>2, PTL DEF Spec

\* With one subscription events arrive in the order they were published, none twice, and
\* a live subscription hides no pending approval but an overtaken one.
THEOREM EventsAreSound == Spec => []EventsInv
<1>1. TypeOK /\ DeliveryInv => EventsInv
  BY DeliveryHolds
<1> QED
  BY <1>1, DeliveryInvariant, PTL

-----------------------------------------------------------------------------
(* The delivery implements the feed. *)

\* What a step does to the log and to what the client has got.
LEMMA FeedSteps ==
  ASSUME TypeOK, [Next]_vars
  PROVE  /\ keys' = keys
         /\ \/ /\ \E s \in Session : \E a \in Approval \cup {None} : Publish(s, a)
               /\ UNCHANGED <<oldest, seen>>
            \/ Prune
            \/ Receive
            \/ UNCHANGED <<events, oldest, seen>>
<1> USE DEF hub, wire, client
<1>1. ASSUME NEW s \in Session, Emit(s)
      PROVE  Publish(s, None) /\ UNCHANGED <<keys, oldest, seen>>
  BY <1>1 DEF Emit
<1>2. ASSUME NEW a \in Approval, Register(a) \/ Respond(a) \/ Cancel(a)
      PROVE  /\ UNCHANGED <<keys, oldest, seen>>
             /\ \/ Publish(SessionOf[a], a) \/ Publish(SessionOf[a], None)
                \/ UNCHANGED events
  BY <1>2 DEF Register, Respond, Cancel
<1>3. ASSUME NEW a \in Approval, Ask(a) \/ Answer(a)
      PROVE  UNCHANGED <<keys, events, oldest, seen>>
  BY <1>3 DEF Ask, Answer
<1>4. ASSUME NEW k \in Key, Replay(k) \/ \E x \in subscribing : x[1] = k /\ Subscribe(k, x[2])
      PROVE  UNCHANGED <<keys, events, oldest, seen>>
  <2>1. CASE Replay(k)
    BY <2>1 DEF Replay
  <2>2. CASE \E x \in subscribing : x[1] = k /\ Subscribe(k, x[2])
    <3>1. PICK since : Subscribe(k, since)
      BY <2>2
    <3> QED
      BY <3>1 DEF Subscribe
  <2> QED
    BY <1>4, <2>1, <2>2
<1>5. CASE Connect \/ Drop \/ NoticeClose \/ HubEnds \/ HubStarts \/ UNCHANGED vars
  BY <1>5 DEF Connect, Drop, NoticeClose, HubEnds, HubStarts, vars
<1>6. Prune \/ Receive => keys' = keys
  BY DEF Prune, Receive
<1>7. \A a \in Approval : SessionOf[a] \in Session
  BY ApprovalAssumption
<1>8. CASE \E s \in Session : Emit(s)
  BY <1>1, <1>8
<1>9. CASE \E a \in Approval : Register(a) \/ Respond(a) \/ Cancel(a)
  BY <1>2, <1>7, <1>9
<1>10. CASE \E a \in Approval : Ask(a) \/ Answer(a)
  BY <1>3, <1>10
<1>11. CASE \E k \in Key : Replay(k) \/ \E x \in subscribing : x[1] = k /\ Subscribe(k, x[2])
  BY <1>4, <1>11
<1> QED
  BY <1>5, <1>6, <1>8, <1>9, <1>10, <1>11 DEF Next

\* Every step is one of the feed, or leaves it as it is.  What is received is the next
\* event of the log: those before it that are logged would be on the wire before it.
LEMMA FeedStep ==
  ASSUME TypeOK, DeliveryInv, [Next]_vars
  PROVE  [Feed!Next]_<<Len(events), oldest, Wanted, {i \in seen : OneKeyed}>>
<1> DEFINE got == {i \in seen : OneKeyed}
<1>1. keys' = keys /\ (OneKeyed' <=> OneKeyed)
  BY FeedSteps DEF OneKeyed
<1>2. Len(events) \in Nat /\ DOMAIN events = 1 .. Len(events) /\ oldest \in Nat
  BY EventsType DEF TypeOK
<1>3. ASSUME NEW s \in Session, NEW a \in Approval \cup {None}, Publish(s, a),
             UNCHANGED <<oldest, seen>>
      PROVE  Feed!Next
  <2>1. PICK n \in Nat : n = Len(events) + 1
    BY <1>2
  <2>2. /\ Len(events') = n /\ DOMAIN events' = DOMAIN events \cup {n} /\ n \notin DOMAIN events
        /\ \A i \in DOMAIN events : events'[i] = events[i]
    BY <1>3, <2>1, PublishedLog DEF DeliveryInv
  <2>3. Wanted' \in {Wanted, Wanted \cup {n}}
    <3>1. \A i \in DOMAIN events : i \in Wanted' <=> i \in Wanted
      BY <1>1, <2>2 DEF Wanted, Matches
    <3>2. Wanted' \subseteq DOMAIN events \cup {n} /\ Wanted \subseteq DOMAIN events
      BY <2>2 DEF Wanted
    <3> QED
      BY <3>1, <3>2
  <2>4. got' = got
    BY <1>1, <1>3
  <2> QED
    BY <1>3, <2>1, <2>2, <2>3, <2>4 DEF Feed!Next, Feed!Publish
<1>4. CASE UNCHANGED <<events, oldest, seen>>
  <2>1. UNCHANGED <<Len(events), oldest>> /\ got' = got /\ Wanted' = Wanted
    BY <1>1, <1>4 DEF Wanted, Matches
  <2> QED
    BY <2>1
<1>5. CASE Prune
  <2>1. UNCHANGED <<events, seen>> /\ oldest' \in (oldest + 1) .. (Len(events) + 1)
    BY <1>5 DEF Prune, client
  <2>2. oldest' > oldest /\ oldest' <= Len(events) + 1
    BY <1>2, <2>1
  <2>3. UNCHANGED Len(events) /\ got' = got /\ Wanted' = Wanted
    BY <1>1, <2>1 DEF Wanted, Matches
  <2> QED
    BY <2>2, <2>3 DEF Feed!Next, Feed!Prune
<1>6. CASE Receive
  <2>1. /\ down # <<>> /\ down' = Tail(down) /\ UNCHANGED <<events, oldest>>
    BY <1>6 DEF Receive, hub
  <2>2. PICK f : f = Head(down)
    OBVIOUS
  <2>3. UNCHANGED Len(events) /\ Wanted' = Wanted
    BY <1>1, <2>1 DEF Wanted, Matches
  <2>4. CASE f \in Approval \/ ~OneKeyed
    <3>1. f \in Approval => seen' = seen
      BY <1>6, <2>2 DEF Receive
    <3>2. got' = got
      BY <1>1, <2>4, <3>1
    <3> QED
      BY <2>1, <2>3, <3>2
  <2>5. CASE f \notin Approval /\ OneKeyed
    <3>1. PICK k \in Key : keys = {k}
      BY <2>5 DEF OneKeyed
    <3>2. OneKey(k) /\ EventsIn(down) \subseteq DOMAIN events
      BY <3>1 DEF DeliveryInv, OneKeyInv, ConnInv
    <3>3. got' = seen \cup {f} /\ got = seen
      <4>1. seen' = seen \cup {f}
        BY <1>6, <2>2, <2>5 DEF Receive
      <4> QED
        BY <1>1, <2>5, <4>1
    <3>4. Wanted = For(k)
      BY <2>5, <3>1 DEF Wanted, For
    <3>5. /\ f \in EventsIn(down) /\ EventsIn(down) = {f} \cup EventsIn(down')
          /\ \A y \in EventsIn(down') : f < y
      BY <2>1, <2>2, <2>5, <3>2, TailFrames, TailRises DEF OneKey, TypeOK
    <3>6. f \in For(k) /\ \A x \in seen : x < f
      <4>1. f \in Got /\ f \in Nat /\ cursor[k] \in Nat /\ f > cursor[k]
        <5>1. f \in EventsIn(down) /\ f \in DOMAIN events
          BY <3>2, <3>5
        <5>2. f \in Nat
          BY <1>2, <5>1
        <5>3. cursor[k] \in Nat
          BY DEF TypeOK
        <5>4. f > cursor[k]
          BY <3>2, <5>1 DEF OneKey
        <5> QED
          BY <5>1, <5>2, <5>3, <5>4 DEF Got
      <4>2. \A x \in seen : x \in Nat /\ x <= cursor[k]
        BY <1>2, <3>2 DEF OneKey, TypeOK
      <4>3. \A x \in seen : x < f
        BY <4>1, <4>2
      <4> QED
        BY <3>2, <4>1, <4>3 DEF OneKey
    <3>7. ASSUME seen # {}, NEW i \in For(k), \A x \in seen : x < i, i < f
          PROVE  i < oldest
      <4>1. i \in Nat /\ f \in Nat
        BY <1>2, <3>2, <3>5 DEF For
      <4>2. i \notin Got
        <5>1. i \notin EventsIn(down')
          <6>1. \A y \in EventsIn(down') : y \in Nat /\ f < y
            BY <1>2, <3>2, <3>5
          <6> QED
            BY <3>7, <4>1, <6>1
        <5>2. i # f /\ i \notin seen
          BY <3>7, <4>1
        <5> QED
          BY <3>5, <5>1, <5>2 DEF Got
      <4>3. Whole(k, f)
        BY <3>2, <3>5 DEF OneKey, Got
      <4>4. \E x \in Got : x < i
        BY <3>7 DEF Got
      <4>5. ~(i >= oldest)
        BY <3>7, <4>1, <4>2, <4>3, <4>4 DEF Whole
      <4> QED
        BY <1>2, <4>1, <4>5
    <3>8. Feed!Ahead = {i \in For(k) : \A x \in seen : x < i}
      BY <3>3, <3>4 DEF Feed!Ahead
    <3>9. f \in Wanted /\ Feed!Get(f)
      BY <2>1, <2>3, <3>3, <3>4, <3>6, <3>7, <3>8 DEF Feed!Get
    <3> QED
      BY <3>9 DEF Feed!Next
  <2> QED
    BY <2>4, <2>5
<1> QED
  BY <1>3, <1>4, <1>5, <1>6, FeedSteps

\* However often the connection drops, the hub ends and the log is pruned, what a client
\* with one subscription gets is a feed of the log: in its order, nothing twice, and
\* from the first event on nothing passed over that is still logged.
THEOREM RefinesFeed == Spec => FeedSpec
<1>1. Init => Feed!Init
  <2> SUFFICES ASSUME Init PROVE Feed!Init
    OBVIOUS
  <2>1. events = <<>> /\ oldest = 1 /\ seen = {}
    BY DEF Init
  <2>2. DOMAIN events = {} /\ Len(events) = 0
    BY <2>1, EmptySeq
  <2> QED
    BY <2>1, <2>2 DEF Feed!Init, Wanted
<1>2. TypeOK /\ DeliveryInv /\ [Next]_vars
        => [Feed!Next]_<<Len(events), oldest, Wanted, {i \in seen : OneKeyed}>>
  BY FeedStep
<1> QED
  BY <1>1, <1>2, DeliveryInvariant, PTL DEF Spec, FeedSpec, Feed!Spec

=============================================================================
