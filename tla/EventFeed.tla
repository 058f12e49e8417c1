----------------------------- MODULE EventFeed -----------------------------
(***************************************************************************)
(* What a subscriber is promised of a log that is pruned: of the events it *)
(* subscribed to it gets one after the other, in the order of the log,     *)
(* none twice, and from the first one on it is passed over by none that is *)
(* still logged.  Where it begins is not promised.                         *)
(***************************************************************************)
EXTENDS Naturals

VARIABLES
  published,   \* how many events there are; they are numbered from 1
  oldest,      \* the first that is still logged
  wanted,      \* those the subscriber subscribed to
  got          \* those it has got

Init ==
  /\ published = 0 /\ oldest = 1
  /\ wanted = {} /\ got = {}

Publish ==
  /\ published' = published + 1
  /\ wanted' \in {wanted, wanted \cup {published'}}
  /\ UNCHANGED <<oldest, got>>

Prune ==
  /\ oldest' > oldest /\ oldest' <= published + 1
  /\ UNCHANGED <<published, wanted, got>>

\* What it wants and has not got to yet.
Ahead == {i \in wanted : \A x \in got : x < i}

Get(f) ==
  /\ f \in Ahead
  /\ got # {} => \A i \in Ahead : i < f => i < oldest
  /\ got' = got \cup {f}
  /\ UNCHANGED <<published, oldest, wanted>>

Next == Publish \/ Prune \/ \E f \in wanted : Get(f)

Spec == Init /\ [][Next]_<<published, oldest, wanted, got>>

=============================================================================
