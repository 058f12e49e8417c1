----------------------------- MODULE RunLedger -----------------------------
(***************************************************************************)
(* What cron.db promises about the rows of cron_runs, whoever runs them:   *)
(* a row is queued once, may be claimed any number of times while it has   *)
(* no outcome, a new claim taking over from the one before, and gets one   *)
(* outcome, after which it neither changes nor is claimed again.  A claim  *)
(* of a spec that is not enabled is refused by cancelling the row.         *)
(***************************************************************************)
EXTENDS Naturals

CONSTANT Run

VARIABLES
  status,   \* status of each row; "none" before it exists
  claims    \* how often it was claimed

Outcome == {"done", "failed", "cancelled"}

Init ==
  /\ status = [r \in Run |-> "none"]
  /\ claims = [r \in Run |-> 0]

Becomes(r, s) == status'[r] = s /\ claims'[r] = claims[r]
ClaimedAs(r, s) == status'[r] = s /\ claims'[r] = claims[r] + 1

RowStep(r) ==
  \/ Becomes(r, status[r])
  \/ status[r] = "none" /\ Becomes(r, "queued")
  \/ status[r] = "queued" /\ Becomes(r, "cancelled")
  \/ status[r] \in {"queued", "running"} /\ ClaimedAs(r, "running")
  \/ status[r] \in {"queued", "running"} /\ ClaimedAs(r, "cancelled")
  \/ status[r] = "running" /\ \E o \in Outcome : Becomes(r, o)

\* One transaction may touch several rows.
Next == \A r \in Run : RowStep(r)

Spec == Init /\ [][Next]_<<status, claims>>

=============================================================================
