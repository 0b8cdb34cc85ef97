------------------------------ MODULE Alerting ------------------------------
(***************************************************************************)
(* The pure decisions of internal/alerting: what a check result does to    *)
(* the stored state of a site and which page it raises.  Messages, details *)
(* and error texts are left out.                                           *)
(***************************************************************************)
EXTENDS Integers

(* A row of site_state.  "absent" stands for no row at all, "unknown" for  *)
(* the row of a site whose HTTP check has not reported yet.                *)
Statuses == {"absent", "unknown", "up", "down"}

Row(times) == [status    : Statuses,
               failures  : Nat,       \* consecutive_failures
               changedAt : times,     \* last_status_change_at
               checkedAt : times]     \* last_check_at

NoRow == [status |-> "absent", failures |-> 0, changedAt |-> 0, checkedAt |-> 0]

(* What Process returns: the row to store and the page to dispatch.        *)
Outcomes(times) == [row      : Row(times),
                    page     : {"none", "down", "recovered"},
                    downtime : times,     \* told by a "recovered" page
                    at       : times]

-----------------------------------------------------------------------------
(* Variants of WentUp and WentDown, each with a mistake one could make in  *)
(* it: the operands of the downtime swapped; a page for the first          *)
(* observation; an outage restarted by every failed check; a page for      *)
(* every failed check.                                                     *)
WentUp_swapped(prev, now) ==
  [row      |-> [status    |-> "up",
                 failures  |-> 0,
                 changedAt |-> IF prev.status = "up" THEN prev.changedAt ELSE now,
                 checkedAt |-> now],
   page     |-> IF prev.status = "down" THEN "recovered" ELSE "none",
   downtime |-> IF prev.status = "down" THEN prev.changedAt - now ELSE 0,
   at       |-> now]

WentDown_noBaseline(prev, now) ==
  [row      |-> [status    |-> "down",
                 failures  |-> prev.failures + 1,
                 changedAt |-> IF prev.status = "down" THEN prev.changedAt ELSE now,
                 checkedAt |-> now],
   page     |-> IF prev.status # "down" THEN "down" ELSE "none",
   downtime |-> 0,
   at       |-> now]

WentDown_alwaysChanged(prev, now) ==
  [row      |-> [status    |-> "down",
                 failures  |-> prev.failures + 1,
                 changedAt |-> now,
                 checkedAt |-> now],
   page     |-> IF prev.status = "up" THEN "down" ELSE "none",
   downtime |-> 0,
   at       |-> now]

WentDown_everyFailure(prev, now) ==
  [row      |-> [status    |-> "down",
                 failures  |-> prev.failures + 1,
                 changedAt |-> IF prev.status = "down" THEN prev.changedAt ELSE now,
                 checkedAt |-> now],
   page     |-> IF prev.status # "unknown" THEN "down" ELSE "none",
   downtime |-> 0,
   at       |-> now]

-----------------------------------------------------------------------------
(* The up/down machine of decideHTTP.  The checker has used up its retries *)
(* by the time a result is "down", so one such result is an outage; the    *)
(* first result of a site is its baseline and pages nobody.                *)
WentUp(prev, now) ==
  [row      |-> [status    |-> "up",
                 failures  |-> 0,
                 changedAt |-> IF prev.status = "up" THEN prev.changedAt ELSE now,
                 checkedAt |-> now],
   page     |-> IF prev.status = "down" THEN "recovered" ELSE "none",
   downtime |-> IF prev.status = "down" THEN now - prev.changedAt ELSE 0,
   at       |-> now]

WentDown(prev, now) ==
  [row      |-> [status    |-> "down",
                 failures  |-> prev.failures + 1,
                 changedAt |-> IF prev.status = "down" THEN prev.changedAt ELSE now,
                 checkedAt |-> now],
   page     |-> IF prev.status = "up" THEN "down" ELSE "none",
   downtime |-> 0,
   at       |-> now]

DecideHTTP(prev, status, now) ==
  IF status = "up" THEN WentUp(prev, now) ELSE WentDown(prev, now)

(* SSL and domain results leave the up/down state alone and refresh        *)
(* last_check_at.  (The certificate and expiry alerts they raise are not   *)
(* pages of this machine.)                                                 *)
Refresh(prev, now) ==
  [row      |-> [status    |-> prev.status,
                 failures  |-> prev.failures,
                 changedAt |-> prev.changedAt,
                 checkedAt |-> now],
   page     |-> "none",
   downtime |-> 0,
   at       |-> now]

(* A site without a row starts as unknown, changed now. *)
Known(prev, now) ==
  IF prev.status = "absent"
  THEN [status |-> "unknown", failures |-> 0, changedAt |-> now, checkedAt |-> 0]
  ELSE prev

Process(prev, type, status, now) ==
  IF type = "http" THEN DecideHTTP(Known(prev, now), status, now)
                   ELSE Refresh(Known(prev, now), now)
=============================================================================
