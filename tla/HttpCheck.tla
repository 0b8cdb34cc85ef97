----------------------------- MODULE HttpCheck -----------------------------
(***************************************************************************)
(* One HTTP check (internal/checker/http.go): Retries + 1 attempts with a  *)
(* pause between them, none begun after the deadline, all under a context  *)
(* that may be cancelled.  Time is in ticks of 100 ms.                     *)
(***************************************************************************)
EXTENDS Integers

CONSTANTS Retries,    \* s.Retries
          Interval,   \* s.Interval
          Timeout,    \* s.Timeout
          Backoff,    \* RetryBackoff
          Margin,     \* what the deadline leaves of the interval
          Late        \* how much a timer may be late

ASSUME ConfigAssumption ==
  /\ Retries \in Nat /\ Backoff \in Nat /\ Margin \in Nat /\ Late \in Nat
  /\ Interval \in Nat /\ Margin <= Interval
  /\ Timeout  \in Nat

VARIABLES phase,     \* "attempt", "pause" or "done"
          tries,     \* attempts begun
          fails,     \* attempts that failed (history)
          now,       \* ticks since the check began
          began,     \* when the phase began
          result,    \* "none", "up" or "down"
          live       \* the context is not cancelled

vars == <<phase, tries, fails, now, began, result, live>>

Init == /\ phase  = "attempt"
        /\ tries  = 1
        /\ fails  = 0
        /\ now    = 0
        /\ began  = 0
        /\ result = "none"
        /\ live   = TRUE

-----------------------------------------------------------------------------
(* Variants with a mistake one could make: one attempt too many, and a     *)
(* deadline nobody looks at.                                               *)
Attempts_oneMore == Retries + 2

InTime_ignored == TRUE

-----------------------------------------------------------------------------
Attempts == Retries + 1
Deadline == Interval - Margin
InTime   == now + Backoff <= Deadline

Return(r) == phase' = "done" /\ result' = r /\ UNCHANGED <<tries, began>>

(* A response of an expected status, and with the expected text. *)
Succeed == /\ phase = "attempt"
           /\ live
           /\ Return("up")
           /\ UNCHANGED <<fails, now, live>>

(* Anything else, a time-out or a cancelled context included.  The loop    *)
(* goes on if it has an attempt left and the pause ends by the deadline.   *)
Fail == /\ phase = "attempt"
        /\ fails' = fails + 1
        /\ IF tries < Attempts /\ InTime
           THEN phase' = "pause" /\ began' = now /\ UNCHANGED <<tries, result>>
           ELSE Return("down")
        /\ UNCHANGED <<now, live>>

(* The two cases of the select in the pause.  A check cut short there      *)
(* returns a down result like any other, but for the text of its error.    *)
Retry == /\ phase = "pause"
         /\ now >= began + Backoff
         /\ phase' = "attempt"
         /\ tries' = tries + 1
         /\ began' = now
         /\ UNCHANGED <<fails, now, result, live>>

CutShort == /\ phase = "pause"
            /\ ~live
            /\ Return("down")
            /\ UNCHANGED <<fails, now, live>>

Cancel == /\ live
          /\ phase # "done"
          /\ live' = FALSE
          /\ UNCHANGED <<phase, tries, fails, now, began, result>>

(* An attempt ends by its time-out; a timer may be Late ticks late. *)
Limit == IF phase = "attempt" THEN Timeout ELSE Backoff + Late

Tick == /\ phase # "done"
        /\ now < began + Limit
        /\ now' = now + 1
        /\ UNCHANGED <<phase, tries, fails, began, result, live>>

Next == Succeed \/ Fail \/ Retry \/ CutShort \/ Cancel \/ Tick

Spec == Init /\ [][Next]_vars

-----------------------------------------------------------------------------
(* The types; among them, never more than Retries + 1 attempts. *)
TypeOK == /\ phase  \in {"attempt", "pause", "done"}
          /\ tries  \in 1..(Retries + 1)
          /\ fails  \in 0..tries
          /\ now    \in Nat
          /\ began  \in 0..now
          /\ result \in {"none", "up", "down"}
          /\ live   \in BOOLEAN

(* However slow the site is, a check takes no longer than one attempt more *)
(* than its deadline allows.                                               *)
ElapsedBounded == now <= Deadline + Late + Timeout

(* Every attempt begun has failed and none is left, or no time for the     *)
(* pause before it.                                                        *)
Exhausted == /\ fails = tries
             /\ tries = Retries + 1 \/ now + Backoff > Deadline
=============================================================================
