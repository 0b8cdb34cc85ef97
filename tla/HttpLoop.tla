------------------------------ MODULE HttpLoop ------------------------------
(***************************************************************************)
(* The HTTP worker of the site with the longest interval, in time: its     *)
(* timer, its checks one after the other, the consumer that stores their   *)
(* results, the other jobs whose results are stored too, and /healthz,     *)
(* which judges the process by the age of the latest row it can read.      *)
(*                                                                         *)
(* The interval is counted from the end of a check, and a check may itself *)
(* take longer than the interval, so rows may be two intervals and more    *)
(* apart.  The rows outlive the process, the start of the process does     *)
(* not.  Ages are counted up to the bound they have to be compared with.   *)
(***************************************************************************)
EXTENDS HttpCheck

CONSTANTS Jitter,       \* bound of the first delay, min(interval, 5 s)
          Delay,        \* how long a result may wait for the consumer
          Others,       \* the other sites
          StoreFaults   \* whether the store may refuse a call of its own accord

(* Validate asks for an interval of a second at least.  That a result does *)
(* not wait for a whole interval, nor a timer, is assumed of the machine.  *)
ASSUME LoopAssumption == /\ Jitter \in Nat /\ Jitter <= Interval
                         /\ Delay \in Nat  /\ Delay < Interval
                         /\ Late <= Interval
                         /\ StoreFaults \in BOOLEAN

VARIABLES loop,      \* the worker: "timer", "checking" or "ended"
          left,      \* ticks until its timer is due, negative when it is late
          queued,    \* a result is on its way to the consumer
          waited,    \* for how long
          age,       \* ticks since the site's row was stored; -1 if there is none
          others,    \* and since that of each other site
          up,        \* ticks since this process started
          stored,    \* this process has stored a row of the site (history)
          missed,    \* the store refused a result of the worker, and has not
                     \* taken one since (history)
          answer     \* what /healthz has just answered: "none" if nothing, "ok",
                     \* "stale", or "blind" when it was stale and the site has
                     \* no row or none that could be read

check    == <<phase, tries, fails, now, began, result>>
worker   == <<loop, left>>
channel  == <<queued, waited>>
rows     == <<age, others, stored, missed>>
loopVars == <<check, live, worker, channel, rows, up, answer>>

LoopInit == /\ Init
            /\ loop   = "timer"
            /\ left   \in 0..Jitter
            /\ queued = FALSE
            /\ waited = 0
            /\ age    = -1
            /\ others = [s \in Others |-> -1]
            /\ up     = 0
            /\ stored = FALSE
            /\ missed = FALSE
            /\ answer = "none"

-----------------------------------------------------------------------------
(* Variants with a mistake one could make: a threshold of one interval; a  *)
(* store whose calls go on under the cancelled context.                    *)
Threshold_once == Interval

StoreAccepts_withoutCtx == TRUE

(* How long a check may take: its attempts and pauses, or the deadline, a  *)
(* late timer and a last attempt.                                          *)
Shorter(a, b) == IF a <= b THEN a ELSE b
Longer(a, b)  == IF a <= b THEN b ELSE a

LongestCheck == Shorter((Retries + 1) * Timeout + Retries * (Backoff + Late),
                        Deadline + Late + Timeout)

(* How long after the row of a result the row of the next comes.           *)
LongestGap == Interval + Late + LongestCheck + Delay

(* staleThreshold *)
Threshold == 2 * Interval

MaxAge == Longer(LongestGap, Threshold) + 1

(* One tick older; -1 stays what it is. *)
Aged(t, bound) == IF t = -1 \/ t = bound THEN t ELSE t + 1

-----------------------------------------------------------------------------
(* runWorker.  The timer's channel and ctx.Done may both be ready.         *)
NewCheck == /\ phase'  = "attempt" /\ result' = "none"
            /\ tries'  = 1         /\ fails'  = 0
            /\ now'    = 0         /\ began'  = 0

Fire == /\ loop = "timer"
        /\ left <= 0
        /\ loop' = "checking"
        /\ left' = 0
        /\ NewCheck
        /\ UNCHANGED <<live, channel, rows, up>>

EndWorker == /\ loop = "timer"
             /\ ~live
             /\ loop' = "ended"
             /\ UNCHANGED <<check, live, left, channel, rows, up>>

(* HTTPChecker.Check *)
CheckStep == /\ loop = "checking"
             /\ Succeed \/ Fail \/ Retry \/ CutShort
             /\ UNCHANGED <<worker, channel, rows, up>>

(* The result is sent, or dropped after the signal, and the timer reset.   *)
Send == /\ loop = "checking"
        /\ phase = "done"
        /\ \/ ~queued /\ queued' = TRUE /\ waited' = 0
           \/ ~live /\ UNCHANGED channel
        /\ loop' = "timer"
        /\ left' = Interval
        /\ UNCHANGED <<check, live, rows, up>>

(* process: the row with its new last_check_at.  A refused read or write   *)
(* leaves the old one; the store's calls fail under a cancelled context.   *)
StoreAccepts == live
StoreRefuses == ~live \/ StoreFaults

Apply == /\ queued
         /\ StoreAccepts
         /\ queued' = FALSE
         /\ waited' = 0
         /\ age'    = 0
         /\ stored' = TRUE
         /\ missed' = FALSE
         /\ UNCHANGED <<check, live, worker, others, up>>

ApplyRefused == /\ queued
                /\ StoreRefuses
                /\ queued' = FALSE
                /\ waited' = 0
                /\ missed' = TRUE
                /\ UNCHANGED <<check, live, worker, age, others, stored, up>>

(* A result of the site's SSL or domain check refreshes the same row; one  *)
(* of another site, of whatever check, that site's.                        *)
OtherResult == /\ live
               /\ age'    = 0
               /\ stored' = TRUE
               /\ UNCHANGED <<check, live, worker, channel, others, missed, up>>

OtherSite(s) == /\ live
                /\ others' = [others EXCEPT ![s] = 0]
                /\ UNCHANGED <<check, live, worker, channel, age, stored, missed, up>>

-----------------------------------------------------------------------------
(* handleHealthz and healthState.  A row that cannot be read is skipped,   *)
(* each on its own; without any the process's own age counts.  own says    *)
(* whether the site's row can be read, readable which of the others.       *)
Seen(own) == own /\ age # -1

Read(own, readable) == (IF Seen(own) THEN {age} ELSE {})
                         \cup {others[s] : s \in {u \in readable : others[u] # -1}}

Stale(ages) == IF ages = {} THEN up > Threshold ELSE \A a \in ages : a > Threshold

Poll(own, readable) ==
  /\ live
  /\ (own /\ readable = Others) \/ StoreFaults
  /\ answer' = IF ~Stale(Read(own, readable)) THEN "ok"
               ELSE IF Seen(own) THEN "stale" ELSE "blind"
  /\ UNCHANGED <<check, live, worker, channel, rows, up>>

-----------------------------------------------------------------------------
(* The signal; the end of the process, at any moment; its start.           *)
Signal == /\ live
          /\ live' = FALSE
          /\ UNCHANGED <<check, worker, channel, rows, up>>

Exit == /\ loop # "ended" \/ live \/ queued
        /\ loop'   = "ended"
        /\ live'   = FALSE
        /\ queued' = FALSE
        /\ waited' = 0
        /\ left'   = 0
        /\ NewCheck
        /\ UNCHANGED <<rows, up>>

Restart == /\ loop = "ended"
           /\ ~live
           /\ loop'   = "timer"
           /\ left'   \in 0..Jitter
           /\ live'   = TRUE
           /\ queued' = FALSE
           /\ waited' = 0
           /\ up'     = 0
           /\ stored' = FALSE
           /\ missed' = FALSE
           /\ NewCheck
           /\ UNCHANGED <<age, others>>

(* Time passes for all; timers, time-outs and the wait for the consumer    *)
(* are met, but for the lateness of timers.                                *)
InCheck == IF loop = "checking"
           THEN phase # "done" /\ now < began + Limit /\ now' = now + 1
           ELSE UNCHANGED now

InTimer == IF loop = "timer" THEN left > -Late /\ left' = left - 1
                             ELSE UNCHANGED left

InQueue == IF queued THEN waited < Delay /\ waited' = waited + 1
                     ELSE UNCHANGED waited

Pass == /\ InCheck /\ InTimer /\ InQueue
        /\ age'    = Aged(age, MaxAge)
        /\ others' = [s \in Others |-> Aged(others[s], Threshold + 1)]
        /\ up'     = Aged(up, MaxAge)
        /\ UNCHANGED <<phase, tries, fails, began, result, live, loop, queued, stored, missed>>

Run == \/ Fire \/ EndWorker \/ CheckStep \/ Send
       \/ Apply \/ ApplyRefused \/ OtherResult \/ \E s \in Others : OtherSite(s)
       \/ Signal \/ Exit \/ Restart \/ Pass

LoopNext == \/ Run /\ answer' = "none"
            \/ \E own \in BOOLEAN, readable \in SUBSET Others : Poll(own, readable)

LoopSpec == LoopInit /\ [][LoopNext]_loopVars

-----------------------------------------------------------------------------
LoopTypeOK == /\ TypeOK
              /\ loop   \in {"timer", "checking", "ended"}
              /\ left   \in (-Late)..Interval
              /\ queued \in BOOLEAN
              /\ waited \in 0..Delay
              /\ age    \in -1..MaxAge
              /\ others \in [Others -> -1..(Threshold + 1)]
              /\ up     \in 0..MaxAge
              /\ stored \in BOOLEAN
              /\ missed \in BOOLEAN
              /\ answer \in {"none", "ok", "stale", "blind"}

(* Rows keep coming while the process runs and the store takes them: the   *)
(* first soon after the start, each other at most LongestGap after the one *)
(* before, however slow the site, however late the timers.                 *)
RowsKeepComing ==
  (live /\ ~missed) =>
     IF stored THEN age \in 0..LongestGap
               ELSE up <= Jitter + Late + LongestCheck + Delay

(* alerting.go:45-46, "by the time a CheckResult of status=down reaches    *)
(* us, all attempts have been exhausted": not of every result the consumer *)
(* takes, for a check cut short at a pause is down like any other, but of  *)
(* every one the store takes in: the context that cut the check refuses    *)
(* the write, and no result outlives its process.                          *)
DownIsExhausted == [][(Apply /\ result = "down") => Exhausted]_loopVars

(* README.md:116-119: while it can read the site's row, /healthz says 503  *)
(* of a running process only if the worker is behind: its check took so    *)
(* long that the row of the one before is two intervals old, a result was  *)
(* refused, or this process has not stored a row of the site.              *)
Slow == now > Interval - Late - Delay

HealthTruthful == answer = "stale" => Slow \/ missed \/ ~stored

(* README.md:116-118, "or within the same window after startup - startup   *)
(* grace": a process is not called stale in its first two intervals.       *)
StartupGrace == answer \in {"stale", "blind"} => up > 2 * Interval
=============================================================================
