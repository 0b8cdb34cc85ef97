---------------------------- MODULE CertMonitor ----------------------------
(***************************************************************************)
(* Certificate alerts of one site: the SSL checks, the engine's dedup      *)
(* against alert_log, and the dispatcher whose sends fill that log.        *)
(*                                                                         *)
(* The engine decides on what the log holds when it looks, and the log     *)
(* learns of an alert only when a send of it ends: two checks may see the  *)
(* same log.  The clock counts ticks, DayLength to the day, because what a *)
(* check reports is whole days.  The days and the trust of a result are    *)
(* those of its check; it may wait any time for the consumer, and a send   *)
(* may take any number of ticks.                                           *)
(***************************************************************************)
EXTENDS Expiry, Sequences, FiniteSets

CONSTANTS Certs,            \* certificates the site may serve, by serial
          NotAfter,         \* the last tick at which each is valid
          Sound,            \* those whose chain verifies
          Thresholds,       \* ssl_warn_days
          Window,           \* days the log is searched for expiry alerts (90)
          UntrustedWindow,  \* and for untrusted ones (7)
          DayLength,        \* ticks in a day
          Recipients,       \* routing of both kinds
          Slots, Notifiers, Smtp, NoNotifier,    \* as in Dispatcher
          StoreFaults,
          MaxAlerts,        \* bound on the alerts ever raised
          MaxTime           \* bound on the clock

Alerts == 1..MaxAlerts
Times  == 0..MaxTime

(* Validate accepts positive thresholds only; it sets them no upper limit. *)
ASSUME CertsAssumption      == /\ Certs # {}
                               /\ NotAfter \in [Certs -> Int]
                               /\ Sound \subseteq Certs
                               /\ "none" \notin Certs
ASSUME RecipientsAssumption == /\ Smtp \subseteq Notifiers
                               /\ NoNotifier \notin Notifiers
                               /\ StoreFaults \in BOOLEAN
ASSUME ThresholdsAssumption == Thresholds \subseteq Nat \ {0}
ASSUME WindowsAssumption    == Window \in Nat /\ UntrustedWindow \in Nat
ASSUME BoundsAssumption     == MaxAlerts \in Nat /\ MaxTime \in Nat
ASSUME DayAssumption        == DayLength \in Nat \ {0}

VARIABLES
  now,        \* the clock
  served,     \* the certificate the site serves
  worker,     \* "timer" or "sending"
  pending,    \* the result it is sending
  consumer,   \* "select", "decide" or "dispatch"
  result,     \* the result in hand
  due,        \* the alert the engine returned for it
  raised,     \* the alerts handed to the dispatcher so far
  loggedOn,   \* sent_at of the row each send has in alert_log
  pc, to, message, late, status, copies, alertLog, proc   \* Dispatcher's

Sender == INSTANCE Dispatcher WITH Routes <- {Recipients}

sender == <<pc, to, message, late, status, copies, alertLog, proc>>
check  == <<worker, pending>>
inhand == <<consumer, result, due>>
vars   == <<now, served, check, inhand, raised, loggedOn, sender>>

Results == [cert : Certs, dialed : BOOLEAN, untrusted : BOOLEAN, days : Int]

NoResult == [cert |-> CHOOSE c \in Certs : TRUE, dialed |-> FALSE,
             untrusted |-> FALSE, days |-> 0]

Init == /\ now      = 0
        /\ served   \in Certs
        /\ worker   = "timer"
        /\ pending  = NoResult
        /\ consumer = "select"
        /\ result   = NoResult
        /\ due      = NoAlert
        /\ raised   = << >>
        /\ loggedOn = [t \in Sender!Sends |-> 0]
        /\ Sender!Init

-----------------------------------------------------------------------------
(* Variants with a mistake one could make: the window searched from its    *)
(* wrong end; a dedup that forgets to ask for "sent"; a row without its    *)
(* sent_at.                                                                *)
Recent_older(t, days) == loggedOn[t] <= now - days * DayLength

SentLogged_anyStatus(band, c) ==
  \E t \in Sender!Sends : /\ alertLog[t] # "none"
                          /\ raised[t[1]] = [kind |-> "expiring", band |-> band, cert |-> c]

SentAt_zero == -1

-----------------------------------------------------------------------------
DaysLeft(c) == WholeDays(NotAfter[c] - now, DayLength)

(* SSLChecker.Check by the worker.  The chain is verified at the current   *)
(* time: an expired certificate is untrusted.  A dial may always fail, and *)
(* does under a cancelled context.                                         *)
CheckSSL(dialed) ==
  /\ worker = "timer"
  /\ proc # "stopped"
  /\ dialed => Sender!Ctx
  /\ worker'  = "sending"
  /\ pending' = IF dialed
                THEN [cert      |-> served,
                      dialed    |-> TRUE,
                      untrusted |-> served \notin Sound \/ NotAfter[served] < now,
                      days      |-> DaysLeft(served)]
                ELSE NoResult
  /\ UNCHANGED <<now, served, inhand, raised, loggedOn, sender>>

(* The channel to the consumer (its buffer is Scheduler's subject).  After *)
(* the signal a result may be dropped.                                     *)
NextCheck == worker' = "timer" /\ pending' = NoResult

Take ==
  /\ worker = "sending"
  /\ consumer = "select"
  /\ NextCheck
  /\ consumer' = "decide"
  /\ result'   = pending
  /\ UNCHANGED <<now, served, due, raised, loggedOn, sender>>

Drop ==
  /\ worker = "sending"
  /\ ~Sender!Ctx
  /\ NextCheck
  /\ UNCHANGED <<now, served, inhand, raised, loggedOn, sender>>

(* FindRecentAlerts, for the two kinds of alert. *)
Recent(t, days) == loggedOn[t] >= now - days * DayLength

UntrustedLogged ==
  \E t \in Sender!Sends : /\ alertLog[t] # "none"
                          /\ raised[t[1]].kind = "untrusted"
                          /\ Recent(t, UntrustedWindow)

SentLogged(band, c) ==
  \E t \in Sender!Sends : /\ alertLog[t] = "sent"
                          /\ raised[t[1]] = [kind |-> "expiring", band |-> band, cert |-> c]
                          /\ Recent(t, Window)

Verdict == DecideSSL(result, Thresholds, UntrustedLogged,
                     {band \in Thresholds : SentLogged(band, result.cert)})

Forget == consumer' = "select" /\ result' = NoResult /\ due' = NoAlert

(* Engine.Process, and the refresh of last_check_at that follows it. *)
Decide ==
  /\ consumer = "decide"
  /\ Sender!StoreAccepts
  /\ IF Verdict.kind = "none" THEN Forget
     ELSE due' = Verdict /\ consumer' = "dispatch" /\ UNCHANGED result
  /\ UNCHANGED <<now, served, check, raised, loggedOn, sender>>

(* A read the store refuses drops the result. *)
Refused ==
  /\ consumer = "decide"
  /\ Sender!StoreRefuses
  /\ Forget
  /\ UNCHANGED <<now, served, check, raised, loggedOn, sender>>

Raise ==
  /\ consumer = "dispatch"
  /\ Len(raised) < MaxAlerts
  /\ Sender!Dispatch(Len(raised) + 1, Recipients)
  /\ raised' = Append(raised, due)
  /\ Forget
  /\ UNCHANGED <<now, served, check, loggedOn>>

-----------------------------------------------------------------------------
(* The sends; record stamps its row with the time it writes it. *)
SentAt == now

SendStep ==
  /\ \E t \in Sender!Sends : Sender!Step(t)
  /\ loggedOn' = [t \in Sender!Sends |->
                    IF alertLog'[t] # alertLog[t] THEN SentAt ELSE loggedOn[t]]
  /\ UNCHANGED <<now, served, check, inhand, raised>>

(* The signal; the process ends, at leisure or killed at any moment, and   *)
(* is started again.                                                       *)
Cancel == Sender!Cancel /\ UNCHANGED <<now, served, check, inhand, raised, loggedOn>>

Stop  == /\ Sender!Stop
         /\ NextCheck
         /\ Forget
         /\ UNCHANGED <<now, served, raised, loggedOn>>

Restart == /\ Sender!Start
           /\ UNCHANGED <<now, served, check, inhand, raised, loggedOn>>

(* A renewal, or a site that serves now one certificate and now another. *)
Serve(c) == /\ served' = c
            /\ c # served
            /\ UNCHANGED <<now, check, inhand, raised, loggedOn, sender>>

Tick == /\ now < MaxTime
        /\ now' = now + 1
        /\ UNCHANGED <<served, check, inhand, raised, loggedOn, sender>>

Handle == Decide \/ Refused \/ Raise

Next == \/ \E dialed \in BOOLEAN : CheckSSL(dialed)
        \/ Take \/ Drop \/ Handle \/ SendStep \/ Cancel \/ Stop \/ Restart
        \/ \E c \in Certs : Serve(c)
        \/ Tick

(* The SSL worker's timer fires again and again and not every dial fails;  *)
(* the worker and the consumer run.  No send is relied on.                 *)
Fairness == SF_vars(CheckSSL(TRUE)) /\ WF_vars(Take \/ Drop) /\ WF_vars(Handle)

Spec     == Init /\ [][Next]_vars
FairSpec == Spec /\ Fairness

-----------------------------------------------------------------------------
AlertRecords == [kind : {"none", "expiring", "untrusted"}, band : Nat,
                 cert : Certs \cup {"none"}]

TypeOK ==
  /\ now      \in Times
  /\ served   \in Certs
  /\ worker   \in {"timer", "sending"}
  /\ pending  \in Results
  /\ consumer \in {"select", "decide", "dispatch"}
  /\ result   \in Results
  /\ due      \in AlertRecords
  /\ raised   \in Seq(AlertRecords)
  /\ loggedOn \in [Sender!Sends -> Times]

(* Once a send of an expiry alert is logged as sent, the engine never      *)
(* decides on another for the same band of the same certificate as long as *)
(* that is valid, however long a result waits, whatever the site serves in *)
(* between: if every threshold is less than the window the log is searched *)
(* for, days being rounded down, the certificate expires before its row is *)
(* out of sight.  A result judged later than that may find the row gone.   *)
Told(band, c) == \E t \in Sender!Sends :
                    /\ alertLog[t] = "sent"
                    /\ raised[t[1]] = [kind |-> "expiring", band |-> band, cert |-> c]

ThresholdsWithinWindow == \A t \in Thresholds : t < Window

Repeats == due' # due /\ due'.kind = "expiring" /\ Told(due'.band, due'.cert)

StillValid(a) == a.kind = "expiring" => now <= NotAfter[a.cert]

NeverTwice == [][(ThresholdsWithinWindow /\ StillValid(due')) => ~Repeats]_vars

(* The dedup never silences what nobody was told: a sound certificate in a *)
(* band no sent row speaks of becomes due, again if a send of it failed or *)
(* was lost, unless it leaves the band or is replaced, or the process ends *)
(* (after the last alert the consumer stays with whatever is due next).    *)
InBand(band, c) == /\ served = c /\ c \in Sound
                   /\ now <= NotAfter[c]
                   /\ Band(DaysLeft(c), Thresholds) = band

Decided(band, c) == \/ due = [kind |-> "expiring", band |-> band, cert |-> c]
                    \/ due # NoAlert /\ Len(raised) = MaxAlerts

UntoldIsDue ==
  \A band \in Thresholds, c \in Certs :
    (InBand(band, c) /\ ~Told(band, c))
      ~> (Decided(band, c) \/ ~InBand(band, c) \/ Told(band, c) \/ ~Sender!Ctx)
=============================================================================
